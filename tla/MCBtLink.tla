------------------------------ MODULE MCBtLink ------------------------------
EXTENDS BtLink
=============================================================================
