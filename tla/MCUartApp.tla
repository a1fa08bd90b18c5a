----------------------------- MODULE MCUartApp -----------------------------
EXTENDS UartAppProperties
=============================================================================
