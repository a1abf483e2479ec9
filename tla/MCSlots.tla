------------------------------ MODULE MCSlots ------------------------------
EXTENDS Slots

\* The addresses are ports of one IP.
MCIp(x) == "ip"
=============================================================================
