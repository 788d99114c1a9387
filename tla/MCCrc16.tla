------------------------------ MODULE MCCrc16 ------------------------------
EXTENDS Crc16

\* No body (Read, Nonce-less commands), and one- and two-byte bodies
MCBodies == {<<>>, <<0>>, <<128>>, <<1, 255>>}
=============================================================================
