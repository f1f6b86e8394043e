--------------------------- MODULE MC_EthernetJNI ---------------------------
(* Model-checking instance of EthernetJNI: replies of up to five bytes.    *)
EXTENDS EthernetJNI

\* Words a command reply may hold: the two expected ones and another.
MC_WordTokens == {"OK", "PONG", "FAIL"}

\* Characters of a MAC address reply: a name or address character, the
\* separator and a blank.
MC_MacChars == {"a", "=", " "}

\* Success, and the library's failure return.
MC_DriverStatus == {0, -1}
=============================================================================
