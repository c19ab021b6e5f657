------------------------------ MODULE MCSerde ------------------------------
\* The machine of Serde with the tables of the four structs.
EXTENDS Serde, SerdeTypes
=============================================================================
