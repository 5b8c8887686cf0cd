--------------------------- MODULE MCAddressCodec ---------------------------
EXTENDS AddressCodec, TLC

\* Names of every length a byte can tell, of ASCII and of invalid bytes, with a
\* character of three bytes, and one that spells an address.
MCNames ==
  UNION {[1..n -> {0, 7}] : n \in 0..4}
  \cup {<<n, 6, 5, 5>> : n \in {0, 2}} \cup {<<6, 5>>, <<6, 0>>, <<1, 2>>}
  \cup {[i \in 1..n |-> 0] : n \in 5..7} \cup {[i \in 1..n |-> 7] : n \in 5..7}

MCOctets == {1, 2}
MCLiteral == <<1, 2>> :> [type |-> Ipv4, bytes |-> <<1, 2>>]
=============================================================================
