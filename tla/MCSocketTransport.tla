-------------------------- MODULE MCSocketTransport --------------------------
(***************************************************************************)
(* Small instances of the socket transport.  A byte has four values: 1, 2  *)
(* and 3 are the symbols 'j', 'u' and one that nobody knows.  A payload    *)
(* may look like the header of a message.                                  *)
(***************************************************************************)
EXTENDS SocketTransport

MCPayloads == {<<1>>, <<0, 0, 0, 0, 1>>}

\* A byte that is no text.
MCRefused == {<<2, <<1>>>>}

\* Every integer of every type, and one more at either end of its range.
ASSUME CodecAssumption ==
  \A t \in IntTypes, big \in BOOLEAN :
    \A v \in (MinOf(t) - 1)..(MaxOf(t) + 1) : RoundTrips(t, big, v)
=============================================================================
