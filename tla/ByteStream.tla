------------------------------ MODULE ByteStream ------------------------------
(***************************************************************************)
(* What the trait Transport of crates/transport/src/lib.rs promises the    *)
(* owner of a stream, whichever back end carries it: requests are accepted *)
(* once and in order, Ok means what the back end says it means, payloads   *)
(* are read in order, each once, and Closed is told only when there is     *)
(* nothing left to read. AdbClient and AdbServer implement it.             *)
(*                                                                         *)
(* Requests (the open and every write) and payloads are numbered; a count  *)
(* stands for those up to it. What is lost is lost visibly: the only       *)
(* payloads that are passed over are those in lost.                        *)
(***************************************************************************)
EXTENDS Naturals

CONSTANTS
  Streams,
  Confirmed,  \* Ok to a write means that the device has accepted it
  Chunked     \* one read may return several payloads

VARIABLES
  requests,   \* requests the owner of a stream issued
  got,        \* requests the device accepted
  acked,      \* requests that returned Ok to the owner
  sent,       \* payloads the device sent
  lost,       \* payloads that will never be read
  taken,      \* payloads the owner has read
  eof         \* streams whose owner was told Closed

vars == <<requests, got, acked, sent, lost, taken, eof>>

Init ==
  /\ requests = [s \in Streams |-> 0]
  /\ got = [s \in Streams |-> 0]
  /\ acked = [s \in Streams |-> 0]
  /\ sent = [s \in Streams |-> 0]
  /\ lost = [s \in Streams |-> {}]
  /\ taken = [s \in Streams |-> {}]
  /\ eof = {}

Unread(s) == {n \in 1..sent[s] : n \notin taken[s] /\ n \notin lost[s]}

Request(s) ==
  /\ requests' = [requests EXCEPT ![s] = @ + 1]
  /\ UNCHANGED <<got, acked, sent, lost, taken, eof>>

Accept(s) ==
  /\ got[s] < requests[s]
  /\ got' = [got EXCEPT ![s] = @ + 1]
  /\ UNCHANGED <<requests, acked, sent, lost, taken, eof>>

\* Ok to the requests issued so far; the first one, the open, is always confirmed. A write
\* that is cut into chunks goes on with its next request.
ReturnOk(s) ==
  /\ Confirmed \/ acked[s] = 0 => got[s] = requests[s]
  /\ acked' = [acked EXCEPT ![s] = requests[s]]
  /\ \/ UNCHANGED requests
     \/ requests' = [requests EXCEPT ![s] = @ + 1]
  /\ UNCHANGED <<got, sent, lost, taken, eof>>

Send(s) ==
  /\ s \notin eof
  /\ sent' = [sent EXCEPT ![s] = @ + 1]
  /\ UNCHANGED <<requests, got, acked, lost, taken, eof>>

Lose(s) ==
  /\ \E gone \in SUBSET Unread(s) : lost' = [lost EXCEPT ![s] = @ \cup gone]
  /\ UNCHANGED <<requests, got, acked, sent, taken, eof>>

\* A read returns the first of the unread payloads, or several of them from the first on.
Take(s) ==
  /\ s \notin eof
  /\ \E n \in Unread(s) :
       /\ Chunked \/ \A m \in Unread(s) : n <= m
       /\ taken' = [taken EXCEPT ![s] = @ \cup {m \in Unread(s) : m <= n}]
  /\ UNCHANGED <<requests, got, acked, sent, lost, eof>>

TellClosed(s) ==
  /\ s \notin eof
  /\ Unread(s) = {}
  /\ eof' = eof \cup {s}
  /\ UNCHANGED <<requests, got, acked, sent, lost, taken>>

Next ==
  \E s \in Streams :
    \/ Request(s) \/ Accept(s) \/ ReturnOk(s)
    \/ Send(s) \/ Lose(s) \/ Take(s) \/ TellClosed(s)

Spec == Init /\ [][Next]_vars

===============================================================================
