---------------------------- MODULE SectorStore ----------------------------
(***************************************************************************)
(* What the storage layer promises its clients: a call moves sectors one   *)
(* after the other, in order, between the client's buffer and the sectors  *)
(* it names; it reports success only when it moved all of them, and when   *)
(* it reports failure the sectors it did move form a prefix of the         *)
(* request.  On the drives in Silent, and only there, a sector may instead *)
(* be lost without a word: a read gives Lost then, a write does nothing.   *)
(* Storage.tla implements this specification.                              *)
(***************************************************************************)
EXTENDS Integers, FiniteSets

CONSTANTS
  Requests,   \* [kind, device, sector, data]: data[c] goes to sector + c
  Contents,   \* the possible contents of all devices
  Silent,     \* devices that may lose a sector and report success
  Lost,       \* what a read gives for a lost sector
  Untouched   \* a place of the client's buffer not yet written to

VARIABLES
  content,  \* content[device][sector]
  request,  \* the call in progress, or the last one
  moved,    \* how many sectors it has moved
  buffer,   \* the client's buffer, for a read
  status    \* "none", "running", "success", "failure"

vars == <<content, request, moved, buffer, status>>

Count(r) == Cardinality(DOMAIN r.data)
Blank(r) == [c \in DOMAIN r.data |-> Untouched]

Init ==
  /\ content \in Contents
  /\ request \in Requests
  /\ moved = 0
  /\ buffer = Blank(request)
  /\ status = "none"

Call(r) ==
  /\ status # "running"
  /\ request' = r /\ moved' = 0 /\ buffer' = Blank(r)
  /\ status' = "running"
  /\ UNCHANGED content

\* The sector the call is at, which a read copies and a write replaces.  The
\* last one ends the call.
Here == request.sector + moved
IfLost(d) == IF request.device \in Silent THEN {d} ELSE {}

Move ==
  /\ status = "running" /\ moved < Count(request)
  /\ Here \in DOMAIN content[request.device]
  /\ \/ /\ request.kind = "read"
        /\ \E d \in {content[request.device][Here]} \cup IfLost(Lost) :
             buffer' = [buffer EXCEPT ![moved] = d]
        /\ UNCHANGED content
     \/ /\ request.kind = "write"
        /\ \E d \in {request.data[moved]} \cup IfLost(content[request.device][Here]) :
             content' = [content EXCEPT ![request.device][Here] = d]
        /\ UNCHANGED buffer
  /\ moved' = moved + 1
  /\ status' = IF moved + 1 = Count(request) THEN "success" ELSE "running"
  /\ UNCHANGED request

Fail ==
  /\ status = "running"
  /\ status' = "failure"
  /\ UNCHANGED <<content, request, moved, buffer>>

Next == (\E r \in Requests : Call(r)) \/ Move \/ Fail

Spec == Init /\ [][Next]_vars
=============================================================================
