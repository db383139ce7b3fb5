---------------------------- MODULE ServiceProofs ----------------------------
(***************************************************************************)
(* Proofs of the safety properties of the services around the sync         *)
(* pipeline: the MCP gateway, the OAuth flows, the audit log, the event    *)
(* subscriptions, the rate limiters and the workers behind the pools, for  *)
(* any number of clients, goroutines, publishers and batches, any          *)
(* capacity, limit and bound.                                              *)
(***************************************************************************)
EXTENDS Gateway, Embedded, Audit, Subscriptions, Limits, Workers, SequenceTheorems,
        FiniteSetTheorems, TLAPS

-----------------------------------------------------------------------------
(* The gateway.                                                             *)

GwPlaces == {"route", "execute", "answer", "pushed", "done"}
GwCalls == [client : GwClients, pc : GwPlaces, ok : BOOLEAN, ran : BOOLEAN]

GwShape ==
    /\ gwReqs \in Seq(GwCalls) /\ gwTools \in Seq({"none", "runs", "ok", "error"})
    /\ gwAudit \in Seq([req : Nat, ok : BOOLEAN]) /\ gwPushed \in Seq(Nat)
    /\ gwAnswered \in Seq(Nat) /\ Len(gwTools) = Len(gwReqs)
    /\ Len(gwPushed) = Len(gwReqs) /\ Len(gwAnswered) = Len(gwReqs)

(* A response is put on a stream at most once, over SSE and after the       *)
(* request's part is over, and written as the answer at most once, at the   *)
(* end; only a request that called Execute (its ran is t) is in it, and     *)
(* none has before it is routed.                                            *)
GwOnce(kind, pc, pushed, answered) ==
    /\ answered <= 1 /\ (pc # "done" => answered = 0)
    /\ pushed <= 1 /\ (pc \notin {"pushed", "done"} => pushed = 0)
    /\ kind # "sse" => pushed = 0

GwOrder(reqs, pushed, answered, kind, t, f) ==
    \A r \in 1..Len(reqs) :
       /\ GwOnce(kind, reqs[r].pc, pushed[r], answered[r])
       /\ reqs[r].pc = "execute" => reqs[r].ran = t
       /\ reqs[r].pc = "route" => reqs[r].ran = f

(* Each entry of the audit log is of a call that has left Execute, with its *)
(* result; two entries are of two calls; and each such call has one.        *)
GwEntries(reqs, audit, t) ==
    /\ \A i \in 1..Len(audit) :
          /\ audit[i].req \in 1..Len(reqs) /\ reqs[audit[i].req].ran = t
          /\ reqs[audit[i].req].pc \in {"answer", "pushed", "done"}
          /\ reqs[audit[i].req].ok = audit[i].ok
    /\ \A i, j \in 1..Len(audit) : audit[i].req = audit[j].req => i = j
    /\ \A r \in 1..Len(reqs) : reqs[r].ran = t /\ reqs[r].pc # "execute" =>
          \E i \in 1..Len(audit) : audit[i].req = r

GatewayIInv ==
    /\ GwShape /\ GwOrder(gwReqs, gwPushed, gwAnswered, gwKind, TRUE, FALSE)
    /\ GwEntries(gwReqs, gwAudit, TRUE)

(* The values of ran and ok are two different ones.                         *)
LEMMA Truths == \E t, f : t = TRUE /\ f = FALSE /\ t # f /\ BOOLEAN = {t, f}
  BY Zenon

(* One request moves on, the others stay.                                   *)
LEMMA GwOrderKept ==
  ASSUME NEW t, NEW f, NEW r, Len(gwReqs) \in Nat, GwOrder(gwReqs, gwPushed, gwAnswered, gwKind, t, f),
         Len(gwReqs') = Len(gwReqs),
         gwKind' = gwKind,
         \A q \in 1..Len(gwReqs) : q # r => /\ gwReqs'[q] = gwReqs[q]
                                           /\ gwPushed'[q] = gwPushed[q]
                                           /\ gwAnswered'[q] = gwAnswered[q],
         GwOnce(gwKind, gwReqs'[r].pc, gwPushed'[r], gwAnswered'[r]),
         gwReqs'[r].pc = "execute" => gwReqs'[r].ran = t,
         gwReqs'[r].pc = "route" => gwReqs'[r].ran = f
  PROVE  GwOrder(gwReqs', gwPushed', gwAnswered', gwKind', t, f)
  BY DEF GwOrder

(* The log stays, and the request that moves on has its entry or needs none. *)
LEMMA GwEntriesKept ==
  ASSUME NEW t, NEW r \in 1..Len(gwReqs), Len(gwReqs) \in Nat, Len(gwAudit) \in Nat,
         GwEntries(gwReqs, gwAudit, t), Len(gwReqs') = Len(gwReqs),
         \A q \in 1..Len(gwReqs) : q # r => gwReqs'[q] = gwReqs[q],
         \/ /\ gwReqs'[r].ran = gwReqs[r].ran /\ gwReqs'[r].ok = gwReqs[r].ok
            /\ gwReqs[r].pc \in {"answer", "pushed", "done"} /\ gwReqs'[r].pc \in {"answer", "pushed", "done"}
         \/ /\ gwReqs[r].ran # t
            /\ gwReqs'[r].ran = t => gwReqs'[r].pc = "execute"
  PROVE  GwEntries(gwReqs', gwAudit, t)
<1>1. \A i \in 1..Len(gwAudit) :
        /\ gwAudit[i].req \in 1..Len(gwReqs') /\ gwReqs'[gwAudit[i].req].ran = t
        /\ gwReqs'[gwAudit[i].req].pc \in {"answer", "pushed", "done"}
        /\ gwReqs'[gwAudit[i].req].ok = gwAudit[i].ok
  <2> SUFFICES ASSUME NEW i \in 1..Len(gwAudit)
      PROVE  /\ gwAudit[i].req \in 1..Len(gwReqs') /\ gwReqs'[gwAudit[i].req].ran = t
             /\ gwReqs'[gwAudit[i].req].pc \in {"answer", "pushed", "done"}
             /\ gwReqs'[gwAudit[i].req].ok = gwAudit[i].ok
    OBVIOUS
  <2>1. /\ gwAudit[i].req \in 1..Len(gwReqs) /\ gwReqs[gwAudit[i].req].ran = t
        /\ gwReqs[gwAudit[i].req].pc \in {"answer", "pushed", "done"}
        /\ gwReqs[gwAudit[i].req].ok = gwAudit[i].ok
    BY DEF GwEntries
  <2>2. CASE gwAudit[i].req = r
    BY <2>1, <2>2
  <2>3. CASE gwAudit[i].req # r
    BY <2>1, <2>3
  <2> QED
    BY <2>2, <2>3
<1>2. \A i, j \in 1..Len(gwAudit) : gwAudit[i].req = gwAudit[j].req => i = j
  BY DEF GwEntries
<1>3. \A q \in 1..Len(gwReqs') : gwReqs'[q].ran = t /\ gwReqs'[q].pc # "execute" =>
        \E i \in 1..Len(gwAudit) : gwAudit[i].req = q
  <2> SUFFICES ASSUME NEW q \in 1..Len(gwReqs), gwReqs'[q].ran = t, gwReqs'[q].pc # "execute"
      PROVE  \E i \in 1..Len(gwAudit) : gwAudit[i].req = q
    OBVIOUS
  <2>1. gwReqs[q].ran = t /\ gwReqs[q].pc # "execute"
    OBVIOUS
  <2> QED
    BY <2>1 DEF GwEntries
<1> QED
  BY <1>1, <1>2, <1>3 DEF GwEntries

(* Execute ends: the log has one entry more, for the request that leaves.   *)
LEMMA GwEntryAdded ==
  ASSUME NEW t, NEW r \in 1..Len(gwReqs), Len(gwReqs) \in Nat, Len(gwAudit) \in Nat,
         GwEntries(gwReqs, gwAudit, t), Len(gwReqs') = Len(gwReqs),
         \A q \in 1..Len(gwReqs) : q # r => gwReqs'[q] = gwReqs[q],
         gwReqs[r].pc = "execute", gwReqs'[r].pc = "answer", gwReqs'[r].ran = t,
         Len(gwAudit') = Len(gwAudit) + 1,
         \A i \in 1..Len(gwAudit) : gwAudit'[i] = gwAudit[i],
         gwAudit'[Len(gwAudit) + 1].req = r, gwAudit'[Len(gwAudit) + 1].ok = gwReqs'[r].ok
  PROVE  GwEntries(gwReqs', gwAudit', t)
<1>1. \A i \in 1..Len(gwAudit) : gwAudit[i].req # r
  BY DEF GwEntries
<1>2. \A i \in 1..Len(gwAudit') :
        /\ gwAudit'[i].req \in 1..Len(gwReqs') /\ gwReqs'[gwAudit'[i].req].ran = t
        /\ gwReqs'[gwAudit'[i].req].pc \in {"answer", "pushed", "done"}
        /\ gwReqs'[gwAudit'[i].req].ok = gwAudit'[i].ok
  <2> SUFFICES ASSUME NEW i \in 1..(Len(gwAudit) + 1)
      PROVE  /\ gwAudit'[i].req \in 1..Len(gwReqs') /\ gwReqs'[gwAudit'[i].req].ran = t
             /\ gwReqs'[gwAudit'[i].req].pc \in {"answer", "pushed", "done"}
             /\ gwReqs'[gwAudit'[i].req].ok = gwAudit'[i].ok
    OBVIOUS
  <2>1. CASE i = Len(gwAudit) + 1
    BY <2>1
  <2>2. CASE i # Len(gwAudit) + 1
    <3>1. i \in 1..Len(gwAudit) /\ gwAudit'[i] = gwAudit[i]
      BY <2>2
    <3>2. /\ gwAudit[i].req \in 1..Len(gwReqs) /\ gwReqs[gwAudit[i].req].ran = t
          /\ gwReqs[gwAudit[i].req].pc \in {"answer", "pushed", "done"}
          /\ gwReqs[gwAudit[i].req].ok = gwAudit[i].ok
      BY <3>1 DEF GwEntries
    <3> QED
      BY <1>1, <3>1, <3>2
  <2> QED
    BY <2>1, <2>2
<1>3. \A i, j \in 1..Len(gwAudit') : gwAudit'[i].req = gwAudit'[j].req => i = j
  <2>1. \A i, j \in 1..Len(gwAudit) : gwAudit'[i].req = gwAudit'[j].req => i = j
    BY DEF GwEntries
  <2>2. \A i \in 1..Len(gwAudit) : gwAudit'[i].req # r
    BY <1>1
  <2> QED
    BY <2>1, <2>2
<1>4. \A q \in 1..Len(gwReqs') : gwReqs'[q].ran = t /\ gwReqs'[q].pc # "execute" =>
        \E i \in 1..Len(gwAudit') : gwAudit'[i].req = q
  <2> SUFFICES ASSUME NEW q \in 1..Len(gwReqs), gwReqs'[q].ran = t, gwReqs'[q].pc # "execute"
      PROVE  \E i \in 1..Len(gwAudit') : gwAudit'[i].req = q
    OBVIOUS
  <2>1. CASE q = r
    BY <2>1
  <2>2. CASE q # r
    <3>1. gwReqs[q].ran = t /\ gwReqs[q].pc # "execute"
      BY <2>2
    <3>2. PICK i \in 1..Len(gwAudit) : gwAudit[i].req = q
      BY <3>1 DEF GwEntries
    <3> QED
      BY <3>2
  <2> QED
    BY <2>1, <2>2
<1> QED
  BY <1>2, <1>3, <1>4 DEF GwEntries

(* A new request has no entry and no answer.                                *)
LEMMA GwArrives ==
  ASSUME NEW t, NEW f, t # f,
         Len(gwReqs) \in Nat, Len(gwAudit) \in Nat,
         GwOrder(gwReqs, gwPushed, gwAnswered, gwKind, t, f), GwEntries(gwReqs, gwAudit, t),
         Len(gwReqs') = Len(gwReqs) + 1,
         gwKind' = gwKind,
         \A q \in 1..Len(gwReqs) : /\ gwReqs'[q] = gwReqs[q] /\ gwPushed'[q] = gwPushed[q]
                                   /\ gwAnswered'[q] = gwAnswered[q],
         gwPushed'[Len(gwReqs) + 1] = 0, gwAnswered'[Len(gwReqs) + 1] = 0,
         gwReqs'[Len(gwReqs) + 1].pc = "route",
         gwReqs'[Len(gwReqs) + 1].ran = f
  PROVE  GwOrder(gwReqs', gwPushed', gwAnswered', gwKind', t, f) /\ GwEntries(gwReqs', gwAudit, t)
<1>1. GwOrder(gwReqs', gwPushed', gwAnswered', gwKind', t, f)
  BY DEF GwOrder, GwOnce
<1>2. GwEntries(gwReqs', gwAudit, t)
  <2>1. \A i \in 1..Len(gwAudit) :
          /\ gwAudit[i].req \in 1..Len(gwReqs') /\ gwReqs'[gwAudit[i].req].ran = t
          /\ gwReqs'[gwAudit[i].req].pc \in {"answer", "pushed", "done"}
          /\ gwReqs'[gwAudit[i].req].ok = gwAudit[i].ok
    BY DEF GwEntries
  <2>2. \A i, j \in 1..Len(gwAudit) : gwAudit[i].req = gwAudit[j].req => i = j
    BY DEF GwEntries
  <2>3. \A q \in 1..Len(gwReqs') : gwReqs'[q].ran = t /\ gwReqs'[q].pc # "execute" =>
          \E i \in 1..Len(gwAudit) : gwAudit[i].req = q
    <3> SUFFICES ASSUME NEW q \in 1..Len(gwReqs'), gwReqs'[q].ran = t, gwReqs'[q].pc # "execute"
        PROVE  \E i \in 1..Len(gwAudit) : gwAudit[i].req = q
      OBVIOUS
    <3>1. q \in 1..Len(gwReqs) /\ gwReqs'[q] = gwReqs[q]
      OBVIOUS
    <3> QED
      BY <3>1 DEF GwEntries
  <2> QED
    BY <2>1, <2>2, <2>3 DEF GwEntries
<1> QED
  BY <1>1, <1>2

(* A request that moves on: its record is replaced, the others stay.        *)
LEMMA GwMoves ==
  ASSUME GwShape, NEW r \in Requests, NEW c \in GwCalls, gwReqs' = [gwReqs EXCEPT ![r] = c]
  PROVE  /\ gwReqs' \in Seq(GwCalls) /\ Len(gwReqs') = Len(gwReqs) /\ Len(gwReqs) \in Nat
         /\ r \in 1..Len(gwReqs) /\ gwReqs'[r] = c /\ gwReqs[r] \in GwCalls
         /\ \A q \in 1..Len(gwReqs) : q # r => gwReqs'[q] = gwReqs[q]
  BY DEF GwShape, Requests

(* The steps of a request that add no entry.                                *)
LEMMA GwStep ==
  ASSUME GatewayIInv, NEW r \in Requests, NEW c \in GwCalls,
         gwReqs' = [gwReqs EXCEPT ![r] = c], UNCHANGED gwAudit,
         gwTools' \in Seq({"none", "runs", "ok", "error"}), Len(gwTools') = Len(gwTools),
         gwKind' = gwKind,
         \/ /\ gwReqs[r].pc = "route" /\ UNCHANGED <<gwPushed, gwAnswered>>
            /\ \/ c.pc = "answer" /\ c.ran = gwReqs[r].ran
               \/ c.pc = "execute" /\ c.ran = TRUE
         \/ /\ gwReqs[r].pc = "answer" /\ c.pc = "pushed" /\ gwKind = "sse"
            /\ c.ran = gwReqs[r].ran /\ c.ok = gwReqs[r].ok /\ UNCHANGED gwAnswered
            /\ \E n \in {gwPushed[r], gwPushed[r] + 1} : gwPushed' = [gwPushed EXCEPT ![r] = n]
         \/ /\ gwReqs[r].pc \in {"answer", "pushed"} /\ c.pc = "done"
            /\ c.ran = gwReqs[r].ran /\ c.ok = gwReqs[r].ok /\ UNCHANGED gwPushed
            /\ \E n \in {gwAnswered[r], gwAnswered[r] + 1} :
                  gwAnswered' = [gwAnswered EXCEPT ![r] = n]
  PROVE  GatewayIInv'
<1>1. PICK t, f : t = TRUE /\ f = FALSE /\ t # f /\ BOOLEAN = {t, f}
  BY Truths, Zenon
<1>2. GwShape /\ GwOrder(gwReqs, gwPushed, gwAnswered, gwKind, t, f) /\ GwEntries(gwReqs, gwAudit, t)
  BY <1>1, Zenon DEF GatewayIInv
<1>3. /\ gwReqs' \in Seq(GwCalls) /\ Len(gwReqs') = Len(gwReqs) /\ Len(gwReqs) \in Nat
      /\ r \in 1..Len(gwReqs) /\ gwReqs'[r] = c /\ gwReqs[r] \in GwCalls
      /\ \A q \in 1..Len(gwReqs) : q # r => gwReqs'[q] = gwReqs[q]
  BY <1>2, GwMoves
<1>4. GwOnce(gwKind, gwReqs[r].pc, gwPushed[r], gwAnswered[r])
  BY <1>2, <1>3 DEF GwOrder
<1>5. gwReqs[r].pc = "route" => gwReqs[r].ran = f
  BY <1>2, <1>3 DEF GwOrder
<1>6. /\ gwPushed' \in Seq(Nat) /\ Len(gwPushed') = Len(gwPushed)
      /\ gwAnswered' \in Seq(Nat) /\ Len(gwAnswered') = Len(gwAnswered)
      /\ GwOnce(gwKind, c.pc, gwPushed'[r], gwAnswered'[r])
      /\ \A q \in 1..Len(gwReqs) : q # r => /\ gwPushed'[q] = gwPushed[q]
                                           /\ gwAnswered'[q] = gwAnswered[q]
  <2>1. /\ gwAnswered \in Seq(Nat) /\ Len(gwAnswered) = Len(gwReqs)
        /\ gwPushed \in Seq(Nat) /\ Len(gwPushed) = Len(gwReqs)
    BY <1>2 DEF GwShape
  <2>2. CASE UNCHANGED <<gwPushed, gwAnswered>> /\ gwReqs[r].pc = "route"
    BY <1>4, <2>1, <2>2 DEF GwOnce
  <2>3. CASE /\ gwReqs[r].pc \in {"answer", "pushed"} /\ c.pc = "done" /\ UNCHANGED gwPushed
             /\ \E n \in {gwAnswered[r], gwAnswered[r] + 1} :
                   gwAnswered' = [gwAnswered EXCEPT ![r] = n]
    <3>1. PICK n \in {gwAnswered[r], gwAnswered[r] + 1} :
             gwAnswered' = [gwAnswered EXCEPT ![r] = n]
      BY <2>3
    <3>2. n \in Nat /\ n <= 1
      BY <1>3, <1>4, <2>1, <2>3 DEF GwOnce
    <3> QED
      BY <1>3, <1>4, <2>1, <2>3, <3>1, <3>2 DEF GwOnce
  <2>4. CASE /\ gwReqs[r].pc = "answer" /\ c.pc = "pushed" /\ gwKind = "sse" /\ UNCHANGED gwAnswered
             /\ \E n \in {gwPushed[r], gwPushed[r] + 1} : gwPushed' = [gwPushed EXCEPT ![r] = n]
    <3>1. PICK n \in {gwPushed[r], gwPushed[r] + 1} : gwPushed' = [gwPushed EXCEPT ![r] = n]
      BY <2>4
    <3>2. n \in Nat /\ n <= 1
      BY <1>3, <1>4, <2>1, <2>4 DEF GwOnce
    <3> QED
      BY <1>3, <1>4, <2>1, <2>4, <3>1, <3>2 DEF GwOnce
  <2> QED
    BY <2>2, <2>3, <2>4
<1>7. GwShape'
  BY <1>2, <1>3, <1>6 DEF GwShape
<1>8. c.pc = "execute" => c.ran = t
  BY <1>1, Zenon
<1>9. c.pc # "route"
  OBVIOUS
<1>10. GwOrder(gwReqs', gwPushed', gwAnswered', gwKind', t, f)
  <2>1. /\ \A q \in 1..Len(gwReqs) :
             q # r => /\ gwReqs'[q] = gwReqs[q] /\ gwPushed'[q] = gwPushed[q]
                      /\ gwAnswered'[q] = gwAnswered[q]
        /\ GwOnce(gwKind, gwReqs'[r].pc, gwPushed'[r], gwAnswered'[r])
        /\ gwReqs'[r].pc = "execute" => gwReqs'[r].ran = t
        /\ gwReqs'[r].pc = "route" => gwReqs'[r].ran = f
    BY <1>3, <1>6, <1>8, <1>9
  <2> QED
    BY <1>2, <1>3, <2>1, GwOrderKept
<1>11. \/ /\ gwReqs'[r].ran = gwReqs[r].ran /\ gwReqs'[r].ok = gwReqs[r].ok
          /\ gwReqs[r].pc \in {"answer", "pushed", "done"} /\ gwReqs'[r].pc \in {"answer", "pushed", "done"}
       \/ /\ gwReqs[r].ran # t
          /\ gwReqs'[r].ran = t => gwReqs'[r].pc = "execute"
  BY <1>1, <1>3, <1>5, <1>8
<1>12. Len(gwAudit) \in Nat
  BY <1>2 DEF GwShape
<1>13. GwEntries(gwReqs', gwAudit, t)
  BY <1>2, <1>3, <1>11, <1>12, GwEntriesKept
<1> QED
  BY <1>1, <1>7, <1>10, <1>13, Zenon DEF GatewayIInv

(* The end of Execute.                                                      *)
LEMMA GwRecords ==
  ASSUME GatewayIInv, NEW r \in Requests, NEW ok \in BOOLEAN, gwReqs[r].pc = "execute",
         recordAudit(r, ok), UNCHANGED <<gwKind, gwTools, gwPushed, gwAnswered>>
  PROVE  GatewayIInv'
<1>1. PICK t, f : t = TRUE /\ f = FALSE /\ t # f /\ BOOLEAN = {t, f}
  BY Truths, Zenon
<1>2. GwShape /\ GwOrder(gwReqs, gwPushed, gwAnswered, gwKind, t, f) /\ GwEntries(gwReqs, gwAudit, t)
  BY <1>1, Zenon DEF GatewayIInv
<1>3. PICK c \in GwCalls : /\ c = [gwReqs[r] EXCEPT !.pc = "answer", !.ok = ok]
                           /\ gwReqs' = [gwReqs EXCEPT ![r] = c]
                           /\ c.pc = "answer" /\ c.ok = ok /\ c.ran = gwReqs[r].ran
  <2>1. gwReqs[r] \in GwCalls
    BY <1>2 DEF GwShape, Requests
  <2> DEFINE c == [gwReqs[r] EXCEPT !.pc = "answer", !.ok = ok]
  <2>2. c \in GwCalls /\ c.pc = "answer" /\ c.ok = ok /\ c.ran = gwReqs[r].ran
    BY <2>1 DEF GwCalls, GwPlaces
  <2>3. gwReqs' = [gwReqs EXCEPT ![r] = c]
    BY <1>2, <2>1 DEF recordAudit, GwShape, Requests, GwCalls
  <2> QED
    BY <2>2, <2>3
<1>4. /\ gwReqs' \in Seq(GwCalls) /\ Len(gwReqs') = Len(gwReqs) /\ Len(gwReqs) \in Nat
      /\ r \in 1..Len(gwReqs) /\ gwReqs'[r] = c /\ gwReqs[r] \in GwCalls
      /\ \A q \in 1..Len(gwReqs) : q # r => gwReqs'[q] = gwReqs[q]
  BY <1>2, <1>3, GwMoves
<1>5. GwOnce(gwKind, "answer", gwPushed[r], gwAnswered[r]) /\ gwReqs[r].ran = t
  BY <1>2, <1>4 DEF GwOrder, GwOnce
<1>6. /\ gwAudit' \in Seq([req : Nat, ok : BOOLEAN]) /\ Len(gwAudit') = Len(gwAudit) + 1
      /\ Len(gwAudit) \in Nat
      /\ \A i \in 1..Len(gwAudit) : gwAudit'[i] = gwAudit[i]
      /\ gwAudit'[Len(gwAudit) + 1] = [req |-> r, ok |-> ok]
  <2>1. r \in Nat /\ [req |-> r, ok |-> ok] \in [req : Nat, ok : BOOLEAN]
    BY <1>4
  <2>2. gwAudit \in Seq([req : Nat, ok : BOOLEAN]) /\ gwAudit' = Append(gwAudit, [req |-> r, ok |-> ok])
    BY <1>2 DEF GwShape, recordAudit
  <2> QED
    BY <2>1, <2>2, AppendProperties
<1>7. GwShape'
  BY <1>2, <1>4, <1>6 DEF GwShape
<1>8. GwOrder(gwReqs', gwPushed', gwAnswered', gwKind', t, f)
  <2>1. /\ \A q \in 1..Len(gwReqs) : q # r => /\ gwReqs'[q] = gwReqs[q]
                                             /\ gwPushed'[q] = gwPushed[q]
                                             /\ gwAnswered'[q] = gwAnswered[q]
        /\ GwOnce(gwKind, gwReqs'[r].pc, gwPushed'[r], gwAnswered'[r])
        /\ gwReqs'[r].pc = "execute" => gwReqs'[r].ran = t
        /\ gwReqs'[r].pc = "route" => gwReqs'[r].ran = f
    BY <1>3, <1>4, <1>5
  <2> QED
    BY <1>2, <1>4, <2>1, GwOrderKept
<1>9. GwEntries(gwReqs', gwAudit', t)
  <2>1. /\ gwReqs'[r].pc = "answer" /\ gwReqs'[r].ran = t
        /\ gwAudit'[Len(gwAudit) + 1].req = r /\ gwAudit'[Len(gwAudit) + 1].ok = gwReqs'[r].ok
    BY <1>3, <1>4, <1>5, <1>6
  <2> QED
    BY <1>2, <1>4, <1>6, <2>1, GwEntryAdded
<1> QED
  BY <1>1, <1>7, <1>8, <1>9, Zenon DEF GatewayIInv

(* Steps that touch neither the requests, their answers nor the log.        *)
LEMMA GwQuiet ==
  ASSUME GatewayIInv, UNCHANGED <<gwKind, gwReqs, gwAudit, gwPushed, gwAnswered>>,
         gwTools' \in Seq({"none", "runs", "ok", "error"}), Len(gwTools') = Len(gwTools)
  PROVE  GatewayIInv'
  BY DEF GatewayIInv, GwShape

LEMMA GwRequestArrives ==
  ASSUME GatewayIInv, NEW cl \in GwClients, RequestArrives(cl)
  PROVE  GatewayIInv'
<1>1. PICK t, f : t = TRUE /\ f = FALSE /\ t # f /\ BOOLEAN = {t, f}
  BY Truths, Zenon
<1>2. GwShape /\ GwOrder(gwReqs, gwPushed, gwAnswered, gwKind, t, f) /\ GwEntries(gwReqs, gwAudit, t)
  BY <1>1, Zenon DEF GatewayIInv
<1>3. PICK c : c = [client |-> cl, pc |-> "route", ok |-> f, ran |-> f]
  OBVIOUS
<1>4. /\ gwReqs' = Append(gwReqs, c) /\ gwTools' = Append(gwTools, "none")
      /\ gwPushed' = Append(gwPushed, 0) /\ gwAnswered' = Append(gwAnswered, 0)
      /\ gwAudit' = gwAudit /\ gwKind' = gwKind
  <2>1. c = [client |-> cl, pc |-> "route", ok |-> FALSE, ran |-> FALSE]
    BY <1>1, <1>3, Zenon
  <2>2. gwReqs' = Append(gwReqs, [client |-> cl, pc |-> "route", ok |-> FALSE, ran |-> FALSE])
    BY DEF RequestArrives
  <2> QED
    BY <2>1, <2>2 DEF RequestArrives, connVars
<1>5. c \in GwCalls /\ c.pc = "route" /\ c.ran = f
  BY <1>1, <1>3 DEF GwCalls, GwPlaces
<1>6. /\ gwReqs \in Seq(GwCalls) /\ gwAudit \in Seq([req : Nat, ok : BOOLEAN])
      /\ gwTools \in Seq({"none", "runs", "ok", "error"}) /\ Len(gwTools) = Len(gwReqs)
      /\ gwPushed \in Seq(Nat) /\ Len(gwPushed) = Len(gwReqs)
      /\ gwAnswered \in Seq(Nat) /\ Len(gwAnswered) = Len(gwReqs)
      /\ Len(gwReqs) \in Nat /\ Len(gwAudit) \in Nat
  BY <1>2 DEF GwShape
<1>7. /\ gwReqs' \in Seq(GwCalls) /\ Len(gwReqs') = Len(gwReqs) + 1
      /\ \A q \in 1..Len(gwReqs) : gwReqs'[q] = gwReqs[q]
      /\ gwReqs'[Len(gwReqs) + 1] = c
  BY <1>4, <1>5, <1>6, AppendProperties
<1>14. /\ gwPushed' \in Seq(Nat) /\ Len(gwPushed') = Len(gwReqs) + 1
       /\ \A q \in 1..Len(gwReqs) : gwPushed'[q] = gwPushed[q]
       /\ gwPushed'[Len(gwReqs) + 1] = 0
  BY <1>4, <1>6, AppendProperties
<1>8. /\ gwAnswered' \in Seq(Nat) /\ Len(gwAnswered') = Len(gwReqs) + 1
      /\ \A q \in 1..Len(gwReqs) : gwAnswered'[q] = gwAnswered[q]
      /\ gwAnswered'[Len(gwReqs) + 1] = 0
  BY <1>4, <1>6, AppendProperties
<1>9. gwTools' \in Seq({"none", "runs", "ok", "error"}) /\ Len(gwTools') = Len(gwReqs) + 1
  BY <1>4, <1>6, AppendProperties
<1>10. GwShape'
  BY <1>4, <1>6, <1>7, <1>8, <1>9, <1>14 DEF GwShape
<1>11. gwReqs'[Len(gwReqs) + 1].pc = "route" /\ gwReqs'[Len(gwReqs) + 1].ran = f
  BY <1>5, <1>7
<1>12. GwOrder(gwReqs', gwPushed', gwAnswered', gwKind', t, f) /\ GwEntries(gwReqs', gwAudit, t)
  BY <1>1, <1>2, <1>4, <1>6, <1>7, <1>8, <1>11, <1>14, GwArrives
<1>13. GwOrder(gwReqs', gwPushed', gwAnswered', gwKind', t, f) /\ GwEntries(gwReqs', gwAudit', t)
  BY <1>4, <1>12
<1> QED
  BY <1>1, <1>10, <1>13, Zenon DEF GatewayIInv

LEMMA GwRequestMoves ==
  ASSUME GatewayIInv, NEW r \in Requests,
         \/ routeRequest(r) \/ handleToolsCallRefuses(r) \/ ExecuteStarts(r)
         \/ Push(r) \/ Answer(r)
  PROVE  GatewayIInv'
<1>1. PICK t, f : t = TRUE /\ f = FALSE /\ t # f /\ BOOLEAN = {t, f}
  BY Truths, Zenon
<1>2. /\ gwReqs \in Seq(GwCalls) /\ r \in DOMAIN gwReqs /\ gwReqs[r] \in GwCalls
      /\ gwTools \in Seq({"none", "runs", "ok", "error"}) /\ r \in DOMAIN gwTools
      /\ gwAnswered \in Seq(Nat) /\ r \in DOMAIN gwAnswered
      /\ gwPushed \in Seq(Nat) /\ r \in DOMAIN gwPushed
  BY DEF GatewayIInv, GwShape, Requests
<1>3. CASE routeRequest(r) \/ handleToolsCallRefuses(r)
  <2>1. PICK ok \in BOOLEAN : gwReqs' = [gwReqs EXCEPT ![r].pc = "answer", ![r].ok = ok]
    <3>1. CASE routeRequest(r)
      BY <3>1, Zenon DEF routeRequest
    <3>2. CASE handleToolsCallRefuses(r)
      BY <3>2, Zenon DEF handleToolsCallRefuses
    <3> QED
      BY <1>3, <3>1, <3>2
  <2> DEFINE c == [gwReqs[r] EXCEPT !.pc = "answer", !.ok = ok]
  <2>2. c \in GwCalls /\ c.pc = "answer" /\ c.ran = gwReqs[r].ran
    BY <1>2 DEF GwCalls, GwPlaces
  <2>3. gwReqs' = [gwReqs EXCEPT ![r] = c]
    BY <1>2, <2>1 DEF GwCalls
  <2>4. gwReqs[r].pc = "route" /\ UNCHANGED <<gwKind, gwAudit, gwPushed, gwAnswered, gwTools>>
    BY <1>3 DEF routeRequest, handleToolsCallRefuses, connVars
  <2> HIDE DEF c
  <2> QED
    BY <1>2, <2>2, <2>3, <2>4, GwStep
<1>4. CASE ExecuteStarts(r)
  <2>1. gwReqs' = [gwReqs EXCEPT ![r].pc = "execute", ![r].ran = t]
    BY <1>1, <1>4, Zenon DEF ExecuteStarts
  <2> DEFINE c == [gwReqs[r] EXCEPT !.pc = "execute", !.ran = t]
  <2>2. c \in GwCalls /\ c.pc = "execute" /\ c.ran = t
    BY <1>1, <1>2 DEF GwCalls, GwPlaces
  <2>3. gwReqs' = [gwReqs EXCEPT ![r] = c]
    BY <1>2, <2>1 DEF GwCalls
  <2>4. gwReqs[r].pc = "route" /\ UNCHANGED <<gwKind, gwAudit, gwPushed, gwAnswered>>
    BY <1>4 DEF ExecuteStarts, connVars
  <2>5. gwTools' \in Seq({"none", "runs", "ok", "error"}) /\ Len(gwTools') = Len(gwTools)
    <3>1. CASE gwTools' = gwTools
      BY <1>2, <3>1
    <3>2. CASE gwTools' = [gwTools EXCEPT ![r] = "runs"]
      BY <1>2, <3>2
    <3> QED
      BY <1>4, <3>1, <3>2 DEF ExecuteStarts
  <2> HIDE DEF c
  <2>6. c.pc = "execute" /\ c.ran = TRUE
    BY <1>1, <2>2, Zenon
  <2> QED
    BY <2>2, <2>3, <2>4, <2>5, <2>6, GwStep
<1>5. CASE Answer(r)
  <2> DEFINE c == [gwReqs[r] EXCEPT !.pc = "done"]
  <2>1. c \in GwCalls /\ c.pc = "done" /\ c.ran = gwReqs[r].ran /\ c.ok = gwReqs[r].ok
    BY <1>2 DEF GwCalls, GwPlaces
  <2>2. gwReqs' = [gwReqs EXCEPT ![r] = c]
    BY <1>2, <1>5 DEF Answer, GwCalls
  <2>3. gwReqs[r].pc \in {"answer", "pushed"} /\ UNCHANGED <<gwKind, gwAudit, gwTools, gwPushed>>
    BY <1>5 DEF Answer, connVars
  <2>4. \E n \in {gwAnswered[r], gwAnswered[r] + 1} : gwAnswered' = [gwAnswered EXCEPT ![r] = n]
    BY <1>2, <1>5 DEF Answer
  <2> HIDE DEF c
  <2> QED
    BY <1>2, <2>1, <2>2, <2>3, <2>4, GwStep
<1>6. CASE Push(r)
  <2> DEFINE c == [gwReqs[r] EXCEPT !.pc = "pushed"]
  <2>1. c \in GwCalls /\ c.pc = "pushed" /\ c.ran = gwReqs[r].ran /\ c.ok = gwReqs[r].ok
    BY <1>2 DEF GwCalls, GwPlaces
  <2>2. gwReqs' = [gwReqs EXCEPT ![r] = c]
    BY <1>2, <1>6 DEF Push, GwCalls
  <2>3. /\ gwReqs[r].pc = "answer" /\ gwKind = "sse"
        /\ UNCHANGED <<gwKind, gwAudit, gwTools, gwAnswered>>
    BY <1>6 DEF Push
  <2>4. \E n \in {gwPushed[r], gwPushed[r] + 1} : gwPushed' = [gwPushed EXCEPT ![r] = n]
    BY <1>2, <1>6 DEF Push
  <2> HIDE DEF c
  <2> QED
    BY <1>2, <2>1, <2>2, <2>3, <2>4, GwStep
<1> QED
  BY <1>3, <1>4, <1>5, <1>6

LEMMA GwExecuteEnds ==
  ASSUME GatewayIInv, NEW r \in Requests, ExecuteGivesUp(r) \/ ExecuteReturns(r)
  PROVE  GatewayIInv'
<1>1. PICK ok \in BOOLEAN : recordAudit(r, ok)
  <2>1. CASE ExecuteGivesUp(r)
    BY <2>1, Zenon DEF ExecuteGivesUp
  <2>2. CASE ExecuteReturns(r)
    <3>1. recordAudit(r, gwTools[r] = "ok")
      BY <2>2 DEF ExecuteReturns
    <3>2. (gwTools[r] = "ok") \in BOOLEAN
      BY Zenon
    <3> QED
      BY <3>1, <3>2, Zenon
  <2> QED
    BY <2>1, <2>2
<1>2. gwReqs[r].pc = "execute" /\ UNCHANGED <<gwKind, gwTools, gwPushed, gwAnswered>>
  BY DEF ExecuteGivesUp, ExecuteReturns, connVars
<1> QED
  BY <1>1, <1>2, GwRecords

LEMMA GwToolReturns ==
  ASSUME GatewayIInv, NEW r \in Requests, ToolReturns(r)
  PROVE  GatewayIInv'
<1>1. gwTools' \in Seq({"none", "runs", "ok", "error"}) /\ Len(gwTools') = Len(gwTools)
  BY DEF GatewayIInv, GwShape, Requests, ToolReturns
<1> QED
  BY <1>1, GwQuiet DEF ToolReturns, connVars

(* The steps of the server and of the connections.                          *)
LEMMA GwConnections ==
  ASSUME GatewayIInv,
         \/ GatewayStart \/ SSEStop \/ WSStop \/ StdioStop \/ StopShutsDown
         \/ \E cl \in GwClients : Connects(cl) \/ Disconnects(cl) \/ StreamWrites(cl)
  PROVE  GatewayIInv'
<1>1. UNCHANGED <<gwKind, gwReqs, gwTools, gwAudit, gwPushed, gwAnswered>>
  BY DEF GatewayStart, SSEStop, WSStop, StdioStop, StopClosesClients, StopShutsDown, Connects,
         Disconnects, StreamWrites
<1> QED
  BY <1>1, GwQuiet DEF GatewayIInv, GwShape

LEMMA GwEntriesGive ==
  ASSUME GatewayIInv
  PROVE  AuditedOnce
<1>1. PICK t, f : t = TRUE /\ f = FALSE /\ t # f /\ BOOLEAN = {t, f}
  BY Truths, Zenon
<1>2. GwShape /\ GwOrder(gwReqs, gwPushed, gwAnswered, gwKind, t, f) /\ GwEntries(gwReqs, gwAudit, t)
  BY <1>1, Zenon DEF GatewayIInv
<1> SUFFICES ASSUME NEW r \in 1..Len(gwReqs)
    PROVE  LET entries == {i \in 1..Len(gwAudit) : gwAudit[i].req = r} IN
           /\ gwAnswered[r] <= 1 /\ gwPushed[r] <= IF gwKind = "sse" THEN 1 ELSE 0
           /\ gwPushed[r] + gwAnswered[r] > 0 => gwReqs[r].pc \in {"pushed", "done"}
           /\ Cardinality(entries) = IF gwReqs[r].ran /\ gwReqs[r].pc # "execute"
                                      THEN 1 ELSE 0
           /\ \A i \in entries : gwAudit[i].ok = gwReqs[r].ok
  BY DEF AuditedOnce, Requests
<1> DEFINE entries == {i \in 1..Len(gwAudit) : gwAudit[i].req = r}
<1>3. /\ gwAnswered[r] <= 1 /\ gwPushed[r] <= IF gwKind = "sse" THEN 1 ELSE 0
      /\ gwPushed[r] + gwAnswered[r] > 0 => gwReqs[r].pc \in {"pushed", "done"}
  <2>1. GwOnce(gwKind, gwReqs[r].pc, gwPushed[r], gwAnswered[r])
    BY <1>2 DEF GwOrder
  <2> QED
    BY <2>1 DEF GwOnce
<1>4. \A i \in entries : gwAudit[i].ok = gwReqs[r].ok
  BY <1>2 DEF GwEntries
<1>5. gwReqs[r].ran \in BOOLEAN
  <2>1. gwReqs[r] \in GwCalls
    BY <1>2 DEF GwShape
  <2>2. gwReqs[r].ran \in {t, f}
    BY <1>1, <2>1 DEF GwCalls
  <2> QED
    BY <1>1, <2>2, Zenon
<1>6. CASE gwReqs[r].ran = t /\ gwReqs[r].pc # "execute"
  <2>1. PICK i \in 1..Len(gwAudit) : gwAudit[i].req = r
    BY <1>2, <1>6 DEF GwEntries
  <2>2. entries = {i}
    BY <1>2, <2>1 DEF GwEntries
  <2>3. Cardinality(entries) = 1
    BY <2>2, FS_Singleton
  <2>4. gwReqs[r].ran /\ gwReqs[r].pc # "execute"
    BY <1>1, <1>6, Zenon
  <2> QED
    BY <1>3, <1>4, <2>3, <2>4, Zenon
<1>7. CASE ~(gwReqs[r].ran = t /\ gwReqs[r].pc # "execute")
  <2>1. entries = {}
    BY <1>2, <1>7 DEF GwEntries
  <2>2. Cardinality(entries) = 0
    BY <2>1, FS_EmptySet
  <2>3. ~(gwReqs[r].ran /\ gwReqs[r].pc # "execute")
    BY <1>1, <1>5, <1>7, Zenon
  <2> QED
    BY <1>3, <1>4, <2>2, <2>3, Zenon
<1> QED
  BY <1>6, <1>7

(* The invariant of the gateway is inductive.                               *)
LEMMA GatewayInductive == GatewaySpec => []GatewayIInv
<1>1. GatewayInit => GatewayIInv
  <2>1. GatewayInit => GwShape
    BY EmptySeq DEF GatewayInit, GwShape
  <2>2. GatewayInit => GwOrder(gwReqs, gwPushed, gwAnswered, gwKind, TRUE, FALSE)
    BY DEF GatewayInit, GwOrder
  <2>3. GatewayInit => GwEntries(gwReqs, gwAudit, TRUE)
    BY DEF GatewayInit, GwEntries
  <2> QED
    BY <2>1, <2>2, <2>3 DEF GatewayIInv
<1>2. GatewayIInv /\ [GatewayNext]_gwVars => GatewayIInv'
  <2> SUFFICES ASSUME GatewayIInv, [GatewayNext]_gwVars PROVE GatewayIInv'
    OBVIOUS
  <2>1. CASE UNCHANGED gwVars
    BY <2>1, GwQuiet DEF gwVars, GatewayIInv, GwShape
  <2>2. CASE GatewayNext
    BY <2>2, GwConnections, GwRequestArrives, GwRequestMoves, GwExecuteEnds, GwToolReturns
       DEF GatewayNext
  <2> QED
    BY <2>1, <2>2
<1> QED
  BY <1>1, <1>2, PTL DEF GatewaySpec

(* Whatever of the tool, the deadline, the client and Stop comes first, for *)
(* any number of clients and requests and over each transport, a tool call  *)
(* has one entry in the audit log of mcp/security/sandbox.go, agreeing with *)
(* its response and written before any copy of it goes out: one at most as  *)
(* the answer of the request, and over SSE one more on the client's stream. *)
THEOREM GatewayAudits == GatewaySpec => []AuditedOnce
  BY GatewayInductive, GwEntriesGive, PTL

-----------------------------------------------------------------------------
(* The bounds of the gateway's state.                                       *)

GwBounded ==
    /\ gwKind \in GwTransports /\ gwState \in {"new", "runs", "stopping", "stopped"}
    /\ gwMap \subseteq GwClients /\ gwOpen \subseteq GwClients
    /\ gwQueue \in [GwClients -> 0..GwEvents]
    /\ Len(gwReqs) <= GwMaxRequests

(* Every step keeps them.                                                   *)
LEMMA GatewayBoundedStep ==
  ASSUME GatewayIInv, GwBounded, [GatewayNext]_gwVars
  PROVE  GwBounded'
<1>1. /\ gwKind \in GwTransports /\ gwState \in {"new", "runs", "stopping", "stopped"}
      /\ gwMap \subseteq GwClients /\ gwOpen \subseteq GwClients
      /\ gwQueue \in [GwClients -> 0..GwEvents] /\ Len(gwReqs) <= GwMaxRequests
      /\ gwReqs \in Seq(GwCalls) /\ Len(gwReqs) \in Nat
  BY DEF GatewayIInv, GwShape, GwBounded
<1>2. CASE UNCHANGED gwVars
  BY <1>1, <1>2 DEF gwVars, GwBounded
<1>3. CASE GatewayStart \/ SSEStop \/ WSStop \/ StdioStop \/ StopShutsDown
  <2>1. /\ gwState' \in {"runs", "stopping", "stopped"} /\ gwMap' \subseteq gwMap
        /\ gwOpen' \subseteq gwOpen /\ UNCHANGED <<gwKind, gwQueue, gwReqs>>
    BY <1>3 DEF GatewayStart, SSEStop, WSStop, StdioStop, StopClosesClients, StopShutsDown
  <2> QED
    BY <1>1, <2>1 DEF GwBounded
<1>4. ASSUME NEW c \in GwClients, Connects(c) \/ Disconnects(c) \/ StreamWrites(c)
      PROVE  GwBounded'
  <2>1. /\ gwMap' \subseteq gwMap \union {c} /\ gwOpen' \subseteq gwOpen \union {c}
        /\ UNCHANGED <<gwKind, gwState, gwReqs>>
    BY <1>4 DEF Connects, Disconnects, StreamWrites
  <2>2. gwQueue' \in [GwClients -> 0..GwEvents]
    <3>1. CASE Connects(c)
      BY <1>1, <3>1, GatewayAssumption DEF Connects
    <3>2. CASE Disconnects(c)
      BY <1>1, <3>2 DEF Disconnects
    <3>3. CASE StreamWrites(c)
      <4>1. PICK n : n = gwQueue[c]
        OBVIOUS
      <4>2. n - 1 \in 0..GwEvents
        BY <1>1, <3>3, <4>1, GatewayAssumption DEF StreamWrites
      <4>3. gwQueue' = [gwQueue EXCEPT ![c] = n - 1]
        BY <3>3, <4>1 DEF StreamWrites
      <4> QED
        BY <1>1, <4>2, <4>3
    <3> QED
      BY <1>4, <3>1, <3>2, <3>3
  <2> QED
    BY <1>1, <2>1, <2>2 DEF GwBounded
<1>5. ASSUME NEW c \in GwClients, RequestArrives(c) PROVE GwBounded'
  <2>1. PICK e : gwReqs' = Append(gwReqs, e)
    BY <1>5 DEF RequestArrives
  <2>2. Len(gwReqs) < GwMaxRequests /\ UNCHANGED <<gwKind, gwState, gwMap, gwOpen, gwQueue>>
    BY <1>5 DEF RequestArrives, connVars
  <2>3. Len(gwReqs') = Len(gwReqs) + 1
    BY <1>1, <2>1
  <2>4. Len(gwReqs') <= GwMaxRequests
    BY <1>1, <2>2, <2>3, GatewayAssumption
  <2> QED
    BY <1>1, <2>2, <2>4 DEF GwBounded
<1>6. ASSUME NEW r \in Requests,
             \/ routeRequest(r) \/ handleToolsCallRefuses(r) \/ ExecuteStarts(r)
             \/ ToolReturns(r) \/ ExecuteGivesUp(r) \/ ExecuteReturns(r)
             \/ Push(r) \/ Answer(r)
      PROVE  GwBounded'
  <2>1. /\ UNCHANGED <<gwKind, gwState, gwMap, gwOpen>>
        /\ gwQueue' = gwQueue \/ \E c \in GwClients : /\ gwQueue[c] < GwEvents
                                                     /\ gwQueue' = [gwQueue EXCEPT ![c] = @ + 1]
    <3>1. CASE Push(r)
      <4>1. PICK c : c = gwReqs[r].client
        OBVIOUS
      <4>2. /\ gwQueue' = IF gwKind = "sse" /\ c \in gwMap /\ gwQueue[c] < GwEvents
                          THEN [gwQueue EXCEPT ![c] = @ + 1] ELSE gwQueue
            /\ UNCHANGED <<gwKind, gwState, gwMap, gwOpen>>
        BY <3>1, <4>1 DEF Push
      <4> QED
        BY <1>1, <4>2
    <3>2. CASE ~Push(r)
      BY <1>6, <3>2 DEF routeRequest, handleToolsCallRefuses, ExecuteStarts, ToolReturns,
                        ExecuteGivesUp, ExecuteReturns, Answer, connVars
    <3> QED
      BY <3>1, <3>2
  <2>2. Len(gwReqs') = Len(gwReqs)
    <3>1. gwReqs' = gwReqs \/ \E e : gwReqs' = [gwReqs EXCEPT ![r] = e]
      <4>1. \A u, v : [gwReqs EXCEPT ![r].pc = u, ![r].ok = v]
                         = [gwReqs EXCEPT ![r] = [[gwReqs[r] EXCEPT !.pc = u] EXCEPT !.ok = v]]
        BY <1>1 DEF Requests
      <4>2. \A u, v : [gwReqs EXCEPT ![r].pc = u, ![r].ran = v]
                         = [gwReqs EXCEPT ![r] = [[gwReqs[r] EXCEPT !.pc = u] EXCEPT !.ran = v]]
        BY <1>1 DEF Requests
      <4>3. \A u : [gwReqs EXCEPT ![r].pc = u] = [gwReqs EXCEPT ![r] = [gwReqs[r] EXCEPT !.pc = u]]
        OBVIOUS
      <4>4. \/ gwReqs' = gwReqs \/ \E u, v : gwReqs' = [gwReqs EXCEPT ![r].pc = u, ![r].ok = v]
            \/ \E u, v : gwReqs' = [gwReqs EXCEPT ![r].pc = u, ![r].ran = v]
            \/ \E u : gwReqs' = [gwReqs EXCEPT ![r].pc = u]
        BY <1>6, Zenon DEF routeRequest, handleToolsCallRefuses, ExecuteStarts, ToolReturns,
                    ExecuteGivesUp, ExecuteReturns, recordAudit, Push, Answer
      <4> QED
        BY <4>1, <4>2, <4>3, <4>4, Zenon
    <3> QED
      BY <1>1, <3>1
  <2>3. gwQueue' \in [GwClients -> 0..GwEvents]
    <3>1. ASSUME NEW c \in GwClients, gwQueue[c] < GwEvents, gwQueue' = [gwQueue EXCEPT ![c] = @ + 1]
          PROVE  gwQueue' \in [GwClients -> 0..GwEvents]
      <4>1. PICK n : n = gwQueue[c]
        OBVIOUS
      <4>2. n + 1 \in 0..GwEvents
        BY <1>1, <3>1, <4>1, GatewayAssumption
      <4>3. gwQueue' = [gwQueue EXCEPT ![c] = n + 1]
        BY <3>1, <4>1
      <4> QED
        BY <1>1, <4>2, <4>3
    <3> QED
      BY <1>1, <2>1, <3>1
  <2> QED
    BY <1>1, <2>1, <2>2, <2>3 DEF GwBounded
<1> QED
  BY <1>2, <1>3, <1>4, <1>5, <1>6 DEF GatewayNext

(* The gateway keeps its types: its connections are of clients, and no      *)
(* stream has more events waiting than its queue holds.                     *)
LEMMA GatewayTypes == GatewaySpec => []GatewayTypeOK
<1>1. GatewayInit => GwBounded
  <2> SUFFICES ASSUME GatewayInit PROVE GwBounded
    OBVIOUS
  <2>1. gwQueue \in [GwClients -> 0..GwEvents]
    BY GatewayAssumption DEF GatewayInit
  <2>2. Len(gwReqs) <= GwMaxRequests
    BY EmptySeq, GatewayAssumption DEF GatewayInit
  <2> QED
    BY <2>1, <2>2 DEF GatewayInit, GwBounded
<1>2. GatewayIInv /\ GwBounded /\ [GatewayNext]_gwVars => GwBounded'
  BY GatewayBoundedStep
<1>3. GatewayIInv /\ GwBounded => GatewayTypeOK
  BY DEF GatewayIInv, GwShape, GwBounded, GatewayTypeOK
<1> QED
  BY <1>1, <1>2, <1>3, GatewayInductive, PTL DEF GatewaySpec

-----------------------------------------------------------------------------
(* The OAuth flows.                                                         *)

(* The states whose flow is pending, and who exchanges the code of which.   *)
EmbPending == {s \in 1..embStarted : embFlows[s].pending}
Exchanges(p, s) == embProcs[p].pc = "exchange" /\ embProcs[p].id = s

EmbFlowRecs == [pending : BOOLEAN, created : Int]

EmbShape ==
    /\ embStarted \in Nat /\ embNow \in Int
    /\ embGrants = [codes |-> embGrants.codes, refresh |-> embGrants.refresh]
    /\ embGrants.codes \in Seq(Nat) /\ Len(embGrants.codes) = embStarted
    /\ embFlows \in Seq(EmbFlowRecs) /\ Len(embFlows) = embStarted
    /\ embProcs = [p \in EmbProcs |-> embProcs[p]]

(* A code is with a pending flow, with one callback, or exchanged: never in *)
(* two of these places.                                                     *)
EmbOnce ==
    /\ \A s \in 1..embStarted : embGrants.codes[s] \in {0, 1}
    /\ \A s \in EmbPending : embGrants.codes[s] = 0 /\ \A p \in EmbProcs : ~Exchanges(p, s)
    /\ \A p \in EmbProcs : embProcs[p].pc = "exchange" =>
          embProcs[p].id \in 1..embStarted /\ embGrants.codes[embProcs[p].id] = 0
    /\ \A p, q \in EmbProcs : embProcs[p].pc = "exchange" /\ embProcs[q].pc = "exchange" =>
          (embProcs[p].id = embProcs[q].id => p = q)

EmbeddedIInv == EmbShape /\ EmbOnce

(* Steps that exchange no code and begin no callback; flows may end.        *)
LEMMA EmbQuiet ==
  ASSUME EmbeddedIInv, EmbShape', EmbPending' \subseteq EmbPending,
         UNCHANGED embStarted, embGrants'.codes = embGrants.codes,
         \A p \in EmbProcs : embProcs'[p].pc = "exchange" => embProcs'[p] = embProcs[p]
  PROVE  EmbeddedIInv'
<1>1. \A s \in 1..embStarted' : embGrants'.codes[s] \in {0, 1}
  BY DEF EmbeddedIInv, EmbOnce
<1>2. \A s \in EmbPending' : embGrants'.codes[s] = 0 /\ \A p \in EmbProcs : ~Exchanges(p, s)'
  BY DEF EmbeddedIInv, EmbOnce, Exchanges
<1>3. \A p \in EmbProcs : embProcs'[p].pc = "exchange" =>
         embProcs'[p].id \in 1..embStarted' /\ embGrants'.codes[embProcs'[p].id] = 0
  BY DEF EmbeddedIInv, EmbOnce
<1>4. \A p, q \in EmbProcs : embProcs'[p].pc = "exchange" /\ embProcs'[q].pc = "exchange" =>
         (embProcs'[p].id = embProcs'[q].id => p = q)
  BY DEF EmbeddedIInv, EmbOnce
<1>5. EmbOnce'
  BY <1>1, <1>2, <1>3, <1>4 DEF EmbOnce
<1> QED
  BY <1>5 DEF EmbeddedIInv

(* Steps that move only goroutines, not into a callback, and perhaps rows,  *)
(* tokens or refresh grants.                                                *)
LEMMA EmbMoves ==
  ASSUME EmbeddedIInv, UNCHANGED <<embFlows, embStarted, embNow>>,
         embGrants' = [codes |-> embGrants'.codes, refresh |-> embGrants'.refresh],
         embGrants'.codes = embGrants.codes,
         \/ UNCHANGED embProcs
         \/ \E p \in EmbProcs : \E m : m.pc # "exchange" /\ embProcs' = [embProcs EXCEPT ![p] = m]
  PROVE  EmbeddedIInv'
<1>1. /\ \A p \in EmbProcs : embProcs'[p].pc = "exchange" => embProcs'[p] = embProcs[p]
      /\ embProcs' = [p \in EmbProcs |-> embProcs'[p]]
  <2>1. CASE UNCHANGED embProcs
    BY <2>1 DEF EmbeddedIInv, EmbShape
  <2>2. ASSUME NEW p \in EmbProcs, NEW m, m.pc # "exchange",
               embProcs' = [embProcs EXCEPT ![p] = m]
        PROVE  /\ \A q \in EmbProcs : embProcs'[q].pc = "exchange" => embProcs'[q] = embProcs[q]
               /\ embProcs' = [q \in EmbProcs |-> embProcs'[q]]
    BY <2>2 DEF EmbeddedIInv, EmbShape
  <2> QED
    BY <2>1, <2>2
<1>2. EmbShape'
  BY <1>1 DEF EmbeddedIInv, EmbShape
<1>3. EmbPending' \subseteq EmbPending
  BY DEF EmbPending
<1> QED
  BY <1>1, <1>2, <1>3, EmbQuiet

LEMMA EmbGets ==
  ASSUME EmbeddedIInv, NEW p \in EmbProcs, NEW id, NEW row, NEW b, Gets(p, id, row, b)
  PROVE  EmbeddedIInv'
<1>1. embProcs' = [embProcs EXCEPT ![p] = [pc |-> "update", id |-> id, got |-> row]]
  BY DEF Gets, Moves
<1>2. UNCHANGED <<embFlows, embStarted, embNow, embGrants>>
  BY DEF Gets, oauthVars
<1>3. [pc |-> "update", id |-> id, got |-> row].pc # "exchange"
  OBVIOUS
<1> QED
  BY <1>1, <1>2, <1>3, EmbMoves DEF EmbeddedIInv, EmbShape

LEMMA EmbEnds ==
  ASSUME EmbeddedIInv, NEW p \in EmbProcs, Ends(p), UNCHANGED <<embFlows, embStarted, embNow>>,
         embGrants' = [codes |-> embGrants'.codes, refresh |-> embGrants'.refresh],
         embGrants'.codes = embGrants.codes
  PROVE  EmbeddedIInv'
<1>1. embProcs' = [embProcs EXCEPT ![p] = EmbIdle] /\ EmbIdle.pc # "exchange"
  BY DEF Ends, EmbIdle
<1> QED
  BY <1>1, EmbMoves

LEMMA EmbLifecycle ==
  ASSUME EmbeddedIInv,
         \/ CreateIntegration \/ EmbTick
         \/ \E id \in 1..Len(embRows) : InMemoryDelete(id)
         \/ \E p \in EmbProcs :
              \/ InMemoryUpdate(p) \/ StoreTokens(p) \/ RefreshedTokens(p)
              \/ \E id \in 1..Len(embRows) :
                   \/ EnableIntegration(p, id) \/ DisableIntegration(p, id)
                   \/ UpdateConfig(p, id) \/ RecordSync(p, id) \/ SetError(p, id)
  PROVE  EmbeddedIInv'
<1>1. CASE CreateIntegration \/ \E id \in 1..Len(embRows) : InMemoryDelete(id)
  <2>1. UNCHANGED <<embFlows, embStarted, embNow, embGrants, embProcs>>
    BY <1>1 DEF CreateIntegration, InMemoryDelete, oauthVars
  <2> QED
    BY <2>1, EmbMoves DEF EmbeddedIInv, EmbShape
<1>2. CASE EmbTick
  <2>1. UNCHANGED <<embFlows, embStarted, embGrants, embProcs>> /\ embNow' \in Int
    BY <1>2 DEF EmbTick, oauthVars, EmbeddedIInv, EmbShape
  <2>2. EmbShape'
    BY <2>1 DEF EmbeddedIInv, EmbShape
  <2>3. EmbPending' \subseteq EmbPending
    BY <2>1 DEF EmbPending
  <2> QED
    BY <2>1, <2>2, <2>3, EmbQuiet
<1>3. ASSUME NEW p \in EmbProcs, InMemoryUpdate(p) \/ StoreTokens(p) \/ RefreshedTokens(p)
      PROVE  EmbeddedIInv'
  <2>1. Ends(p) /\ UNCHANGED <<embFlows, embStarted, embNow, embGrants>>
    BY <1>3 DEF InMemoryUpdate, StoreTokens, RefreshedTokens, oauthVars
  <2> QED
    BY <2>1, EmbEnds DEF EmbeddedIInv, EmbShape
<1>4. ASSUME NEW p \in EmbProcs, NEW id \in 1..Len(embRows),
             \/ EnableIntegration(p, id) \/ DisableIntegration(p, id)
             \/ UpdateConfig(p, id) \/ RecordSync(p, id) \/ SetError(p, id)
      PROVE  EmbeddedIInv'
  <2>1. CASE EnableIntegration(p, id)
    BY <2>1, EmbGets, Zenon DEF EnableIntegration
  <2>2. CASE DisableIntegration(p, id)
    BY <2>2, EmbGets, Zenon DEF DisableIntegration
  <2>3. CASE UpdateConfig(p, id)
    <3>1. PICK c \in 1..2 : Gets(p, id, [embRows[id] EXCEPT !.config = c], TRUE)
      BY <2>3, Zenon DEF UpdateConfig
    <3> QED
      BY <3>1, EmbGets, Zenon
  <2>4. CASE RecordSync(p, id)
    BY <2>4, EmbGets, Zenon DEF RecordSync
  <2>5. CASE SetError(p, id)
    BY <2>5, EmbGets, Zenon DEF SetError
  <2> QED
    BY <1>4, <2>1, <2>2, <2>3, <2>4, <2>5
<1> QED
  BY <1>1, <1>2, <1>3, <1>4

LEMMA EmbRefreshes ==
  ASSUME EmbeddedIInv, NEW p \in EmbProcs,
         doRefresh(p) \/ \E s \in 1..embStarted : RefreshToken(p, s)
  PROVE  EmbeddedIInv'
<1>1. CASE \E s \in 1..embStarted : RefreshToken(p, s)
  <2>1. PICK s \in 1..embStarted : RefreshToken(p, s)
    BY <1>1
  <2> DEFINE m == [pc |-> "refresh", id |-> s, got |-> <<embTokens[s].refresh>>]
  <2>2. embProcs' = [embProcs EXCEPT ![p] = m] /\ UNCHANGED <<embFlows, embStarted, embNow, embGrants>>
    BY <2>1 DEF RefreshToken, Moves, oauthVars
  <2>3. m.pc # "exchange"
    OBVIOUS
  <2> HIDE DEF m
  <2> QED
    BY <2>2, <2>3, EmbMoves DEF EmbeddedIInv, EmbShape
<1>2. CASE doRefresh(p)
  <2>1. UNCHANGED <<embFlows, embStarted, embNow>>
    BY <1>2 DEF doRefresh
  <2>2. \E m : m.pc # "exchange" /\ embProcs' = [embProcs EXCEPT ![p] = m]
    <3>1. CASE Ends(p)
      <4>1. EmbIdle.pc # "exchange"
        BY DEF EmbIdle
      <4> QED
        BY <3>1, <4>1 DEF Ends
    <3>2. \A id, got : Moves(p, "keep", id, got) =>
            \E m : m.pc # "exchange" /\ embProcs' = [embProcs EXCEPT ![p] = m]
      <4> SUFFICES ASSUME NEW id, NEW got, Moves(p, "keep", id, got)
          PROVE  \E m : m.pc # "exchange" /\ embProcs' = [embProcs EXCEPT ![p] = m]
        OBVIOUS
      <4> WITNESS [pc |-> "keep", id |-> id, got |-> got]
      <4> QED
        BY DEF Moves
    <3> QED
      BY <1>2, <3>1, <3>2 DEF doRefresh
  <2>3. /\ embGrants' = [codes |-> embGrants'.codes, refresh |-> embGrants'.refresh]
        /\ embGrants'.codes = embGrants.codes
    BY <1>2 DEF doRefresh, EmbeddedIInv, EmbShape
  <2> QED
    BY <2>1, <2>2, <2>3, EmbMoves
<1> QED
  BY <1>1, <1>2

(* A new flow: its code is with the flow alone.                             *)
LEMMA EmbStarts ==
  ASSUME EmbeddedIInv, StartOAuthFlow
  PROVE  EmbeddedIInv'
<1> DEFINE n == embStarted + 1
           codes == embGrants.codes
<1>1. /\ n \in Nat /\ embStarted \in Nat /\ codes \in Seq(Nat) /\ Len(codes) = embStarted
      /\ embFlows \in Seq(EmbFlowRecs) /\ Len(embFlows) = embStarted
  BY DEF EmbeddedIInv, EmbShape
<1>2. /\ embStarted' = n /\ embGrants'.codes = Append(codes, 0)
      /\ embGrants' = [codes |-> embGrants'.codes, refresh |-> embGrants'.refresh]
      /\ UNCHANGED <<embNow, embProcs>>
  BY DEF StartOAuthFlow
<1>3. /\ embGrants'.codes \in Seq(Nat) /\ Len(embGrants'.codes) = n
      /\ embGrants'.codes[n] = 0 /\ \A s \in 1..embStarted : embGrants'.codes[s] = codes[s]
  BY <1>1, <1>2, AppendProperties
<1>4. PICK fl \in EmbFlowRecs : embFlows' = Append(embFlows, fl)
  <2>1. PICK t, f : t = TRUE /\ f = FALSE /\ t # f /\ BOOLEAN = {t, f}
    BY Truths, Zenon
  <2>2. embFlows' = Append(embFlows, [pending |-> t, created |-> embNow])
    BY <2>1, Zenon DEF StartOAuthFlow
  <2>3. [pending |-> t, created |-> embNow] \in EmbFlowRecs
    BY <2>1 DEF EmbFlowRecs, EmbeddedIInv, EmbShape
  <2> QED
    BY <2>2, <2>3
<1>5. /\ embFlows' \in Seq(EmbFlowRecs) /\ Len(embFlows') = n
      /\ \A s \in 1..embStarted : embFlows'[s] = embFlows[s]
  BY <1>1, <1>4, AppendProperties
<1>6. EmbShape'
  BY <1>1, <1>2, <1>3, <1>5 DEF EmbeddedIInv, EmbShape
<1>7. EmbPending' \subseteq EmbPending \union {n}
  BY <1>1, <1>2, <1>5 DEF EmbPending
<1>8. EmbOnce'
  <2>1. \A s \in 1..embStarted' : embGrants'.codes[s] \in {0, 1}
    BY <1>1, <1>2, <1>3 DEF EmbeddedIInv, EmbOnce
  <2>2. \A p \in EmbProcs : embProcs[p].pc = "exchange" => embProcs[p].id \in 1..embStarted
    BY DEF EmbeddedIInv, EmbOnce
  <2>3. \A s \in EmbPending' : embGrants'.codes[s] = 0 /\ \A p \in EmbProcs : ~Exchanges(p, s)'
    <3> SUFFICES ASSUME NEW s \in EmbPending \union {n}
        PROVE  embGrants'.codes[s] = 0 /\ \A p \in EmbProcs : ~Exchanges(p, s)'
      BY <1>7
    <3>1. CASE s = n
      BY <1>1, <1>2, <1>3, <2>2, <3>1 DEF Exchanges
    <3>2. CASE s \in EmbPending
      <4>1. s \in 1..embStarted
        BY <3>2 DEF EmbPending
      <4> QED
        BY <1>2, <1>3, <3>2, <4>1 DEF EmbeddedIInv, EmbOnce, Exchanges
    <3> QED
      BY <3>1, <3>2
  <2>4. \A p \in EmbProcs : embProcs'[p].pc = "exchange" =>
           embProcs'[p].id \in 1..embStarted' /\ embGrants'.codes[embProcs'[p].id] = 0
    BY <1>1, <1>2, <1>3 DEF EmbeddedIInv, EmbOnce
  <2>5. \A p, q \in EmbProcs : embProcs'[p].pc = "exchange" /\ embProcs'[q].pc = "exchange" =>
           (embProcs'[p].id = embProcs'[q].id => p = q)
    BY <1>2 DEF EmbeddedIInv, EmbOnce
  <2> QED
    BY <2>1, <2>3, <2>4, <2>5 DEF EmbOnce
<1> QED
  BY <1>6, <1>8 DEF EmbeddedIInv

(* Flows that were too old are no longer pending, the others stay.          *)
LEMMA EmbCleans ==
  ASSUME EmbeddedIInv, cleanupExpiredFlows
  PROVE  EmbeddedIInv'
<1> DEFINE old == {s \in 1..embStarted : Flow(s) /\ embFlows[s].created < embNow - EmbWindow}
<1>1. /\ embFlows' = [s \in 1..embStarted |-> [embFlows[s] EXCEPT !.pending = @ /\ s \notin old]]
      /\ UNCHANGED <<embStarted, embNow, embProcs, embGrants>>
  BY DEF cleanupExpiredFlows
<1> HIDE DEF old
<1>2. /\ embStarted \in Nat /\ embFlows \in Seq(EmbFlowRecs)
      /\ Len(embFlows) = embStarted
  BY DEF EmbeddedIInv, EmbShape
<1>3. ASSUME NEW s \in 1..embStarted
      PROVE  /\ embFlows'[s] \in EmbFlowRecs
             /\ embFlows'[s].pending => embFlows[s].pending
  <2>1. PICK b : b = (embFlows[s].pending /\ s \notin old)
    BY Zenon
  <2>2. b \in BOOLEAN /\ (b => embFlows[s].pending)
    BY <2>1, Zenon
  <2>3. embFlows'[s] = [embFlows[s] EXCEPT !.pending = embFlows[s].pending /\ s \notin old]
    BY <1>1, Zenon
  <2>4. embFlows'[s] = [embFlows[s] EXCEPT !.pending = b]
    BY <2>1, <2>3, Zenon
  <2>5. embFlows[s] \in EmbFlowRecs
    BY <1>2
  <2>6. embFlows'[s] \in EmbFlowRecs /\ embFlows'[s].pending = b
    BY <2>2, <2>4, <2>5 DEF EmbFlowRecs
  <2> QED
    BY <2>2, <2>6, Zenon
<1>4. embFlows' \in Seq(EmbFlowRecs) /\ Len(embFlows') = embStarted
  <2>1. embFlows' \in [1..embStarted -> EmbFlowRecs]
    <3>1. embFlows' = [s \in 1..embStarted |-> embFlows'[s]]
      BY <1>1, Zenon
    <3> QED
      BY <1>3, <3>1
  <2> QED
    BY <1>2, <2>1
<1>5. EmbShape'
  BY <1>1, <1>4 DEF EmbeddedIInv, EmbShape
<1>6. EmbPending' \subseteq EmbPending
  BY <1>1, <1>3, Zenon DEF EmbPending
<1> QED
  BY <1>1, <1>5, <1>6, EmbQuiet

(* A callback takes the flow: nobody else has its code.                     *)
LEMMA EmbCalledBack ==
  ASSUME EmbeddedIInv, NEW p \in EmbProcs, NEW state \in 1..embStarted, HandleCallback(p, state)
  PROVE  EmbeddedIInv'
<1>1. /\ embStarted \in Nat /\ embFlows \in Seq(EmbFlowRecs)
      /\ Len(embFlows) = embStarted /\ state \in DOMAIN embFlows
  BY DEF EmbeddedIInv, EmbShape
<1>2. PICK t, f : t = TRUE /\ f = FALSE /\ t # f /\ BOOLEAN = {t, f}
  BY Truths, Zenon
<1>3. /\ embFlows' = [embFlows EXCEPT ![state].pending = f]
      /\ UNCHANGED <<embStarted, embNow, embGrants>> /\ state \in EmbPending
  BY <1>2, Zenon DEF HandleCallback, Flow, EmbPending
<1>4. /\ embFlows' \in Seq(EmbFlowRecs) /\ Len(embFlows') = embStarted
      /\ embFlows'[state].pending = f
      /\ \A s \in 1..embStarted : s # state => embFlows'[s] = embFlows[s]
  <2>1. embFlows[state] \in EmbFlowRecs
    BY <1>1
  <2> DEFINE fl == [embFlows[state] EXCEPT !.pending = f]
  <2>2. fl \in EmbFlowRecs /\ fl.pending = f
    BY <1>2, <2>1 DEF EmbFlowRecs
  <2>3. embFlows' = [embFlows EXCEPT ![state] = fl]
    BY <1>1, <1>3
  <2> HIDE DEF fl
  <2>4. embFlows' \in Seq(EmbFlowRecs) /\ Len(embFlows') = embStarted
    BY <1>1, <2>2, <2>3
  <2>5. embFlows'[state] = fl /\ \A s \in 1..embStarted : s # state => embFlows'[s] = embFlows[s]
    BY <1>1, <2>3
  <2> QED
    BY <2>2, <2>4, <2>5
<1>5. EmbPending' \subseteq EmbPending \ {state}
  <2>1. ~embFlows'[state].pending
    BY <1>2, <1>4, Zenon
  <2> QED
    BY <1>3, <1>4, <2>1, Zenon DEF EmbPending
<1>6. CASE Ends(p)
  <2>1. \A q \in EmbProcs : embProcs'[q].pc = "exchange" => embProcs'[q] = embProcs[q]
    BY <1>6 DEF Ends, EmbIdle, EmbeddedIInv, EmbShape
  <2>2. EmbShape'
    BY <1>3, <1>4, <1>6 DEF Ends, EmbeddedIInv, EmbShape
  <2> QED
    BY <1>3, <1>5, <2>1, <2>2, EmbQuiet
<1>7. CASE Moves(p, "exchange", state, <<>>)
  <2>1. /\ embProcs'[p].pc = "exchange" /\ embProcs'[p].id = state
        /\ \A q \in EmbProcs : q # p => embProcs'[q] = embProcs[q]
        /\ embProcs' = [q \in EmbProcs |-> embProcs'[q]]
    BY <1>7 DEF Moves, EmbeddedIInv, EmbShape
  <2>2. EmbShape'
    BY <1>3, <1>4, <2>1 DEF EmbeddedIInv, EmbShape
  <2>3. /\ embGrants.codes[state] = 0
        /\ \A q \in EmbProcs : ~(embProcs[q].pc = "exchange" /\ embProcs[q].id = state)
    BY <1>3 DEF EmbeddedIInv, EmbOnce, Exchanges
  <2>4. \A s \in 1..embStarted' : embGrants'.codes[s] \in {0, 1}
    BY <1>3 DEF EmbeddedIInv, EmbOnce
  <2>5. \A s \in EmbPending' : embGrants'.codes[s] = 0 /\ \A q \in EmbProcs : ~Exchanges(q, s)'
    <3> SUFFICES ASSUME NEW s \in EmbPending, s # state, NEW q \in EmbProcs
        PROVE  embGrants'.codes[s] = 0 /\ ~Exchanges(q, s)'
      BY <1>5
    <3>1. embGrants.codes[s] = 0 /\ ~Exchanges(q, s)
      BY DEF EmbeddedIInv, EmbOnce
    <3> QED
      BY <1>3, <2>1, <3>1 DEF Exchanges
  <2>6. \A q \in EmbProcs : embProcs'[q].pc = "exchange" =>
           embProcs'[q].id \in 1..embStarted' /\ embGrants'.codes[embProcs'[q].id] = 0
    <3> SUFFICES ASSUME NEW q \in EmbProcs, embProcs'[q].pc = "exchange"
        PROVE  embProcs'[q].id \in 1..embStarted' /\ embGrants'.codes[embProcs'[q].id] = 0
      OBVIOUS
    <3>1. CASE q = p
      BY <1>3, <2>1, <2>3, <3>1
    <3>2. CASE q # p
      BY <1>3, <2>1, <3>2 DEF EmbeddedIInv, EmbOnce
    <3> QED
      BY <3>1, <3>2
  <2>7. \A q, r \in EmbProcs : embProcs'[q].pc = "exchange" /\ embProcs'[r].pc = "exchange" =>
           (embProcs'[q].id = embProcs'[r].id => q = r)
    <3>1. \A q, r \in EmbProcs : embProcs[q].pc = "exchange" /\ embProcs[r].pc = "exchange" =>
             (embProcs[q].id = embProcs[r].id => q = r)
      BY DEF EmbeddedIInv, EmbOnce
    <3> QED
      BY <2>1, <2>3, <3>1
  <2>8. EmbOnce'
    BY <2>4, <2>5, <2>6, <2>7 DEF EmbOnce
  <2> QED
    BY <2>2, <2>8 DEF EmbeddedIInv
<1> QED
  BY <1>6, <1>7 DEF HandleCallback

(* The exchange: the code is used up, and its callback is past it.          *)
LEMMA EmbExchanges ==
  ASSUME EmbeddedIInv, NEW p \in EmbProcs, exchangeCode(p)
  PROVE  EmbeddedIInv'
<1> DEFINE s == embProcs[p].id
<1>1. /\ embProcs[p].pc = "exchange" /\ s \in 1..embStarted /\ embGrants.codes[s] = 0
      /\ UNCHANGED <<embStarted, embNow, embFlows>>
  BY DEF exchangeCode, EmbeddedIInv, EmbOnce
<1>2. PICK m : m.pc # "exchange" /\ embProcs' = [embProcs EXCEPT ![p] = m]
  <2>1. CASE Ends(p)
    <3>1. EmbIdle.pc # "exchange"
      BY DEF EmbIdle
    <3> QED
      BY <2>1, <3>1 DEF Ends
  <2>2. ASSUME NEW refresh, Moves(p, "store", s, <<refresh>>)
        PROVE  \E m : m.pc # "exchange" /\ embProcs' = [embProcs EXCEPT ![p] = m]
    <3>1. [pc |-> "store", id |-> s, got |-> <<refresh>>].pc # "exchange"
      OBVIOUS
    <3> QED
      BY <2>2, <3>1 DEF Moves
  <2> QED
    BY <2>1, <2>2 DEF exchangeCode
<1>3. CASE UNCHANGED embGrants
  BY <1>1, <1>2, <1>3, EmbMoves DEF EmbeddedIInv, EmbShape
<1>4. CASE \E refresh \in 0..1 :
             embGrants' = [codes |-> [embGrants.codes EXCEPT ![s] = @ + 1],
                           refresh |-> [embGrants.refresh EXCEPT ![s] = refresh]]
  <2>1. /\ embGrants' = [codes |-> embGrants'.codes, refresh |-> embGrants'.refresh]
        /\ embGrants'.codes = [embGrants.codes EXCEPT ![s] = @ + 1]
    BY <1>4
  <2>2. embGrants.codes \in Seq(Nat) /\ Len(embGrants.codes) = embStarted /\ embStarted \in Nat
    BY DEF EmbeddedIInv, EmbShape
  <2>3. /\ embGrants'.codes \in Seq(Nat) /\ Len(embGrants'.codes) = embStarted
        /\ embGrants'.codes[s] = 1
        /\ \A q \in 1..embStarted : q # s => embGrants'.codes[q] = embGrants.codes[q]
    BY <1>1, <2>1, <2>2
  <2>4. /\ embProcs'[p].pc # "exchange"
        /\ \A q \in EmbProcs : q # p => embProcs'[q] = embProcs[q]
        /\ embProcs' = [q \in EmbProcs |-> embProcs'[q]]
    BY <1>2 DEF EmbeddedIInv, EmbShape
  <2>5. EmbShape'
    BY <1>1, <2>1, <2>2, <2>3, <2>4 DEF EmbeddedIInv, EmbShape
  <2>6. EmbPending' = EmbPending /\ s \notin EmbPending
    BY <1>1 DEF EmbPending, EmbeddedIInv, EmbOnce, Exchanges
  <2>7. \A q \in EmbProcs : q # p /\ embProcs[q].pc = "exchange" => embProcs[q].id # s
    BY <1>1 DEF EmbeddedIInv, EmbOnce
  <2>8. \A r \in 1..embStarted' : embGrants'.codes[r] \in {0, 1}
    BY <1>1, <2>3 DEF EmbeddedIInv, EmbOnce
  <2>9. \A r \in EmbPending' : embGrants'.codes[r] = 0 /\ \A q \in EmbProcs : ~Exchanges(q, r)'
    <3> SUFFICES ASSUME NEW r \in EmbPending, r # s, NEW q \in EmbProcs
        PROVE  embGrants'.codes[r] = 0 /\ ~Exchanges(q, r)'
      BY <2>6
    <3>1. embGrants.codes[r] = 0 /\ ~Exchanges(q, r) /\ r \in 1..embStarted
      BY DEF EmbeddedIInv, EmbOnce, EmbPending
    <3> QED
      BY <2>3, <2>4, <3>1 DEF Exchanges
  <2>10. \A q \in EmbProcs : embProcs'[q].pc = "exchange" =>
            embProcs'[q].id \in 1..embStarted' /\ embGrants'.codes[embProcs'[q].id] = 0
    BY <1>1, <2>3, <2>4, <2>7 DEF EmbeddedIInv, EmbOnce
  <2>11. \A q, r \in EmbProcs : embProcs'[q].pc = "exchange" /\ embProcs'[r].pc = "exchange" =>
            (embProcs'[q].id = embProcs'[r].id => q = r)
    BY <2>4 DEF EmbeddedIInv, EmbOnce
  <2>12. EmbOnce'
    BY <2>8, <2>9, <2>10, <2>11 DEF EmbOnce
  <2> QED
    BY <2>5, <2>12 DEF EmbeddedIInv
<1> QED
  BY <1>3, <1>4 DEF exchangeCode

(* The invariant of the flows is inductive.                                 *)
LEMMA EmbeddedInductive == EmbeddedSpec => []EmbeddedIInv
<1>1. EmbeddedInit => EmbeddedIInv
  <2> SUFFICES ASSUME EmbeddedInit PROVE EmbeddedIInv
    OBVIOUS
  <2>1. EmbShape
    BY EmptySeq DEF EmbeddedInit, EmbShape
  <2>2. EmbOnce
    BY DEF EmbeddedInit, EmbOnce, EmbPending, EmbIdle
  <2> QED
    BY <2>1, <2>2 DEF EmbeddedIInv
<1>2. EmbeddedIInv /\ [EmbeddedNext]_embVars => EmbeddedIInv'
  <2> SUFFICES ASSUME EmbeddedIInv, [EmbeddedNext]_embVars PROVE EmbeddedIInv'
    OBVIOUS
  <2>1. CASE UNCHANGED embVars
    BY <2>1, EmbMoves DEF embVars, EmbeddedIInv, EmbShape
  <2>2. ASSUME NEW conn \in 1..Len(embTokens), Reauthorize(conn)
        PROVE  EmbeddedIInv'
    BY <2>2, EmbStarts DEF Reauthorize
  <2>3. CASE EmbeddedNext
    BY <2>2, <2>3, EmbLifecycle, EmbRefreshes, EmbStarts, EmbCleans, EmbCalledBack, EmbExchanges
       DEF EmbeddedNext
  <2> QED
    BY <2>1, <2>3
<1> QED
  BY <1>1, <1>2, PTL DEF EmbeddedSpec

(* The code of a flow of embedded/oauth/manager.go is exchanged once at     *)
(* most, for any number of flows, callbacks and goroutines: a callback      *)
(* takes the flow out of pendingFlows in the critical section that finds it, *)
(* so whoever exchanges the code is alone with it.                          *)
THEOREM CodesExchangedOnce == EmbeddedSpec => []ExchangedOnce
<1>1. EmbeddedIInv => ExchangedOnce
  <2> SUFFICES ASSUME EmbeddedIInv, NEW s \in 1..embStarted PROVE embGrants.codes[s] <= 1
    BY DEF ExchangedOnce
  <2>1. embGrants.codes[s] \in {0, 1}
    BY DEF EmbeddedIInv, EmbOnce
  <2> QED
    BY <2>1
<1> QED
  BY <1>1, EmbeddedInductive, PTL

-----------------------------------------------------------------------------
(* The bounds of the embedded connections' state.                           *)

EmbRowRecs == [status : {"created", "enabled", "disabled", "error", "deleted"}, error : BOOLEAN,
               syncs : 0..EmbMaxSyncs, config : 1..2]

EmbBounded ==
    /\ embKind \in EmbKinds /\ embNow \in 0..EmbMaxTick /\ embStarted \in 0..EmbMaxFlows
    /\ embRows \in Seq(EmbRowRecs) /\ embIndex \subseteq 1..Len(embRows)
    /\ \A p \in EmbProcs : embProcs[p].pc = "update" =>
          embProcs[p].id \in 1..Len(embRows) /\ embProcs[p].got \in EmbRowRecs
    /\ embTokens = [s \in 1..embStarted |-> embTokens[s]]
    /\ embGrants.refresh = [s \in 1..embStarted |-> embGrants.refresh[s]]

(* A sequence that is given by its elements, and one more.                  *)
LEMMA ElementsGiven ==
  ASSUME NEW n \in Nat, NEW f, f = [s \in 1..n |-> f[s]], NEW e
  PROVE  /\ Len(f) = n
         /\ Append(f, e) = [s \in 1..(n + 1) |-> Append(f, e)[s]]
<1>1. PICK S : S = {f[s] : s \in 1..n} \union {e}
  OBVIOUS
<1>2. f \in [1..n -> S]
  BY <1>1
<1>3. f \in Seq(S) /\ e \in S
  BY <1>1, <1>2
<1>4. Len(f) = n
  BY <1>2, <1>3
<1>5. Append(f, e) \in Seq(S) /\ Len(Append(f, e)) = n + 1
  BY <1>3, <1>4
<1> QED
  BY <1>4, <1>5

(* Steps that keep the rows, and begin no write of one.                     *)
LEMMA EmbRowsStay ==
  ASSUME EmbBounded, UNCHANGED <<embKind, embRows, embIndex>>,
         embNow' \in 0..EmbMaxTick, embStarted' \in 0..EmbMaxFlows,
         embTokens' = [s \in 1..embStarted' |-> embTokens'[s]],
         embGrants'.refresh = [s \in 1..embStarted' |-> embGrants'.refresh[s]],
         \A p \in EmbProcs : embProcs'[p] = embProcs[p] \/ embProcs'[p].pc # "update"
  PROVE  EmbBounded'
<1>1. \A p \in EmbProcs : embProcs'[p].pc = "update" =>
         embProcs'[p].id \in 1..Len(embRows) /\ embProcs'[p].got \in EmbRowRecs
  BY DEF EmbBounded
<1> QED
  BY <1>1 DEF EmbBounded

(* Where a goroutine is after its step.                                     *)
LEMMA EmbGoes ==
  ASSUME EmbShape, NEW p \in EmbProcs, NEW pc, NEW id, NEW got,
         Moves(p, pc, id, got)
  PROVE  /\ embProcs'[p].pc = pc /\ embProcs'[p].id = id /\ embProcs'[p].got = got
         /\ \A q \in EmbProcs : q # p => embProcs'[q] = embProcs[q]
<1>1. embProcs' = [embProcs EXCEPT ![p] = [pc |-> pc, id |-> id, got |-> got]]
  BY DEF Moves
<1>2. DOMAIN embProcs = EmbProcs
  <2>1. embProcs = [q \in EmbProcs |-> embProcs[q]]
    BY DEF EmbShape
  <2> QED
    BY <2>1
<1>3. embProcs'[p] = [pc |-> pc, id |-> id, got |-> got]
  BY <1>1, <1>2
<1> QED
  BY <1>1, <1>2, <1>3

(* A goroutine that is done.                                                *)
LEMMA EmbStops ==
  ASSUME EmbShape, NEW p \in EmbProcs, Ends(p)
  PROVE  /\ embProcs'[p].pc = "idle"
         /\ \A q \in EmbProcs : q # p => embProcs'[q] = embProcs[q]
<1>1. Moves(p, "idle", 0, <<>>)
  BY DEF Ends, EmbIdle, Moves
<1> QED
  BY <1>1, EmbGoes

(* A row is read, changed, and will be written back.                        *)
LEMMA EmbGetsRow ==
  ASSUME EmbShape, EmbBounded, NEW p \in EmbProcs, NEW id \in 1..Len(embRows), NEW row \in EmbRowRecs,
         NEW refuses \in BOOLEAN, Gets(p, id, row, refuses)
  PROVE  EmbBounded'
<1>1. /\ Moves(p, "update", id, row)
      /\ UNCHANGED <<embKind, embNow, embRows, embIndex, embFlows, embStarted, embTokens, embGrants>>
  BY DEF Gets, lifecycleVars, oauthVars
<1>2. /\ embProcs'[p].pc = "update" /\ embProcs'[p].id = id /\ embProcs'[p].got = row
      /\ \A q \in EmbProcs : q # p => embProcs'[q] = embProcs[q]
  BY <1>1, EmbGoes
<1>3. \A q \in EmbProcs : embProcs'[q].pc = "update" =>
         embProcs'[q].id \in 1..Len(embRows) /\ embProcs'[q].got \in EmbRowRecs
  BY <1>2 DEF EmbBounded
<1> QED
  BY <1>1, <1>3 DEF EmbBounded

(* What the operations make of a row.                                       *)
LEMMA EmbRowChanges ==
  ASSUME NEW r \in EmbRowRecs, NEW c \in 1..2
  PROVE  /\ [r EXCEPT !.status = "enabled", !.error = FALSE] \in EmbRowRecs
         /\ [r EXCEPT !.status = "disabled"] \in EmbRowRecs
         /\ [r EXCEPT !.status = "deleted"] \in EmbRowRecs
         /\ [r EXCEPT !.config = c] \in EmbRowRecs
         /\ r.syncs < EmbMaxSyncs => [r EXCEPT !.syncs = @ + 1] \in EmbRowRecs
         /\ [r EXCEPT !.status = "error", !.error = TRUE] \in EmbRowRecs
<1>1. PICK a, b : a = [r EXCEPT !.status = "enabled"] /\ b = [r EXCEPT !.status = "error"]
  OBVIOUS
<1>2. a \in EmbRowRecs /\ b \in EmbRowRecs
  BY <1>1 DEF EmbRowRecs
<1>3. [a EXCEPT !.error = FALSE] \in EmbRowRecs /\ [b EXCEPT !.error = TRUE] \in EmbRowRecs
  BY <1>2 DEF EmbRowRecs
<1>4. /\ [r EXCEPT !.status = "enabled", !.error = FALSE] = [a EXCEPT !.error = FALSE]
      /\ [r EXCEPT !.status = "error", !.error = TRUE] = [b EXCEPT !.error = TRUE]
  BY <1>1
<1>5. ASSUME r.syncs < EmbMaxSyncs PROVE [r EXCEPT !.syncs = @ + 1] \in EmbRowRecs
  <2>1. PICK n : n = r.syncs
    OBVIOUS
  <2>2. n \in 0..EmbMaxSyncs /\ n < EmbMaxSyncs
    BY <1>5, <2>1 DEF EmbRowRecs
  <2>3. n + 1 \in 0..EmbMaxSyncs
    BY <2>2, EmbeddedAssumption
  <2>4. [r EXCEPT !.syncs = @ + 1] = [r EXCEPT !.syncs = n + 1]
    BY <2>1
  <2> QED
    BY <2>3, <2>4 DEF EmbRowRecs
<1>6. /\ [r EXCEPT !.status = "disabled"] \in EmbRowRecs
      /\ [r EXCEPT !.status = "deleted"] \in EmbRowRecs
      /\ [r EXCEPT !.config = c] \in EmbRowRecs
  BY DEF EmbRowRecs
<1> QED
  BY <1>3, <1>4, <1>5, <1>6

(* The lifecycle's steps.                                                   *)
LEMMA EmbLifecycleBounded ==
  ASSUME EmbShape, EmbBounded,
         \/ CreateIntegration
         \/ \E id \in 1..Len(embRows) : InMemoryDelete(id)
         \/ \E p \in EmbProcs :
              \/ InMemoryUpdate(p)
              \/ \E id \in 1..Len(embRows) :
                   \/ EnableIntegration(p, id) \/ DisableIntegration(p, id)
                   \/ UpdateConfig(p, id) \/ RecordSync(p, id) \/ SetError(p, id)
  PROVE  EmbBounded'
<1>1. /\ embRows \in Seq(EmbRowRecs) /\ embIndex \subseteq 1..Len(embRows) /\ Len(embRows) \in Nat
      /\ \A id \in 1..Len(embRows) : embRows[id] \in EmbRowRecs
      /\ \A p \in EmbProcs : embProcs[p].pc = "update" =>
            embProcs[p].id \in 1..Len(embRows) /\ embProcs[p].got \in EmbRowRecs
  BY DEF EmbBounded
<1>2. CASE CreateIntegration
  <2>1. PICK r : r = [status |-> "created", error |-> FALSE, syncs |-> 0, config |-> 1]
    OBVIOUS
  <2>2. r \in EmbRowRecs
    BY <2>1, EmbeddedAssumption DEF EmbRowRecs
  <2>3. /\ embRows' = Append(embRows, r) /\ embIndex' = embIndex \union {Len(embRows) + 1}
        /\ UNCHANGED <<embKind, embNow, embProcs, embStarted, embTokens, embGrants>>
    BY <1>2, <2>1 DEF CreateIntegration, oauthVars
  <2>4. embRows' \in Seq(EmbRowRecs) /\ Len(embRows') = Len(embRows) + 1
    BY <1>1, <2>2, <2>3
  <2>5. embIndex' \subseteq 1..Len(embRows') /\ 1..Len(embRows) \subseteq 1..Len(embRows')
    <3>1. PICK n, m : n = Len(embRows) /\ m = Len(embRows')
      OBVIOUS
    <3>2. n \in Nat /\ m = n + 1 /\ embIndex \subseteq 1..n /\ embIndex' = embIndex \union {m}
      BY <1>1, <2>3, <2>4, <3>1
    <3>3. 1..n \subseteq 1..m /\ m \in 1..m
      BY <3>2
    <3>4. embIndex' \subseteq 1..m
      BY <3>2, <3>3
    <3> QED
      BY <3>1, <3>3, <3>4
  <2> QED
    BY <1>1, <2>3, <2>4, <2>5 DEF EmbBounded
<1>3. ASSUME NEW id \in 1..Len(embRows), InMemoryDelete(id) PROVE EmbBounded'
  <2>1. PICK r : r = [embRows[id] EXCEPT !.status = "deleted"]
    OBVIOUS
  <2>2. r \in EmbRowRecs
    <3>1. embRows[id] \in EmbRowRecs /\ 1 \in 1..2
      BY <1>1
    <3> QED
      BY <2>1, <3>1, EmbRowChanges
  <2>3. /\ embRows' = [embRows EXCEPT ![id] = r] /\ embIndex' = embIndex \ {id}
        /\ UNCHANGED <<embKind, embNow, embProcs, embStarted, embTokens, embGrants>>
    BY <1>3, <2>1 DEF InMemoryDelete, oauthVars
  <2>4. embRows' \in Seq(EmbRowRecs) /\ Len(embRows') = Len(embRows)
    BY <1>1, <2>2, <2>3
  <2> QED
    BY <1>1, <2>3, <2>4 DEF EmbBounded
<1>4. ASSUME NEW p \in EmbProcs, InMemoryUpdate(p) PROVE EmbBounded'
  <2>1. PICK id, r : id = embProcs[p].id /\ r = embProcs[p].got
    OBVIOUS
  <2>2. id \in 1..Len(embRows) /\ r \in EmbRowRecs
    BY <1>1, <1>4, <2>1 DEF InMemoryUpdate
  <2>3. /\ embRows' = [embRows EXCEPT ![id] = r] /\ Ends(p)
        /\ UNCHANGED <<embKind, embNow, embIndex, embStarted, embTokens, embGrants>>
    BY <1>4, <2>1 DEF InMemoryUpdate, oauthVars
  <2>4. embRows' \in Seq(EmbRowRecs) /\ Len(embRows') = Len(embRows)
    BY <1>1, <2>2, <2>3
  <2>5. \A q \in EmbProcs : embProcs'[q].pc = "update" =>
           embProcs'[q].id \in 1..Len(embRows) /\ embProcs'[q].got \in EmbRowRecs
    BY <1>1, <2>3, EmbStops
  <2> QED
    BY <1>1, <2>3, <2>4, <2>5 DEF EmbBounded
<1>5. ASSUME NEW p \in EmbProcs, NEW id \in 1..Len(embRows),
             \/ EnableIntegration(p, id) \/ DisableIntegration(p, id)
             \/ UpdateConfig(p, id) \/ RecordSync(p, id) \/ SetError(p, id)
      PROVE  EmbBounded'
  <2>1. embRows[id] \in EmbRowRecs /\ 1 \in 1..2
    BY <1>1
  <2>2. \E row \in EmbRowRecs, refuses \in BOOLEAN : Gets(p, id, row, refuses)
    <3>1. CASE EnableIntegration(p, id)
      BY <2>1, <3>1, EmbRowChanges DEF EnableIntegration
    <3>2. CASE DisableIntegration(p, id)
      BY <2>1, <3>2, EmbRowChanges DEF DisableIntegration
    <3>3. CASE UpdateConfig(p, id)
      BY <2>1, <3>3, EmbRowChanges DEF UpdateConfig
    <3>4. CASE RecordSync(p, id)
      BY <2>1, <3>4, EmbRowChanges DEF RecordSync
    <3>5. CASE SetError(p, id)
      BY <2>1, <3>5, EmbRowChanges DEF SetError
    <3> QED
      BY <1>5, <3>1, <3>2, <3>3, <3>4, <3>5
  <2> QED
    BY <2>2, EmbGetsRow
<1> QED
  BY <1>2, <1>3, <1>4, <1>5

(* The flows' steps.                                                        *)
LEMMA EmbOAuthBounded ==
  ASSUME EmbShape, EmbBounded,
         \/ EmbTick \/ StartOAuthFlow \/ cleanupExpiredFlows
         \/ \E conn \in 1..Len(embTokens) : Reauthorize(conn)
         \/ \E p \in EmbProcs :
              \/ exchangeCode(p) \/ StoreTokens(p) \/ doRefresh(p) \/ RefreshedTokens(p)
              \/ \E s \in 1..embStarted : HandleCallback(p, s) \/ RefreshToken(p, s)
  PROVE  EmbBounded'
<1>1. /\ embNow \in 0..EmbMaxTick /\ embStarted \in 0..EmbMaxFlows /\ embStarted \in Nat
      /\ embTokens = [s \in 1..embStarted |-> embTokens[s]]
      /\ embGrants = [codes |-> embGrants.codes, refresh |-> embGrants.refresh]
      /\ embGrants.refresh = [s \in 1..embStarted |-> embGrants.refresh[s]]
  BY DEF EmbBounded, EmbShape
<1>2. CASE EmbTick
  <2>1. /\ embNow < EmbMaxTick /\ embNow' = embNow + 1
        /\ UNCHANGED <<embKind, embProcs, embRows, embIndex, embStarted, embTokens, embGrants>>
    BY <1>2 DEF EmbTick, lifecycleVars, oauthVars
  <2>2. embNow' \in 0..EmbMaxTick
    BY <1>1, <2>1, EmbeddedAssumption
  <2> QED
    BY <2>1, <2>2 DEF EmbBounded
<1>3. ASSUME StartOAuthFlow PROVE EmbBounded'
  <2>1. PICK e : embTokens' = Append(embTokens, e)
    BY <1>3 DEF StartOAuthFlow
  <2>2. /\ embStarted < EmbMaxFlows /\ embStarted' = embStarted + 1
        /\ embGrants' = [codes |-> Append(embGrants.codes, 0),
                         refresh |-> Append(embGrants.refresh, 0)]
        /\ UNCHANGED <<embKind, embNow, embProcs, embRows, embIndex>>
    BY <1>3 DEF StartOAuthFlow, lifecycleVars
  <2>3. embTokens' = [s \in 1..embStarted' |-> embTokens'[s]]
    BY <1>1, <2>1, <2>2, ElementsGiven
  <2>4. embGrants'.refresh = [s \in 1..embStarted' |-> embGrants'.refresh[s]]
    <3>1. PICK f : f = embGrants.refresh
      OBVIOUS
    <3>2. f = [s \in 1..embStarted |-> f[s]]
      BY <1>1, <3>1
    <3>3. Append(f, 0) = [s \in 1..(embStarted + 1) |-> Append(f, 0)[s]]
      BY <1>1, <3>2, ElementsGiven
    <3>4. embGrants'.refresh = Append(f, 0)
      BY <2>2, <3>1
    <3> QED
      BY <2>2, <3>3, <3>4
  <2>5. embStarted' \in 0..EmbMaxFlows
    BY <1>1, <2>2, EmbeddedAssumption
  <2> QED
    BY <1>1, <2>2, <2>3, <2>4, <2>5, EmbRowsStay
<1>4. ASSUME NEW conn \in 1..Len(embTokens), Reauthorize(conn) PROVE EmbBounded'
  BY <1>3, <1>4 DEF Reauthorize
<1>5. CASE cleanupExpiredFlows
  <2>1. UNCHANGED <<embKind, embNow, embProcs, embRows, embIndex, embStarted, embTokens, embGrants>>
    BY <1>5 DEF cleanupExpiredFlows, lifecycleVars
  <2> QED
    BY <2>1 DEF EmbBounded
<1>6. ASSUME NEW p \in EmbProcs, exchangeCode(p) PROVE EmbBounded'
  <2>1. PICK s : s = embProcs[p].id
    OBVIOUS
  <2>2. /\ UNCHANGED <<embKind, embNow, embRows, embIndex, embStarted, embTokens>>
        /\ Ends(p) \/ \E r : Moves(p, "store", s, r)
        /\ \/ embGrants' = embGrants
           \/ \E u, v : embGrants' = [codes |-> u, refresh |-> [embGrants.refresh EXCEPT ![s] = v]]
    BY <1>6, <2>1, Zenon DEF exchangeCode, lifecycleVars
  <2>3. \A q \in EmbProcs : embProcs'[q] = embProcs[q] \/ embProcs'[q].pc # "update"
    BY <2>2, EmbGoes, EmbStops
  <2>4. embGrants'.refresh = [t \in 1..embStarted |-> embGrants'.refresh[t]]
    <3>1. CASE embGrants' = embGrants
      BY <1>1, <3>1
    <3>2. ASSUME NEW u, NEW v, embGrants' = [codes |-> u, refresh |-> [embGrants.refresh EXCEPT ![s] = v]]
          PROVE  embGrants'.refresh = [t \in 1..embStarted |-> embGrants'.refresh[t]]
      <4>1. embGrants'.refresh = [embGrants.refresh EXCEPT ![s] = v]
        BY <3>2
      <4> QED
        BY <1>1, <4>1
    <3> QED
      BY <2>2, <3>1, <3>2
  <2> QED
    BY <1>1, <2>2, <2>3, <2>4, EmbRowsStay
<1>7. ASSUME NEW p \in EmbProcs, StoreTokens(p) \/ RefreshedTokens(p) PROVE EmbBounded'
  <2>1. PICK s : s = embProcs[p].id
    OBVIOUS
  <2>2. /\ UNCHANGED <<embKind, embNow, embRows, embIndex, embStarted, embGrants>>
        /\ Ends(p) /\ \E v : embTokens' = [embTokens EXCEPT ![s] = v]
    BY <1>7, <2>1, Zenon DEF StoreTokens, RefreshedTokens, lifecycleVars
  <2>3. \A q \in EmbProcs : embProcs'[q] = embProcs[q] \/ embProcs'[q].pc # "update"
    BY <2>2, EmbStops
  <2>4. embTokens' = [t \in 1..embStarted |-> embTokens'[t]]
    BY <1>1, <2>2
  <2> QED
    BY <1>1, <2>2, <2>3, <2>4, EmbRowsStay
<1>8. ASSUME NEW p \in EmbProcs, doRefresh(p) PROVE EmbBounded'
  <2>1. PICK s : s = embProcs[p].id
    OBVIOUS
  <2>2. /\ UNCHANGED <<embKind, embNow, embRows, embIndex, embStarted, embTokens>>
        /\ Ends(p) \/ \E r : Moves(p, "keep", s, r)
        /\ embGrants' = embGrants \/ \E v : embGrants' = [embGrants EXCEPT !.refresh[s] = v]
    BY <1>8, <2>1, Zenon DEF doRefresh, lifecycleVars
  <2>3. \A q \in EmbProcs : embProcs'[q] = embProcs[q] \/ embProcs'[q].pc # "update"
    BY <2>2, EmbGoes, EmbStops
  <2>4. embGrants'.refresh = [t \in 1..embStarted |-> embGrants'.refresh[t]]
    <3>1. CASE embGrants' = embGrants
      BY <1>1, <3>1
    <3>2. ASSUME NEW v, embGrants' = [embGrants EXCEPT !.refresh[s] = v]
          PROVE  embGrants'.refresh = [t \in 1..embStarted |-> embGrants'.refresh[t]]
      <4>1. embGrants'.refresh = [embGrants.refresh EXCEPT ![s] = v]
        BY <1>1, <3>2
      <4> QED
        BY <1>1, <4>1
    <3> QED
      BY <2>2, <3>1, <3>2
  <2> QED
    BY <1>1, <2>2, <2>3, <2>4, EmbRowsStay
<1>9. ASSUME NEW p \in EmbProcs, NEW s \in 1..embStarted, HandleCallback(p, s) \/ RefreshToken(p, s)
      PROVE  EmbBounded'
  <2>1. /\ UNCHANGED <<embKind, embNow, embRows, embIndex, embStarted, embTokens, embGrants>>
        /\ Ends(p) \/ (\E r : Moves(p, "exchange", s, r)) \/ (\E r : Moves(p, "refresh", s, r))
    BY <1>9, Zenon DEF HandleCallback, RefreshToken, lifecycleVars, oauthVars
  <2>2. \A q \in EmbProcs : embProcs'[q] = embProcs[q] \/ embProcs'[q].pc # "update"
    BY <2>1, EmbGoes, EmbStops
  <2> QED
    BY <1>1, <2>1, <2>2, EmbRowsStay
<1> QED
  BY <1>2, <1>3, <1>4, <1>5, <1>6, <1>7, <1>8, <1>9

(* The embedded connections keep their types: the integrations listed are   *)
(* rows, and of every flow started there are tokens and grants.             *)
LEMMA EmbeddedTypes == EmbeddedSpec => []EmbeddedTypeOK
<1>1. EmbeddedInit => EmbBounded
  <2> SUFFICES ASSUME EmbeddedInit PROVE EmbBounded
    OBVIOUS
  <2>1. /\ embKind \in EmbKinds /\ embNow = 0 /\ embStarted = 0 /\ embRows = <<>> /\ embIndex = {}
        /\ embTokens = <<>> /\ embGrants = [codes |-> <<>>, refresh |-> <<>>]
        /\ \A p \in EmbProcs : embProcs[p].pc = "idle"
    BY DEF EmbeddedInit, EmbIdle
  <2>2. <<>> = [s \in 1..0 |-> <<>>[s]] /\ embGrants.refresh = <<>>
    BY <2>1
  <2>3. embRows \in Seq(EmbRowRecs)
    BY <2>1, EmptySeq
  <2> QED
    BY <2>1, <2>2, <2>3, EmbeddedAssumption DEF EmbBounded
<1>2. EmbeddedIInv /\ EmbBounded /\ [EmbeddedNext]_embVars => EmbBounded'
  <2> SUFFICES ASSUME EmbShape, EmbBounded, [EmbeddedNext]_embVars PROVE EmbBounded'
    BY DEF EmbeddedIInv
  <2>1. CASE UNCHANGED embVars
    BY <2>1 DEF embVars, EmbBounded
  <2>2. CASE EmbeddedNext
    BY <2>2, EmbLifecycleBounded, EmbOAuthBounded, Zenon DEF EmbeddedNext
  <2> QED
    BY <2>1, <2>2
<1>3. EmbeddedIInv /\ EmbBounded => EmbeddedTypeOK
  <2> SUFFICES ASSUME EmbShape, EmbBounded PROVE EmbeddedTypeOK
    BY DEF EmbeddedIInv
  <2>1. \A id \in 1..Len(embRows) : embRows[id].syncs \in 0..EmbMaxSyncs
    <3>1. \A id \in 1..Len(embRows) : embRows[id] \in EmbRowRecs
      BY DEF EmbBounded
    <3> QED
      BY <3>1 DEF EmbRowRecs
  <2>2. Len(embTokens) = embStarted /\ Len(embGrants.refresh) = embStarted
    BY ElementsGiven DEF EmbBounded, EmbShape
  <2> QED
    BY <2>1, <2>2 DEF EmbBounded, EmbShape, EmbeddedTypeOK
<1> QED
  BY <1>1, <1>2, <1>3, EmbeddedInductive, PTL DEF EmbeddedSpec

-----------------------------------------------------------------------------
(* The audit log.                                                           *)

Distinct(s) == \A i, j \in 1..Len(s) : s[i] = s[j] => i = j
AudPlaces == {"idle", "flush", "write", "failed"}

AudShape ==
    /\ audLogged \in Nat /\ audBuf \in Seq(Nat)
    /\ audFlushes \in [AudActors -> [pc : AudPlaces, events : Seq(Nat)]]

(* The buffer and the flushes hold each event once, and in one of them; a   *)
(* goroutine has events only while it writes them; what was logged is       *)
(* stored, dropped, buffered or being flushed.                              *)
AudOnce ==
    /\ Distinct(audBuf) /\ ToSet(audBuf) \subseteq 1..audLogged
    /\ \A a \in AudActors :
          /\ Distinct(audFlushes[a].events) /\ ToSet(audFlushes[a].events) \subseteq 1..audLogged
          /\ ToSet(audFlushes[a].events) \cap ToSet(audBuf) = {}
          /\ audFlushes[a].pc \in {"idle", "flush"} => audFlushes[a].events = <<>>
    /\ \A a, b \in AudActors :
          a # b => ToSet(audFlushes[a].events) \cap ToSet(audFlushes[b].events) = {}
    /\ \A e \in 1..audLogged :
          \/ e \in audStored \union audDropped \union ToSet(audBuf)
          \/ \E a \in AudActors : e \in ToSet(audFlushes[a].events)

AudCore == AudShape /\ AudOnce

(* The last flush begins when Close has waited for the loop, not before.    *)
AudLast == audClosed \in {"no", "waits"} => audFlushes["close"].pc = "idle"

AuditIInv == AudCore /\ AudLast

LEMMA NoEvents == ToSet(<<>>) = {} /\ Distinct(<<>>) /\ <<>> \in Seq(Nat)
  BY EmptySeq DEF ToSet, Distinct

LEMMA InToSet == \A s, x : x \in ToSet(s) <=> \E i \in DOMAIN s : x = s[i]
  BY DEF ToSet

LEMMA EventAppended ==
  ASSUME NEW s \in Seq(Nat), NEW e \in Nat, Distinct(s), e \notin ToSet(s)
  PROVE  /\ Append(s, e) \in Seq(Nat) /\ ToSet(Append(s, e)) = ToSet(s) \union {e}
         /\ Distinct(Append(s, e))
<1>1. /\ Append(s, e) \in Seq(Nat) /\ Len(Append(s, e)) = Len(s) + 1 /\ Len(s) \in Nat
      /\ \A i \in 1..Len(s) : Append(s, e)[i] = s[i]
      /\ Append(s, e)[Len(s) + 1] = e
      /\ DOMAIN s = 1..Len(s) /\ DOMAIN Append(s, e) = 1..(Len(s) + 1)
  BY AppendProperties
<1>2. \A i \in 1..Len(s) : s[i] # e
  BY <1>1 DEF ToSet
<1>3. ToSet(Append(s, e)) = ToSet(s) \union {e}
  BY <1>1 DEF ToSet
<1>4. Distinct(Append(s, e))
  BY <1>1, <1>2 DEF Distinct
<1> QED
  BY <1>1, <1>3, <1>4

(* What a failed flush puts back and what it drops are a cut of its events  *)
(* followed by the buffer.                                                  *)
LEMMA EventsCut ==
  ASSUME NEW s \in Seq(Nat), NEW b \in Seq(Nat), Distinct(s), Distinct(b),
         ToSet(s) \cap ToSet(b) = {}, NEW k \in 0..Len(s \o b)
  PROVE  /\ SubSeq(s \o b, k + 1, Len(s \o b)) \in Seq(Nat)
         /\ Distinct(SubSeq(s \o b, k + 1, Len(s \o b)))
         /\ ToSet(SubSeq(s \o b, k + 1, Len(s \o b))) \union ToSet(SubSeq(s \o b, 1, k))
              = ToSet(s) \union ToSet(b)
<1>1. PICK all : all = s \o b
  OBVIOUS
<1>2. PICK n : n = Len(all)
  OBVIOUS
<1>3. PICK kept, cut : kept = SubSeq(all, k + 1, n) /\ cut = SubSeq(all, 1, k)
  OBVIOUS
<1>4. /\ Len(s) \in Nat /\ Len(b) \in Nat /\ n = Len(s) + Len(b) /\ n \in Nat
      /\ k \in Nat /\ k <= n
      /\ all \in Seq(Nat) /\ DOMAIN s = 1..Len(s) /\ DOMAIN b = 1..Len(b)
      /\ \A i \in 1..n : all[i] = IF i <= Len(s) THEN s[i] ELSE b[i - Len(s)]
  <2>1. all \in Seq(Nat) /\ n = Len(s) + Len(b) /\ n \in Nat
    BY <1>1, <1>2, ConcatProperties
  <2>2. \A i \in 1..n : all[i] = IF i <= Len(s) THEN s[i] ELSE b[i - Len(s)]
    BY <1>1, <1>2, <2>1, ConcatProperties
  <2>3. k \in Nat /\ k <= n
    BY <1>1, <1>2, <2>1
  <2> QED
    BY <2>1, <2>2, <2>3
<1>5. \A i \in 1..Len(s) : i \in 1..n /\ all[i] = s[i]
  BY <1>4
<1>6. \A j \in 1..Len(b) : Len(s) + j \in 1..n /\ all[Len(s) + j] = b[j]
  <2> SUFFICES ASSUME NEW j \in 1..Len(b)
      PROVE  Len(s) + j \in 1..n /\ all[Len(s) + j] = b[j]
    OBVIOUS
  <2>1. Len(s) + j \in 1..n /\ ~(Len(s) + j <= Len(s)) /\ (Len(s) + j) - Len(s) = j
    BY <1>4
  <2>2. all[Len(s) + j] = b[(Len(s) + j) - Len(s)]
    BY <1>4, <2>1
  <2> QED
    BY <2>1, <2>2
<1>7. \A i \in 1..n : i \in 1..Len(s) \/ \E j \in 1..Len(b) : i = Len(s) + j
  <2> SUFFICES ASSUME NEW i \in 1..n, i \notin 1..Len(s)
      PROVE  \E j \in 1..Len(b) : i = Len(s) + j
    OBVIOUS
  <2>1. i - Len(s) \in 1..Len(b) /\ i = Len(s) + (i - Len(s))
    BY <1>4
  <2> QED
    BY <2>1
<1>8. \A i \in 1..n : all[i] \in Nat
  <2>1. all \in Seq(Nat) /\ n = Len(all)
    BY <1>2, <1>4
  <2> QED
    BY <2>1
<1>9. /\ kept \in Seq(Nat) /\ Len(kept) = n - k /\ DOMAIN kept = 1..(n - k)
      /\ \A i \in 1..(n - k) : kept[i] = all[k + i]
  <2>1. \A i \in (k + 1)..n : all[i] \in Nat
    BY <1>4, <1>8
  <2>2. /\ kept \in Seq(Nat) /\ Len(kept) = IF k + 1 <= n THEN n - (k + 1) + 1 ELSE 0
        /\ \A i \in 1..(n - (k + 1) + 1) : kept[i] = all[(k + 1) + i - 1]
    <3>1. k + 1 \in Int /\ n \in Int
      BY <1>4
    <3> QED
      BY <1>3, <2>1, <3>1, SubSeqProperties
  <2>3. Len(kept) = n - k /\ n - (k + 1) + 1 = n - k
    BY <1>4, <2>2
  <2>4. \A i \in 1..(n - k) : (k + 1) + i - 1 = k + i
    BY <1>4
  <2> QED
    BY <2>2, <2>3, <2>4
<1>10. /\ cut \in Seq(Nat) /\ Len(cut) = k /\ DOMAIN cut = 1..k
       /\ \A i \in 1..k : cut[i] = all[i]
  <2>1. \A i \in 1..k : all[i] \in Nat
    BY <1>4, <1>8
  <2>2. /\ cut \in Seq(Nat) /\ Len(cut) = IF 1 <= k THEN k - 1 + 1 ELSE 0
        /\ \A i \in 1..(k - 1 + 1) : cut[i] = all[1 + i - 1]
    <3>1. 1 \in Int /\ k \in Int
      BY <1>4
    <3> QED
      BY <1>3, <2>1, <3>1, SubSeqProperties
  <2>3. Len(cut) = k /\ k - 1 + 1 = k
    BY <1>4, <2>2
  <2>4. \A i \in 1..k : 1 + i - 1 = i
    BY <1>4
  <2> QED
    BY <2>2, <2>3, <2>4
<1>11. \A i, j \in 1..n : all[i] = all[j] => i = j
  <2> SUFFICES ASSUME NEW i \in 1..n, NEW j \in 1..n, all[i] = all[j] PROVE i = j
    OBVIOUS
  <2>1. \A x \in 1..Len(s), y \in 1..Len(b) : s[x] # b[y]
    BY <1>4 DEF ToSet
  <2>2. CASE i \in 1..Len(s) /\ j \in 1..Len(s)
    BY <1>5, <2>2 DEF Distinct
  <2>3. CASE i \notin 1..Len(s) /\ j \notin 1..Len(s)
    <3>1. PICK x \in 1..Len(b), y \in 1..Len(b) : i = Len(s) + x /\ j = Len(s) + y
      BY <1>7, <2>3
    <3>2. b[x] = b[y]
      BY <1>6, <3>1
    <3>3. x = y
      BY <3>2 DEF Distinct
    <3> QED
      BY <3>1, <3>3
  <2>4. \A x, y \in 1..n : x \in 1..Len(s) /\ y \notin 1..Len(s) => all[x] # all[y]
    <3> SUFFICES ASSUME NEW x \in 1..Len(s), NEW y \in 1..n, y \notin 1..Len(s)
        PROVE  all[x] # all[y]
      OBVIOUS
    <3>1. PICK z \in 1..Len(b) : y = Len(s) + z
      BY <1>7
    <3>2. all[x] = s[x] /\ all[y] = b[z]
      BY <1>5, <1>6, <3>1
    <3> QED
      BY <2>1, <3>2
  <2> QED
    BY <2>2, <2>3, <2>4
<1>12. Distinct(kept)
  <2> SUFFICES ASSUME NEW i \in 1..(n - k), NEW j \in 1..(n - k), kept[i] = kept[j]
      PROVE  i = j
    BY <1>9 DEF Distinct
  <2>1. k + i \in 1..n /\ k + j \in 1..n
    BY <1>4
  <2>2. all[k + i] = all[k + j]
    BY <1>9
  <2>3. k + i = k + j
    BY <1>11, <2>1, <2>2
  <2> QED
    BY <1>4, <2>3
<1>13. \A x : x \in ToSet(kept) \union ToSet(cut) <=> \E i \in 1..n : x = all[i]
  <2>1. \A i \in 1..k : i \in 1..n
    BY <1>4
  <2>2. \A i \in 1..(n - k) : k + i \in 1..n
    BY <1>4
  <2>3. ASSUME NEW i \in 1..n PROVE all[i] \in ToSet(kept) \union ToSet(cut)
    <3>1. CASE i \in 1..k
      BY <1>10, <3>1 DEF ToSet
    <3>2. CASE i \notin 1..k
      <4>1. i - k \in 1..(n - k) /\ k + (i - k) = i
        BY <1>4, <3>2
      <4>2. kept[i - k] = all[i]
        BY <1>9, <4>1
      <4> QED
        BY <1>9, <4>1, <4>2 DEF ToSet
    <3> QED
      BY <3>1, <3>2
  <2>4. \A x : x \in ToSet(cut) => \E i \in 1..n : x = all[i]
    BY <1>10, <2>1, InToSet
  <2>5. \A x : x \in ToSet(kept) => \E i \in 1..n : x = all[i]
    <3> SUFFICES ASSUME NEW x \in ToSet(kept) PROVE \E i \in 1..n : x = all[i]
      OBVIOUS
    <3>1. PICK j \in 1..(n - k) : x = kept[j]
      BY <1>9, <2>2, InToSet
    <3>2. k + j \in 1..n /\ x = all[k + j]
      BY <1>9, <2>2, <3>1
    <3> QED
      BY <3>2
  <2> QED
    BY <2>3, <2>4, <2>5
<1>14. \A x : x \in ToSet(s) \union ToSet(b) <=> \E i \in 1..n : x = all[i]
  <2>1. ASSUME NEW i \in 1..n PROVE all[i] \in ToSet(s) \union ToSet(b)
    <3>1. CASE i \in 1..Len(s)
      BY <1>4, <1>5, <3>1, InToSet
    <3>2. CASE i \notin 1..Len(s)
      <4>1. PICK j \in 1..Len(b) : i = Len(s) + j
        BY <1>7, <3>2
      <4> QED
        BY <1>4, <1>6, <4>1, InToSet
    <3> QED
      BY <3>1, <3>2
  <2>2. \A x : x \in ToSet(s) => \E i \in 1..n : x = all[i]
    <3> SUFFICES ASSUME NEW x \in ToSet(s) PROVE \E i \in 1..n : x = all[i]
      OBVIOUS
    <3>1. PICK j \in 1..Len(s) : x = s[j]
      BY <1>4, <1>5, InToSet
    <3>2. j \in 1..n /\ x = all[j]
      BY <1>4, <1>5, <3>1
    <3> QED
      BY <3>2
  <2>3. \A x : x \in ToSet(b) => \E i \in 1..n : x = all[i]
    <3> SUFFICES ASSUME NEW x \in ToSet(b) PROVE \E i \in 1..n : x = all[i]
      OBVIOUS
    <3>1. PICK j \in 1..Len(b) : x = b[j]
      BY <1>4, <1>6, InToSet
    <3>2. Len(s) + j \in 1..n /\ x = all[Len(s) + j]
      BY <1>4, <1>6, <3>1
    <3> QED
      BY <3>2
  <2> QED
    BY <2>1, <2>2, <2>3
<1>15. ToSet(kept) \union ToSet(cut) = ToSet(s) \union ToSet(b)
  BY <1>13, <1>14
<1> QED
  BY <1>1, <1>2, <1>3, <1>9, <1>12, <1>15

(* A step of one goroutine that logs nothing: of the events it has and of   *)
(* those buffered, each stays in one of the two places or is then stored or *)
(* dropped.                                                                 *)
LEMMA AudGoes ==
  ASSUME AudCore, AudShape', UNCHANGED audLogged, NEW a \in AudActors,
         \A b \in AudActors : b # a => audFlushes'[b] = audFlushes[b],
         Distinct(audBuf'), Distinct(audFlushes'[a].events),
         audFlushes'[a].pc \in {"idle", "flush"} => audFlushes'[a].events = <<>>,
         ToSet(audFlushes'[a].events) \cap ToSet(audBuf') = {},
         ToSet(audFlushes'[a].events) \union ToSet(audBuf')
           \subseteq ToSet(audFlushes[a].events) \union ToSet(audBuf),
         ToSet(audFlushes[a].events) \union ToSet(audBuf)
           \subseteq ToSet(audFlushes'[a].events) \union ToSet(audBuf')
                       \union audStored' \union audDropped',
         audStored \subseteq audStored', audDropped \subseteq audDropped'
  PROVE  AudCore'
<1> DEFINE ev(b) == ToSet(audFlushes[b].events)
           ew(b) == ToSet(audFlushes'[b].events)
           buf == ToSet(audBuf)
           bug == ToSet(audBuf')
<1>1. /\ buf \subseteq 1..audLogged
      /\ \A b \in AudActors : ev(b) \subseteq 1..audLogged /\ ev(b) \cap buf = {}
      /\ \A b \in AudActors : audFlushes[b].pc \in {"idle", "flush"} => audFlushes[b].events = <<>>
      /\ \A b \in AudActors : Distinct(audFlushes[b].events)
      /\ \A b, c \in AudActors : b # c => ev(b) \cap ev(c) = {}
      /\ \A e \in 1..audLogged : e \in audStored \union audDropped \union buf
                                 \/ \E b \in AudActors : e \in ev(b)
  BY DEF AudCore, AudOnce
<1>2. \A b \in AudActors : b # a => ew(b) = ev(b)
  OBVIOUS
<1>3. ew(a) \cap bug = {} /\ ew(a) \union bug \subseteq ev(a) \union buf
      /\ ev(a) \union buf \subseteq ew(a) \union bug \union audStored' \union audDropped'
  OBVIOUS
<1>4. \A b \in AudActors : /\ Distinct(audFlushes'[b].events)
                           /\ audFlushes'[b].pc \in {"idle", "flush"} => audFlushes'[b].events = <<>>
  BY <1>1
<1> HIDE DEF ev, ew, buf, bug
<1>5. bug \subseteq 1..audLogged'
  BY <1>1, <1>3
<1>6. \A b \in AudActors : ew(b) \subseteq 1..audLogged' /\ ew(b) \cap bug = {}
  <2> SUFFICES ASSUME NEW b \in AudActors PROVE ew(b) \subseteq 1..audLogged' /\ ew(b) \cap bug = {}
    OBVIOUS
  <2>1. CASE b = a
    BY <1>1, <1>3, <2>1
  <2>2. CASE b # a
    <3>1. ev(b) \cap ev(a) = {} /\ ev(b) \cap buf = {}
      BY <1>1, <2>2
    <3> QED
      BY <1>1, <1>2, <1>3, <2>2, <3>1
  <2> QED
    BY <2>1, <2>2
<1>7. \A b, c \in AudActors : b # c => ew(b) \cap ew(c) = {}
  <2>1. ASSUME NEW b \in AudActors, b # a PROVE ew(b) \cap ew(a) = {}
    <3>1. ev(b) \cap ev(a) = {} /\ ev(b) \cap buf = {} /\ ew(b) = ev(b)
      BY <1>1, <1>2, <2>1
    <3> QED
      BY <1>3, <3>1
  <2> QED
    BY <1>1, <1>2, <2>1
<1>8. \A e \in 1..audLogged' : e \in audStored' \union audDropped' \union bug
                               \/ \E b \in AudActors : e \in ew(b)
  <2> SUFFICES ASSUME NEW e \in 1..audLogged
      PROVE  e \in audStored' \union audDropped' \union bug \/ \E b \in AudActors : e \in ew(b)
    OBVIOUS
  <2>1. CASE e \in audStored \union audDropped
    BY <2>1
  <2>2. CASE e \in buf \/ e \in ev(a)
    BY <1>3, <2>2
  <2>3. ASSUME NEW b \in AudActors, b # a, e \in ev(b)
        PROVE  \E c \in AudActors : e \in ew(c)
    BY <1>2, <2>3
  <2> QED
    BY <1>1, <2>1, <2>2, <2>3
<1>9. AudOnce'
  BY <1>4, <1>5, <1>6, <1>7, <1>8 DEF AudOnce, ew, bug
<1> QED
  BY <1>9 DEF AudCore

(* The same, for a step that keeps the events of a goroutine that has none. *)
LEMMA AudTurns ==
  ASSUME AudCore, UNCHANGED <<audLogged, audBuf, audStored, audDropped>>, NEW a \in AudActors,
         NEW pc \in AudPlaces, audFlushes[a].events = <<>>, Flushing(a, pc, <<>>)
  PROVE  AudCore'
<1>1. AudShape /\ audBuf \in Seq(Nat) /\ Distinct(audBuf)
  BY DEF AudCore, AudShape, AudOnce
<1>2. /\ audFlushes'[a] = [pc |-> pc, events |-> <<>>]
      /\ \A b \in AudActors : b # a => audFlushes'[b] = audFlushes[b]
      /\ audFlushes' \in [AudActors -> [pc : AudPlaces, events : Seq(Nat)]]
  BY <1>1, NoEvents DEF Flushing, AudShape
<1>3. AudShape'
  BY <1>1, <1>2 DEF AudShape
<1>4. audFlushes'[a].events = <<>>
  BY <1>2
<1> QED
  BY <1>1, <1>2, <1>3, <1>4, NoEvents, AudGoes

LEMMA AudLogs ==
  ASSUME AudCore, NEW p \in AudProcs, Log(p)
  PROVE  AudCore'
<1>1. p \in AudActors /\ audFlushes[p].events = <<>> /\ AudShape /\ AudOnce
  BY DEF AudActors, Log, AudCore, AudOnce
<1>2. /\ audLogged \in Nat /\ audLogged' = audLogged + 1 /\ audLogged + 1 \in Nat
      /\ audBuf \in Seq(Nat) /\ audBuf' = Append(audBuf, audLogged + 1)
      /\ audLogged + 1 \notin 1..audLogged /\ UNCHANGED <<audStored, audDropped>>
  BY <1>1 DEF AudShape, Log
<1>3. /\ audBuf' \in Seq(Nat) /\ Distinct(audBuf')
      /\ ToSet(audBuf') = ToSet(audBuf) \union {audLogged + 1}
  <2>1. Distinct(audBuf) /\ audLogged + 1 \notin ToSet(audBuf)
    BY <1>1, <1>2 DEF AudOnce
  <2> QED
    BY <1>2, <2>1, EventAppended
<1>4. /\ audFlushes' \in [AudActors -> [pc : AudPlaces, events : Seq(Nat)]]
      /\ \A a \in AudActors : audFlushes'[a].events = audFlushes[a].events
  <2>1. CASE UNCHANGED audFlushes
    BY <1>1, <2>1 DEF AudShape
  <2>2. CASE Flushing(p, "flush", <<>>)
    <3>1. /\ audFlushes'[p] = [pc |-> "flush", events |-> <<>>]
          /\ \A b \in AudActors : b # p => audFlushes'[b] = audFlushes[b]
          /\ audFlushes' \in [AudActors -> [pc : AudPlaces, events : Seq(Nat)]]
      BY <1>1, <2>2, NoEvents DEF Flushing, AudShape, AudPlaces
    <3>2. audFlushes'[p].events = audFlushes[p].events
      BY <1>1, <3>1
    <3> QED
      BY <3>1, <3>2
  <2> QED
    BY <2>1, <2>2 DEF Log
<1>5. AudShape'
  BY <1>2, <1>3, <1>4 DEF AudShape
<1>6. \A a \in AudActors : /\ Distinct(audFlushes'[a].events)
                           /\ audFlushes'[a].pc \in {"idle", "flush"} => audFlushes'[a].events = <<>>
  <2> SUFFICES ASSUME NEW a \in AudActors
      PROVE  /\ Distinct(audFlushes'[a].events)
             /\ audFlushes'[a].pc \in {"idle", "flush"} => audFlushes'[a].events = <<>>
    OBVIOUS
  <2>1. CASE audFlushes'[a] = audFlushes[a]
    BY <1>1, <2>1 DEF AudOnce
  <2>2. CASE a = p
    BY <1>1, <1>4, <2>2, NoEvents
  <2>3. a # p => audFlushes'[a] = audFlushes[a]
    BY <1>1 DEF Log, Flushing, AudShape
  <2> QED
    BY <2>1, <2>2, <2>3
<1>7. 1..audLogged' = 1..audLogged \union {audLogged + 1}
  BY <1>2
<1>8. ToSet(audBuf') \subseteq 1..audLogged'
  BY <1>1, <1>3, <1>7 DEF AudOnce
<1>9. \A a \in AudActors : /\ ToSet(audFlushes'[a].events) \subseteq 1..audLogged'
                           /\ ToSet(audFlushes'[a].events) \cap ToSet(audBuf') = {}
  <2> SUFFICES ASSUME NEW a \in AudActors
      PROVE  /\ ToSet(audFlushes[a].events) \subseteq 1..audLogged'
             /\ ToSet(audFlushes[a].events) \cap ToSet(audBuf') = {}
    BY <1>4
  <2>1. /\ ToSet(audFlushes[a].events) \subseteq 1..audLogged
        /\ ToSet(audFlushes[a].events) \cap ToSet(audBuf) = {}
    BY <1>1 DEF AudOnce
  <2> QED
    BY <1>2, <1>3, <1>7, <2>1
<1>10. \A a, b \in AudActors :
          a # b => ToSet(audFlushes'[a].events) \cap ToSet(audFlushes'[b].events) = {}
  BY <1>1, <1>4 DEF AudOnce
<1>11. \A e \in 1..audLogged' :
          \/ e \in audStored' \union audDropped' \union ToSet(audBuf')
          \/ \E a \in AudActors : e \in ToSet(audFlushes'[a].events)
  BY <1>1, <1>2, <1>3, <1>4, <1>7 DEF AudOnce
<1>12. AudOnce'
  BY <1>3, <1>6, <1>8, <1>9, <1>10, <1>11 DEF AudOnce
<1> QED
  BY <1>5, <1>12 DEF AudCore

(* flush takes the whole buffer, if there is any.                           *)
LEMMA AudTakes ==
  ASSUME AudCore, NEW a \in AudActors, flushTakes(a)
  PROVE  AudCore'
<1>1. AudShape /\ audBuf \in Seq(Nat) /\ Distinct(audBuf) /\ audFlushes[a].events = <<>>
  BY DEF AudCore, AudShape, AudOnce, flushTakes
<1>2. PICK pc \in AudPlaces :
        /\ pc \in {"idle", "flush"} => audBuf = <<>>
        /\ audFlushes' = [audFlushes EXCEPT ![a] = [pc |-> pc, events |-> audBuf]]
  <2>1. CASE audBuf = <<>>
    BY <2>1 DEF flushTakes, Flushing, AudPlaces
  <2>2. CASE audBuf # <<>>
    BY <2>2 DEF flushTakes, Flushing, AudPlaces
  <2> QED
    BY <2>1, <2>2
<1>3. /\ audFlushes'[a] = [pc |-> pc, events |-> audBuf]
      /\ \A b \in AudActors : b # a => audFlushes'[b] = audFlushes[b]
      /\ audFlushes' \in [AudActors -> [pc : AudPlaces, events : Seq(Nat)]]
  BY <1>1, <1>2 DEF AudShape
<1>4. audFlushes'[a].events = audBuf /\ audFlushes'[a].pc = pc
  BY <1>3
<1>5. audBuf' = <<>> /\ UNCHANGED <<audLogged, audStored, audDropped>>
  BY DEF flushTakes
<1>6. AudShape'
  BY <1>1, <1>3, <1>5, NoEvents DEF AudShape
<1> QED
  BY <1>1, <1>2, <1>3, <1>4, <1>5, <1>6, NoEvents, AudGoes

LEMMA AudWrites ==
  ASSUME AudCore, NEW a \in AudActors, WriteEvents(a)
  PROVE  AudCore'
<1> DEFINE events == audFlushes[a].events
<1>1. /\ AudShape /\ audBuf \in Seq(Nat) /\ Distinct(audBuf)
      /\ events \in Seq(Nat) /\ Distinct(events) /\ ToSet(events) \cap ToSet(audBuf) = {}
  BY DEF AudCore, AudShape, AudOnce
<1>2. UNCHANGED <<audBuf, audLogged, audDropped>> /\ audStored \subseteq audStored'
  BY DEF WriteEvents
<1> HIDE DEF events
<1>3. CASE audStored' = audStored \union ToSet(events) /\ Flushing(a, "idle", <<>>)
  <2>1. /\ audFlushes'[a] = [pc |-> "idle", events |-> <<>>]
        /\ \A b \in AudActors : b # a => audFlushes'[b] = audFlushes[b]
        /\ audFlushes' \in [AudActors -> [pc : AudPlaces, events : Seq(Nat)]]
    BY <1>1, <1>3, NoEvents DEF Flushing, AudShape, AudPlaces
  <2>2. audFlushes'[a].events = <<>>
    BY <2>1
  <2>3. AudShape'
    BY <1>1, <1>2, <2>1 DEF AudShape
  <2> QED
    BY <1>1, <1>2, <1>3, <2>1, <2>2, <2>3, NoEvents, AudGoes DEF events
<1>4. CASE Flushing(a, "failed", events)
  <2>1. /\ audFlushes'[a] = [pc |-> "failed", events |-> events]
        /\ \A b \in AudActors : b # a => audFlushes'[b] = audFlushes[b]
        /\ audFlushes' \in [AudActors -> [pc : AudPlaces, events : Seq(Nat)]]
    BY <1>1, <1>4 DEF Flushing, AudShape, AudPlaces
  <2>2. audFlushes'[a].events = audFlushes[a].events /\ audFlushes'[a].pc = "failed"
    BY <2>1 DEF events
  <2>3. AudShape'
    BY <1>1, <1>2, <2>1 DEF AudShape
  <2> QED
    BY <1>1, <1>2, <2>1, <2>2, <2>3, AudGoes DEF events
<1> QED
  BY <1>3, <1>4 DEF WriteEvents, events

LEMMA AudRebuffers ==
  ASSUME AudCore, NEW a \in AudActors, Rebuffer(a)
  PROVE  AudCore'
<1>1. PICK s : s = audFlushes[a].events
  OBVIOUS
<1>2. /\ AudShape /\ audBuf \in Seq(Nat) /\ Distinct(audBuf)
      /\ s \in Seq(Nat) /\ Distinct(s) /\ ToSet(s) \cap ToSet(audBuf) = {}
  BY <1>1 DEF AudCore, AudShape, AudOnce
<1>3. PICK n : n = Len(s \o audBuf) /\ n \in Nat
  BY <1>2, ConcatProperties
<1>4. PICK over : over = IF n > AudCap THEN n - AudCap ELSE 0
  OBVIOUS
<1>5. over \in 0..Len(s \o audBuf)
  BY <1>3, <1>4, AuditAssumption
<1>6. /\ audBuf' = SubSeq(s \o audBuf, over + 1, Len(s \o audBuf))
      /\ audDropped' = audDropped \union ToSet(SubSeq(s \o audBuf, 1, over))
      /\ Flushing(a, "idle", <<>>) /\ UNCHANGED <<audLogged, audStored>>
  BY <1>1, <1>3, <1>4 DEF Rebuffer
<1>7. /\ audBuf' \in Seq(Nat) /\ Distinct(audBuf')
      /\ ToSet(audBuf') \union ToSet(SubSeq(s \o audBuf, 1, over)) = ToSet(s) \union ToSet(audBuf)
  BY <1>2, <1>5, <1>6, EventsCut
<1>8. /\ audFlushes'[a] = [pc |-> "idle", events |-> <<>>]
      /\ \A b \in AudActors : b # a => audFlushes'[b] = audFlushes[b]
      /\ audFlushes' \in [AudActors -> [pc : AudPlaces, events : Seq(Nat)]]
  BY <1>2, <1>6, NoEvents DEF Flushing, AudShape, AudPlaces
<1>9. audFlushes'[a].events = <<>>
  BY <1>8
<1>10. AudShape'
  BY <1>2, <1>6, <1>7, <1>8 DEF AudShape
<1>11. /\ ToSet(audBuf') \subseteq ToSet(s) \union ToSet(audBuf)
       /\ ToSet(s) \union ToSet(audBuf) \subseteq ToSet(audBuf') \union audDropped'
  BY <1>6, <1>7
<1> QED
  BY <1>1, <1>6, <1>7, <1>8, <1>9, <1>10, <1>11, NoEvents, AudGoes

LEMMA AudOthers ==
  ASSUME AuditIInv, flushLoop \/ CloseLogger \/ UNCHANGED audVars \/ \E p \in AudProcs : Query(p)
  PROVE  AudCore'
<1>1. UNCHANGED <<audBuf, audLogged, audStored, audDropped>> /\ AudCore
  BY DEF flushLoop, CloseLogger, Query, audVars, AuditIInv
<1>2. CASE UNCHANGED audFlushes
  BY <1>1, <1>2 DEF AudCore, AudShape, AudOnce
<1>3. CASE Flushing("loop", "flush", <<>>) /\ audFlushes["loop"].pc = "idle"
  <2>1. "loop" \in AudActors /\ audFlushes["loop"].events = <<>> /\ "flush" \in AudPlaces
    BY <1>1, <1>3 DEF AudActors, AudCore, AudOnce, AudPlaces
  <2> QED
    BY <1>1, <1>3, <2>1, AudTurns
<1>4. CASE Flushing("close", "flush", <<>>) /\ audFlushes["close"].pc = "idle"
  <2>1. "close" \in AudActors /\ audFlushes["close"].events = <<>> /\ "flush" \in AudPlaces
    BY <1>1, <1>4 DEF AudActors, AudCore, AudOnce, AudPlaces
  <2> QED
    BY <1>1, <1>4, <2>1, AudTurns
<1>5. ASSUME NEW p \in AudProcs, Query(p)
      PROVE  AudCore'
  <2>1. p \in AudActors /\ audFlushes[p].events = <<>> /\ "flush" \in AudPlaces
    BY <1>1, <1>5 DEF AudActors, AudCore, AudOnce, AudPlaces, Query
  <2> QED
    BY <1>1, <1>5, <2>1, AudTurns DEF Query
<1>6. CASE flushLoop
  BY <1>2, <1>3, <1>6 DEF flushLoop
<1>7. CASE CloseLogger
  BY <1>2, <1>4, <1>7 DEF CloseLogger, AuditIInv, AudLast
<1> QED
  BY <1>2, <1>5, <1>6, <1>7 DEF audVars

LEMMA AudLastKept ==
  ASSUME AuditIInv, [AuditNext]_audVars
  PROVE  AudLast'
<1> SUFFICES ASSUME audClosed' \in {"no", "waits"}
    PROVE  audFlushes'["close"].pc = "idle"
  BY DEF AudLast
<1>1. "close" \in AudActors /\ "close" \notin AudProcs /\ AudShape
  BY AuditAssumption DEF AudActors, AuditIInv, AudCore
<1>2. ASSUME audClosed \in {"no", "waits"}
      PROVE  audFlushes["close"].pc = "idle"
  BY <1>2 DEF AuditIInv, AudLast
<1>3. ASSUME NEW a \in AudActors, a # "close", NEW pc, NEW events, Flushing(a, pc, events)
      PROVE  audFlushes'["close"] = audFlushes["close"]
  BY <1>1, <1>3 DEF Flushing, AudShape
<1>4. ASSUME NEW p \in AudProcs, Log(p) \/ Query(p)
      PROVE  audFlushes'["close"].pc = "idle"
  <2>1. p \in AudActors /\ p # "close" /\ UNCHANGED audClosed
    BY <1>1, <1>4 DEF AudActors, Log, Query
  <2> QED
    BY <1>2, <1>3, <1>4, <2>1 DEF Log, Query
<1>5. ASSUME NEW a \in AudActors, flushTakes(a) \/ WriteEvents(a) \/ Rebuffer(a)
      PROVE  audFlushes'["close"].pc = "idle"
  <2>1. UNCHANGED audClosed /\ audFlushes[a].pc # "idle"
    BY <1>5 DEF flushTakes, WriteEvents, Rebuffer
  <2>2. a # "close"
    BY <1>2, <2>1
  <2> QED
    BY <1>2, <1>3, <1>5, <2>1, <2>2 DEF flushTakes, WriteEvents, Rebuffer
<1>6. CASE flushLoop
  <2>1. "loop" \in AudActors /\ "loop" # "close" /\ UNCHANGED audClosed
    BY <1>6 DEF AudActors, flushLoop
  <2> QED
    BY <1>2, <1>3, <1>6, <2>1 DEF flushLoop
<1>7. CASE CloseLogger
  BY <1>2, <1>7 DEF CloseLogger
<1>8. CASE UNCHANGED audVars
  BY <1>2, <1>8 DEF audVars
<1> QED
  BY <1>4, <1>5, <1>6, <1>7, <1>8 DEF AuditNext

LEMMA AudCoreGives ==
  ASSUME AudCore
  PROVE  EventsAccounted
<1> SUFFICES ASSUME NEW e \in 1..audLogged
    PROVE  LET places == Cardinality({a \in AudActors : e \in ToSet(audFlushes[a].events)})
                           + Cardinality({i \in DOMAIN audBuf : audBuf[i] = e}) IN
           /\ places <= 1
           /\ e \notin audStored \union audDropped => places = 1
  BY DEF EventsAccounted
<1> DEFINE A == {a \in AudActors : e \in ToSet(audFlushes[a].events)}
           B == {i \in DOMAIN audBuf : audBuf[i] = e}
<1>1. AudShape /\ AudOnce /\ DOMAIN audBuf = 1..Len(audBuf)
  BY DEF AudCore, AudShape
<1>2. \A a, b \in A : a = b
  BY <1>1 DEF AudOnce
<1>3. \A i, j \in B : i = j
  BY <1>1 DEF AudOnce, Distinct
<1>4. A # {} => B = {}
  <2>1. B # {} => e \in ToSet(audBuf)
    BY DEF ToSet
  <2> QED
    BY <1>1, <2>1 DEF AudOnce
<1>5. e \notin audStored \union audDropped => A # {} \/ B # {}
  <2>1. e \in ToSet(audBuf) => B # {}
    BY DEF ToSet
  <2> QED
    BY <1>1, <2>1 DEF AudOnce
<1> HIDE DEF A, B
<1>6. A = {} \/ \E a : A = {a}
  <2> SUFFICES ASSUME A # {} PROVE \E a : A = {a}
    OBVIOUS
  <2>1. PICK a : a \in A
    OBVIOUS
  <2>2. A = {a}
    BY <1>2, <2>1
  <2> QED
    BY <2>2
<1>7. B = {} \/ \E i : B = {i}
  <2> SUFFICES ASSUME B # {} PROVE \E i : B = {i}
    OBVIOUS
  <2>1. PICK i : i \in B
    OBVIOUS
  <2>2. B = {i}
    BY <1>3, <2>1
  <2> QED
    BY <2>2
<1>8. /\ A = {} => Cardinality(A) = 0
      /\ A # {} => Cardinality(A) = 1
      /\ B = {} => Cardinality(B) = 0
      /\ B # {} => Cardinality(B) = 1
  BY <1>6, <1>7, FS_EmptySet, FS_Singleton
<1>9. /\ Cardinality(A) + Cardinality(B) <= 1
      /\ e \notin audStored \union audDropped => Cardinality(A) + Cardinality(B) = 1
  BY <1>4, <1>5, <1>8
<1> QED
  BY <1>9 DEF A, B

(* The invariant of the audit log is inductive.                             *)
LEMMA AuditInductive == AuditSpec => []AuditIInv
<1>1. AuditInit => AuditIInv
  <2> SUFFICES ASSUME AuditInit PROVE AuditIInv
    OBVIOUS
  <2>1. AudShape
    BY NoEvents DEF AuditInit, AudShape, NoFlush, AudPlaces
  <2>2. AudOnce
    BY NoEvents DEF AuditInit, AudOnce, NoFlush
  <2>3. AudLast
    BY DEF AuditInit, AudLast, NoFlush, AudActors
  <2> QED
    BY <2>1, <2>2, <2>3 DEF AuditIInv, AudCore
<1>2. AuditIInv /\ [AuditNext]_audVars => AuditIInv'
  <2> SUFFICES ASSUME AuditIInv, [AuditNext]_audVars PROVE AudCore'
    BY AudLastKept DEF AuditIInv
  <2>1. AudCore
    BY DEF AuditIInv
  <2> QED
    BY <2>1, AudLogs, AudTakes, AudWrites, AudRebuffers, AudOthers DEF AuditNext
<1> QED
  BY <1>1, <1>2, PTL DEF AuditSpec

(* Whatever flushes of loggers, queries, the loop and Close overlap and     *)
(* fail, for any number of goroutines, any batch size and any cap, an event *)
(* of security/audit/audit.go is in the buffer or in one flush until it is  *)
(* stored, or was dropped over the cap; never in two places.                *)
THEOREM AuditLosesNone == AuditSpec => []EventsAccounted
<1>1. AuditIInv => EventsAccounted
  BY AudCoreGives DEF AuditIInv
<1> QED
  BY <1>1, AuditInductive, PTL

-----------------------------------------------------------------------------
(* The bounds of the audit log's state.                                     *)

AudBounded ==
    /\ audLogged \in 0..AudMaxEvents
    /\ audStored \union audDropped \subseteq 1..audLogged
    /\ audLoop \in {"runs", "stop", "done"} /\ audClosed \in {"no", "waits", "flushes", "yes"}

(* Every step keeps them.                                                   *)
LEMMA AuditBoundedStep ==
  ASSUME AuditIInv, AudBounded, [AuditNext]_audVars
  PROVE  AudBounded'
<1>1. /\ audLogged \in 0..AudMaxEvents
      /\ audStored \union audDropped \subseteq 1..audLogged
      /\ audLoop \in {"runs", "stop", "done"} /\ audClosed \in {"no", "waits", "flushes", "yes"}
      /\ ToSet(audBuf) \subseteq 1..audLogged /\ audBuf \in Seq(Nat) /\ Distinct(audBuf)
      /\ \A a \in AudActors : /\ ToSet(audFlushes[a].events) \subseteq 1..audLogged
                              /\ audFlushes[a].events \in Seq(Nat)
                              /\ Distinct(audFlushes[a].events)
                              /\ ToSet(audFlushes[a].events) \cap ToSet(audBuf) = {}
  BY DEF AuditIInv, AudCore, AudShape, AudOnce, AudBounded
<1>2. CASE UNCHANGED audVars
  BY <1>1, <1>2 DEF audVars, AudBounded
<1>3. ASSUME NEW p \in AudProcs, Log(p) PROVE AudBounded'
  <2>1. /\ audLogged' = audLogged + 1 /\ audLogged < AudMaxEvents
        /\ UNCHANGED <<audLoop, audClosed, audStored, audDropped>>
    BY <1>3 DEF Log
  <2>2. audLogged' \in 0..AudMaxEvents /\ 1..audLogged \subseteq 1..audLogged'
    BY <1>1, <2>1, AuditAssumption
  <2> QED
    BY <1>1, <2>1, <2>2 DEF AudBounded
<1>4. ASSUME NEW p \in AudProcs, Query(p) PROVE AudBounded'
  BY <1>1, <1>4 DEF Query, AudBounded
<1>5. ASSUME NEW a \in AudActors, flushTakes(a) PROVE AudBounded'
  BY <1>1, <1>5 DEF flushTakes, AudBounded
<1>6. ASSUME NEW a \in AudActors, WriteEvents(a) PROVE AudBounded'
  <2>1. /\ audStored' \in {audStored, audStored \union ToSet(audFlushes[a].events)}
        /\ UNCHANGED <<audLoop, audClosed, audLogged, audDropped>>
    BY <1>6, Zenon DEF WriteEvents
  <2> QED
    BY <1>1, <2>1 DEF AudBounded
<1>7. ASSUME NEW a \in AudActors, Rebuffer(a) PROVE AudBounded'
  <2>1. PICK s, k : /\ s = audFlushes[a].events
                    /\ k = IF Len(s \o audBuf) > AudCap THEN Len(s \o audBuf) - AudCap ELSE 0
    OBVIOUS
  <2>2. /\ audDropped' = audDropped \union ToSet(SubSeq(s \o audBuf, 1, k))
        /\ UNCHANGED <<audLoop, audClosed, audLogged, audStored>>
    BY <1>7, <2>1, Zenon DEF Rebuffer
  <2>3. k \in 0..Len(s \o audBuf)
    <3>1. s \o audBuf \in Seq(Nat)
      BY <1>1, <2>1
    <3>2. PICK n : n = Len(s \o audBuf)
      OBVIOUS
    <3>3. n \in Nat
      BY <3>1, <3>2
    <3> QED
      BY <2>1, <3>2, <3>3, AuditAssumption
  <2>4. ToSet(SubSeq(s \o audBuf, 1, k)) \subseteq ToSet(s) \union ToSet(audBuf)
    <3>1. s \in Seq(Nat) /\ Distinct(s) /\ ToSet(s) \cap ToSet(audBuf) = {}
      BY <1>1, <2>1
    <3>2. audBuf \in Seq(Nat) /\ Distinct(audBuf)
      BY <1>1
    <3>3. ToSet(SubSeq(s \o audBuf, k + 1, Len(s \o audBuf))) \union ToSet(SubSeq(s \o audBuf, 1, k))
            = ToSet(s) \union ToSet(audBuf)
      BY <2>3, <3>1, <3>2, EventsCut
    <3> QED
      BY <3>3
  <2> QED
    BY <1>1, <2>1, <2>2, <2>4 DEF AudBounded
<1>8. CASE flushLoop
  BY <1>1, <1>8 DEF flushLoop, AudBounded
<1>9. CASE CloseLogger
  <2>1. /\ audClosed' \in {"waits", "flushes", "yes"} /\ audLoop' \in {audLoop, "stop"}
        /\ UNCHANGED <<audLogged, audStored, audDropped>>
    BY <1>9, Zenon DEF CloseLogger
  <2> QED
    BY <1>1, <2>1 DEF AudBounded
<1> QED
  BY <1>2, <1>3, <1>4, <1>5, <1>6, <1>7, <1>8, <1>9 DEF AuditNext

(* The audit log keeps its types: it buffers, stores and drops only events  *)
(* that were logged.                                                        *)
LEMMA AuditTypes == AuditSpec => []AuditTypeOK
<1>1. AuditInit => AudBounded
  BY AuditAssumption DEF AuditInit, AudBounded
<1>2. AuditIInv /\ AudBounded /\ [AuditNext]_audVars => AudBounded'
  BY AuditBoundedStep
<1>3. AuditIInv /\ AudBounded => AuditTypeOK
  BY DEF AuditIInv, AudCore, AudShape, AudOnce, AudPlaces, AudBounded, AuditTypeOK
<1> QED
  BY <1>1, <1>2, <1>3, AuditInductive, PTL DEF AuditSpec

-----------------------------------------------------------------------------
(* The subscriptions of the resolver.                                       *)

SubChanRecs == [key : SubKeys, events : Nat, state : {"open", "done", "removed", "closed"}]

(* A channel that may be in a list or before a publisher.                   *)
SubListed(c) == c \in 1..Len(subChans) /\ subChans[c].state \in {"open", "done"}

HubShape ==
    /\ subChans \in Seq(SubChanRecs) /\ subLists \in [SubKeys -> Seq(Nat)]
    /\ subPubs \in [SubPublishers -> [pc : {"idle", "sends"}, todo : Seq(Nat)]]

(* A channel is in the list of its key alone, and there once; it is neither *)
(* removed nor closed while it is there or while a publisher, who has the   *)
(* read lock, still goes to it.                                             *)
HubOpen ==
    /\ \A k \in SubKeys : /\ Distinct(subLists[k])
                          /\ \A c \in ToSet(subLists[k]) : SubListed(c) /\ subChans[c].key = k
    /\ \A p \in SubPublishers : /\ subPubs[p].pc = "idle" => subPubs[p].todo = <<>>
                                /\ \A c \in ToSet(subPubs[p].todo) : SubListed(c)

HubIInv == HubShape /\ HubOpen

(* Removing the first occurrence of c from a list that has it once.         *)
LEMMA FirstRemoved ==
  ASSUME NEW s \in Seq(Nat), NEW c, Distinct(s)
  PROVE  /\ RemoveFirst(s, c) \in Seq(Nat) /\ Distinct(RemoveFirst(s, c))
         /\ ToSet(RemoveFirst(s, c)) \subseteq ToSet(s) \ {c}
<1>1. CASE ~\E i \in 1..Len(s) : s[i] = c
  <2>1. RemoveFirst(s, c) = s
    BY <1>1 DEF RemoveFirst
  <2>2. c \notin ToSet(s)
    BY <1>1 DEF ToSet
  <2> QED
    BY <2>1, <2>2
<1>2. CASE \E i \in 1..Len(s) : s[i] = c
  <2>1. PICK i \in 1..Len(s) : s[i] = c
    BY <1>2
  <2>2. {j \in 1..Len(s) : s[j] = c} = {i}
    BY <2>1 DEF Distinct
  <2>3. Min({i}) = i
    BY DEF Min
  <2>4. RemoveFirst(s, c) = RemoveAt(s, i)
    BY <1>2, <2>2, <2>3 DEF RemoveFirst, SelectInSeq
  <2>5. PICK n : n = Len(s) /\ n \in Nat
    OBVIOUS
  <2>6. PICK a, b, r : /\ a = SubSeq(s, 1, i - 1) /\ b = SubSeq(s, i + 1, n) /\ r = a \o b
                       /\ RemoveFirst(s, c) = r
    BY <2>4, <2>5 DEF RemoveAt
  <2>7. \A j \in 1..n : s[j] \in Nat
    BY <2>5
  <2>8. a \in Seq(Nat) /\ Len(a) = i - 1 /\ \A j \in 1..(i - 1) : a[j] = s[j]
    <3>1. 1 \in Int /\ i - 1 \in Int /\ \A j \in 1..(i - 1) : s[j] \in Nat
      BY <2>1, <2>5, <2>7
    <3>2. /\ a \in Seq(Nat) /\ Len(a) = IF 1 <= i - 1 THEN (i - 1) - 1 + 1 ELSE 0
          /\ \A j \in 1..((i - 1) - 1 + 1) : a[j] = s[1 + j - 1]
      BY <2>6, <3>1, SubSeqProperties
    <3>3. Len(a) = i - 1 /\ (i - 1) - 1 + 1 = i - 1 /\ \A j \in 1..(i - 1) : 1 + j - 1 = j
      BY <2>1, <2>5, <3>2
    <3> QED
      BY <3>2, <3>3
  <2>9. b \in Seq(Nat) /\ Len(b) = n - i /\ \A j \in 1..(n - i) : b[j] = s[i + j]
    <3>1. PICK m : m = i + 1
      OBVIOUS
    <3>2. m \in Int /\ n \in Int /\ (\A j \in m..n : s[j] \in Nat) /\ b = SubSeq(s, m, n)
      BY <2>1, <2>5, <2>6, <2>7, <3>1
    <3>3. /\ SubSeq(s, m, n) \in Seq(Nat) /\ Len(SubSeq(s, m, n)) = IF m <= n THEN n - m + 1 ELSE 0
          /\ \A j \in 1..(n - m + 1) : SubSeq(s, m, n)[j] = s[m + j - 1]
      BY <3>2, SubSeqProperties
    <3>4. /\ b \in Seq(Nat) /\ Len(b) = IF m <= n THEN n - m + 1 ELSE 0
          /\ \A j \in 1..(n - m + 1) : b[j] = s[m + j - 1]
      BY <3>2, <3>3, Zenon
    <3>5. Len(b) = n - i /\ n - m + 1 = n - i /\ \A j \in 1..(n - i) : m + j - 1 = i + j
      BY <2>1, <2>5, <3>1, <3>4
    <3> QED
      BY <3>4, <3>5
  <2>10. /\ r \in Seq(Nat) /\ Len(r) = n - 1 /\ DOMAIN r = 1..(n - 1)
         /\ \A j \in 1..(n - 1) : r[j] = IF j <= i - 1 THEN a[j] ELSE b[j - (i - 1)]
    <3>1. /\ r \in Seq(Nat) /\ Len(r) = Len(a) + Len(b)
          /\ \A j \in 1..(Len(a) + Len(b)) : r[j] = IF j <= Len(a) THEN a[j] ELSE b[j - Len(a)]
      BY <2>6, <2>8, <2>9, ConcatProperties
    <3>2. Len(a) + Len(b) = n - 1
      BY <2>1, <2>5, <2>8, <2>9
    <3> QED
      BY <2>8, <3>1, <3>2
  <2>11. \A j \in 1..(n - 1) : \E x \in 1..n : /\ r[j] = s[x] /\ x # i
                                               /\ x = IF j <= i - 1 THEN j ELSE j + 1
    <3> SUFFICES ASSUME NEW j \in 1..(n - 1)
        PROVE  \E x \in 1..n : r[j] = s[x] /\ x # i /\ x = IF j <= i - 1 THEN j ELSE j + 1
      OBVIOUS
    <3>1. CASE j <= i - 1
      <4>1. j \in 1..(i - 1) /\ j \in 1..n /\ j # i
        BY <2>1, <2>5, <3>1
      <4> QED
        BY <2>8, <2>10, <3>1, <4>1
    <3>2. CASE ~(j <= i - 1)
      <4>1. /\ j - (i - 1) \in 1..(n - i) /\ i + (j - (i - 1)) = j + 1 /\ j + 1 \in 1..n
            /\ j + 1 # i
        BY <2>1, <2>5, <3>2
      <4>2. r[j] = b[j - (i - 1)]
        BY <2>10, <3>2
      <4>3. r[j] = s[j + 1]
        BY <2>9, <4>1, <4>2
      <4> QED
        BY <3>2, <4>1, <4>3
    <3> QED
      BY <3>1, <3>2
  <2>12. Distinct(r)
    <3> SUFFICES ASSUME NEW j \in 1..(n - 1), NEW k \in 1..(n - 1), r[j] = r[k] PROVE j = k
      BY <2>10 DEF Distinct
    <3>1. PICK x \in 1..n : r[j] = s[x] /\ x = IF j <= i - 1 THEN j ELSE j + 1
      BY <2>11
    <3>2. PICK y \in 1..n : r[k] = s[y] /\ y = IF k <= i - 1 THEN k ELSE k + 1
      BY <2>11
    <3>3. x = y
      BY <2>5, <3>1, <3>2 DEF Distinct
    <3>4. j \in Int /\ k \in Int /\ i \in Int
      BY <2>1, <2>5
    <3>5. CASE j <= i - 1
      BY <3>1, <3>2, <3>3, <3>4, <3>5
    <3>6. CASE ~(j <= i - 1)
      BY <3>1, <3>2, <3>3, <3>4, <3>6
    <3> QED
      BY <3>5, <3>6
  <2>13. ToSet(r) \subseteq ToSet(s) \ {c}
    <3> SUFFICES ASSUME NEW e \in ToSet(r) PROVE e \in ToSet(s) /\ e # c
      OBVIOUS
    <3>1. PICK j \in 1..(n - 1) : e = r[j]
      <4>1. PICK j \in DOMAIN r : e = r[j]
        BY InToSet
      <4> QED
        BY <2>10, <4>1
    <3>2. PICK x \in 1..n : e = s[x] /\ x # i
      BY <2>11, <3>1
    <3>3. e # c
      BY <2>1, <2>5, <3>2 DEF Distinct
    <3>4. x \in DOMAIN s
      BY <2>5, <3>2
    <3> QED
      BY <3>2, <3>3, <3>4, InToSet
  <2> QED
    BY <2>6, <2>10, <2>12, <2>13
<1> QED
  BY <1>1, <1>2

LEMMA InConcat ==
  ASSUME NEW s \in Seq(Nat), NEW b \in Seq(Nat)
  PROVE  s \o b \in Seq(Nat) /\ ToSet(s \o b) \subseteq ToSet(s) \union ToSet(b)
<1>1. PICK r : r = s \o b
  OBVIOUS
<1>2. /\ r \in Seq(Nat) /\ Len(r) = Len(s) + Len(b) /\ Len(s) \in Nat /\ Len(b) \in Nat
      /\ \A i \in 1..(Len(s) + Len(b)) : r[i] = IF i <= Len(s) THEN s[i] ELSE b[i - Len(s)]
  BY <1>1, ConcatProperties
<1>3. ASSUME NEW c \in ToSet(r) PROVE c \in ToSet(s) \union ToSet(b)
  <2>1. PICK i \in DOMAIN r : c = r[i]
    BY InToSet
  <2>2. i \in 1..(Len(s) + Len(b))
    BY <1>2, <2>1
  <2>3. CASE i <= Len(s)
    <3>1. i \in DOMAIN s /\ c = s[i]
      BY <1>2, <2>1, <2>2, <2>3
    <3> QED
      BY <3>1, InToSet
  <2>4. CASE ~(i <= Len(s))
    <3>1. i - Len(s) \in DOMAIN b
      BY <1>2, <2>2, <2>4
    <3>2. c = b[i - Len(s)]
      BY <1>2, <2>1, <2>2, <2>4
    <3> QED
      BY <3>1, <3>2, InToSet
  <2> QED
    BY <2>3, <2>4
<1> QED
  BY <1>1, <1>2, <1>3

(* A step that keeps the lists, removes no channel that may be listed and   *)
(* gives publishers only listed channels.                                   *)
LEMMA HubKeeps ==
  ASSUME HubIInv, HubShape', UNCHANGED subLists,
         \A c : SubListed(c) => SubListed(c)' /\ subChans'[c].key = subChans[c].key,
         \A p \in SubPublishers :
            /\ subPubs'[p].pc = "idle" => subPubs'[p].todo = <<>>
            /\ \A c \in ToSet(subPubs'[p].todo) : SubListed(c)
  PROVE  HubIInv'
<1>1. \A k \in SubKeys : /\ Distinct(subLists'[k])
                         /\ \A c \in ToSet(subLists'[k]) : SubListed(c)' /\ subChans'[c].key = k
  BY DEF HubIInv, HubOpen
<1>2. HubOpen'
  BY <1>1 DEF HubOpen
<1> QED
  BY <1>2 DEF HubIInv

(* One channel changes, nothing else.                                       *)
LEMMA HubChannel ==
  ASSUME HubIInv, NEW c \in DOMAIN subChans, NEW r \in SubChanRecs,
         subChans' = [subChans EXCEPT ![c] = r], r.key = subChans[c].key,
         subChans[c].state \in {"open", "done"} => r.state \in {"open", "done"},
         UNCHANGED <<subLists, subPubs>>
  PROVE  HubIInv'
<1>1. /\ subChans \in Seq(SubChanRecs) /\ subChans' \in Seq(SubChanRecs)
      /\ Len(subChans') = Len(subChans) /\ subChans'[c] = r
      /\ \A d \in 1..Len(subChans) : d # c => subChans'[d] = subChans[d]
  BY DEF HubIInv, HubShape
<1>2. HubShape'
  BY <1>1 DEF HubIInv, HubShape
<1>3. \A d : SubListed(d) => SubListed(d)' /\ subChans'[d].key = subChans[d].key
  BY <1>1 DEF SubListed
<1>4. \A p \in SubPublishers :
         /\ subPubs'[p].pc = "idle" => subPubs'[p].todo = <<>>
         /\ \A d \in ToSet(subPubs'[p].todo) : SubListed(d)
  BY DEF HubIInv, HubOpen
<1> QED
  BY <1>2, <1>3, <1>4, HubKeeps

LEMMA HubSteps ==
  ASSUME HubIInv, NEW c \in DOMAIN subChans,
         SubscriberLeaves(c) \/ SubscriptionClosed(c) \/ SubscriberReceives(c)
  PROVE  HubIInv'
<1>1. subChans \in Seq(SubChanRecs) /\ subChans[c] \in SubChanRecs
  BY DEF HubIInv, HubShape
<1>2. CASE SubscriberReceives(c)
  <2> DEFINE r == [subChans[c] EXCEPT !.events = @ - 1]
  <2>1. r \in SubChanRecs /\ r.key = subChans[c].key /\ r.state = subChans[c].state
    <3>1. subChans[c].events > 0 /\ subChans[c].events \in Nat
      BY <1>1, <1>2 DEF SubChanRecs, SubscriberReceives
    <3>2. subChans[c].events - 1 \in Nat
      BY <3>1
    <3> QED
      BY <1>1, <3>2 DEF SubChanRecs
  <2>2. subChans' = [subChans EXCEPT ![c] = r] /\ UNCHANGED <<subLists, subPubs>>
    BY <1>1, <1>2 DEF SubscriberReceives
  <2> HIDE DEF r
  <2> QED
    BY <2>1, <2>2, HubChannel
<1>3. CASE SubscriberLeaves(c) \/ SubscriptionClosed(c)
  <2>1. PICK state \in {"done", "closed"} :
          /\ subChans' = [subChans EXCEPT ![c].state = state] /\ UNCHANGED <<subLists, subPubs>>
          /\ subChans[c].state \in {"open", "done"} => state = "done"
    <3>1. CASE SubscriberLeaves(c)
      BY <3>1 DEF SubscriberLeaves, SubChange
    <3>2. CASE SubscriptionClosed(c)
      BY <3>2 DEF SubscriptionClosed, SubChange
    <3> QED
      BY <1>3, <3>1, <3>2
  <2> DEFINE r == [subChans[c] EXCEPT !.state = state]
  <2>2. r \in SubChanRecs /\ r.key = subChans[c].key /\ r.state = state
    BY <1>1 DEF SubChanRecs
  <2>3. subChans' = [subChans EXCEPT ![c] = r]
    BY <1>1, <2>1
  <2> HIDE DEF r
  <2> QED
    BY <2>1, <2>2, <2>3, HubChannel
<1> QED
  BY <1>2, <1>3

LEMMA HubPublishes ==
  ASSUME HubIInv, NEW p \in SubPublishers, PublishSyncStatus(p) \/ PublishSyncRunProgress(p)
  PROVE  HubIInv'
<1>1. PICK channels \in Seq(Nat) :
        Publish(p, channels) /\ \A c \in ToSet(channels) : SubListed(c)
  <2>1. subLists \in [SubKeys -> Seq(Nat)] /\ {"*", "sync", "run"} \subseteq SubKeys
    BY DEF HubIInv, HubShape, SubKeys
  <2>2. \A k \in SubKeys : \A c \in ToSet(subLists[k]) : SubListed(c)
    BY DEF HubIInv, HubOpen
  <2>3. CASE PublishSyncRunProgress(p)
    BY <2>1, <2>2, <2>3 DEF PublishSyncRunProgress
  <2>4. CASE PublishSyncStatus(p)
    <3> DEFINE s == subLists["sync"]
               b == subLists["*"]
    <3>1. s \in Seq(Nat) /\ b \in Seq(Nat)
      BY <2>1
    <3>2. s \o b \in Seq(Nat) /\ ToSet(s \o b) \subseteq ToSet(s) \union ToSet(b)
      BY <3>1, InConcat
    <3>4. \A c \in ToSet(s \o b) : SubListed(c)
      BY <2>1, <2>2, <3>2
    <3> QED
      BY <2>4, <3>2, <3>4 DEF PublishSyncStatus
  <2> QED
    BY <2>3, <2>4
<1>2. /\ subPubs \in [SubPublishers -> [pc : {"idle", "sends"}, todo : Seq(Nat)]]
      /\ subPubs' = [subPubs EXCEPT ![p] = [pc |-> "sends", todo |-> channels]]
      /\ UNCHANGED <<subLists, subChans>>
  BY <1>1 DEF HubIInv, HubShape, Publish
<1>3. /\ subPubs' \in [SubPublishers -> [pc : {"idle", "sends"}, todo : Seq(Nat)]]
      /\ subPubs'[p].pc = "sends" /\ subPubs'[p].todo = channels
      /\ \A q \in SubPublishers : q # p => subPubs'[q] = subPubs[q]
  BY <1>1, <1>2
<1>4. HubShape'
  BY <1>2, <1>3 DEF HubIInv, HubShape
<1>5. \A c : SubListed(c) => SubListed(c)' /\ subChans'[c].key = subChans[c].key
  BY <1>2 DEF SubListed
<1>6. \A q \in SubPublishers :
         /\ subPubs'[q].pc = "idle" => subPubs'[q].todo = <<>>
         /\ \A c \in ToSet(subPubs'[q].todo) : SubListed(c)
  <2> SUFFICES ASSUME NEW q \in SubPublishers
      PROVE  /\ subPubs'[q].pc = "idle" => subPubs'[q].todo = <<>>
             /\ \A c \in ToSet(subPubs'[q].todo) : SubListed(c)
    OBVIOUS
  <2>1. CASE q = p
    BY <1>1, <1>3, <2>1
  <2>2. CASE q # p
    BY <1>3, <2>2 DEF HubIInv, HubOpen
  <2> QED
    BY <2>1, <2>2
<1> QED
  BY <1>2, <1>4, <1>5, <1>6, HubKeeps

LEMMA HubSends ==
  ASSUME HubIInv, NEW p \in SubPublishers, PublishSends(p)
  PROVE  HubIInv'
<1>1. /\ subPubs \in [SubPublishers -> [pc : {"idle", "sends"}, todo : Seq(Nat)]]
      /\ subChans \in Seq(SubChanRecs) /\ UNCHANGED subLists
      /\ subPubs[p].pc = "sends" /\ subPubs[p].todo \in Seq(Nat)
  BY DEF HubIInv, HubShape, PublishSends
<1>2. \A q \in SubPublishers : /\ subPubs[q].pc = "idle" => subPubs[q].todo = <<>>
                               /\ \A c \in ToSet(subPubs[q].todo) : SubListed(c)
  BY DEF HubIInv, HubOpen
<1>3. CASE subPubs[p].todo = <<>>
  <2>1. subPubs' = [subPubs EXCEPT ![p] = NotPublishing] /\ UNCHANGED subChans
    BY <1>3 DEF PublishSends
  <2>2. /\ subPubs' \in [SubPublishers -> [pc : {"idle", "sends"}, todo : Seq(Nat)]]
        /\ subPubs'[p].todo = <<>>
        /\ \A q \in SubPublishers : q # p => subPubs'[q] = subPubs[q]
    BY <1>1, <2>1, NoEvents DEF NotPublishing
  <2>3. HubShape'
    BY <1>1, <2>1, <2>2 DEF HubIInv, HubShape
  <2>4. \A c : SubListed(c) => SubListed(c)' /\ subChans'[c].key = subChans[c].key
    BY <2>1 DEF SubListed
  <2>5. \A q \in SubPublishers :
           /\ subPubs'[q].pc = "idle" => subPubs'[q].todo = <<>>
           /\ \A c \in ToSet(subPubs'[q].todo) : SubListed(c)
    BY <1>2, <2>2, NoEvents
  <2> QED
    BY <1>1, <2>3, <2>4, <2>5, HubKeeps
<1>4. CASE subPubs[p].todo # <<>>
  <2>1. PICK c, todo : c = Head(subPubs[p].todo) /\ todo = subPubs[p].todo
    OBVIOUS
  <2>2. /\ subChans' = IF subChans[c].events < SubCapacity
                         THEN [subChans EXCEPT ![c].events = @ + 1] ELSE subChans
        /\ subPubs' = [subPubs EXCEPT ![p].todo = Tail(@)]
    BY <1>4, <2>1 DEF PublishSends
  <2>3. /\ Tail(todo) \in Seq(Nat) /\ Len(todo) \in Nat \ {0} /\ Len(Tail(todo)) = Len(todo) - 1
        /\ \A i \in 1..(Len(todo) - 1) : Tail(todo)[i] = todo[i + 1]
        /\ c = todo[1] /\ todo \in Seq(Nat)
    BY <1>1, <1>4, <2>1, EmptySeq, HeadTailProperties
  <2>4. /\ subPubs' \in [SubPublishers -> [pc : {"idle", "sends"}, todo : Seq(Nat)]]
        /\ subPubs'[p].todo = Tail(todo) /\ subPubs'[p].pc = "sends"
        /\ \A q \in SubPublishers : q # p => subPubs'[q] = subPubs[q]
    BY <1>1, <2>1, <2>2, <2>3
  <2>5. \A d \in ToSet(Tail(todo)) : d \in ToSet(todo)
    <3> SUFFICES ASSUME NEW d \in ToSet(Tail(todo)) PROVE d \in ToSet(todo)
      OBVIOUS
    <3>1. PICK i \in DOMAIN Tail(todo) : d = Tail(todo)[i]
      BY InToSet
    <3>2. i \in 1..(Len(todo) - 1) /\ i + 1 \in DOMAIN todo
      BY <2>3, <3>1
    <3>3. d = todo[i + 1]
      BY <2>3, <3>1, <3>2
    <3> QED
      BY <3>2, <3>3, InToSet
  <2>6. SubListed(c)
    <3>1. 1 \in DOMAIN todo
      BY <2>3
    <3>2. c \in ToSet(todo)
      BY <2>3, <3>1, InToSet
    <3> QED
      BY <1>2, <2>1, <3>2
  <2>7. /\ subChans' \in Seq(SubChanRecs) /\ Len(subChans') = Len(subChans)
        /\ \A d \in 1..Len(subChans) : /\ subChans'[d].key = subChans[d].key
                                       /\ subChans'[d].state = subChans[d].state
    <3>1. c \in 1..Len(subChans) /\ subChans[c] \in SubChanRecs
      BY <1>1, <2>6 DEF SubListed
    <3> DEFINE r == [subChans[c] EXCEPT !.events = @ + 1]
    <3>2. r \in SubChanRecs /\ r.key = subChans[c].key /\ r.state = subChans[c].state
      BY <3>1 DEF SubChanRecs
    <3>3. subChans' = [subChans EXCEPT ![c] = r] \/ subChans' = subChans
      BY <1>1, <2>2, <3>1
    <3> HIDE DEF r
    <3>4. CASE subChans' = [subChans EXCEPT ![c] = r]
      BY <1>1, <3>1, <3>2, <3>4
    <3>5. CASE subChans' = subChans
      BY <1>1, <3>5
    <3> QED
      BY <3>3, <3>4, <3>5
  <2>8. HubShape'
    BY <1>1, <2>4, <2>7 DEF HubIInv, HubShape
  <2>9. \A d : SubListed(d) => SubListed(d)' /\ subChans'[d].key = subChans[d].key
    BY <2>7 DEF SubListed
  <2>10. \A q \in SubPublishers :
           /\ subPubs'[q].pc = "idle" => subPubs'[q].todo = <<>>
           /\ \A d \in ToSet(subPubs'[q].todo) : SubListed(d)
    <3> SUFFICES ASSUME NEW q \in SubPublishers
        PROVE  /\ subPubs'[q].pc = "idle" => subPubs'[q].todo = <<>>
               /\ \A d \in ToSet(subPubs'[q].todo) : SubListed(d)
      OBVIOUS
    <3>1. CASE q = p
      BY <1>2, <2>1, <2>4, <2>5, <3>1
    <3>2. CASE q # p
      BY <1>2, <2>4, <3>2
    <3> QED
      BY <3>1, <3>2
  <2> QED
    BY <1>1, <2>8, <2>9, <2>10, HubKeeps
<1> QED
  BY <1>3, <1>4

LEMMA HubSubscribes ==
  ASSUME HubIInv, NEW key \in SubKeys, SubscribeTo(key)
  PROVE  HubIInv'
<1>1. PICK n : n = Len(subChans) + 1
  OBVIOUS
<1>2. /\ subChans \in Seq(SubChanRecs) /\ subLists \in [SubKeys -> Seq(Nat)]
      /\ subPubs \in [SubPublishers -> [pc : {"idle", "sends"}, todo : Seq(Nat)]]
      /\ subChans' = Append(subChans, [key |-> key, events |-> 0, state |-> "open"])
      /\ subLists' = [subLists EXCEPT ![key] = Append(subLists[key], n)] /\ UNCHANGED subPubs
  BY <1>1 DEF HubIInv, HubShape, SubscribeTo
<1>3. /\ subChans' \in Seq(SubChanRecs) /\ Len(subChans') = n /\ n \in Nat \ {0}
      /\ Len(subChans) \in Nat
      /\ \A c \in 1..Len(subChans) : subChans'[c] = subChans[c]
      /\ subChans'[n].key = key /\ subChans'[n].state = "open"
  <2>1. [key |-> key, events |-> 0, state |-> "open"] \in SubChanRecs
    BY DEF SubChanRecs
  <2> QED
    BY <1>1, <1>2, <2>1, AppendProperties
<1>4. \A c : SubListed(c) => SubListed(c)' /\ subChans'[c].key = subChans[c].key /\ c # n
  BY <1>1, <1>3 DEF SubListed
<1>5. SubListed(n)'
  BY <1>3 DEF SubListed
<1>6. /\ Append(subLists[key], n) \in Seq(Nat) /\ Distinct(Append(subLists[key], n))
      /\ ToSet(Append(subLists[key], n)) = ToSet(subLists[key]) \union {n}
  <2>1. Distinct(subLists[key]) /\ n \notin ToSet(subLists[key])
    BY <1>4 DEF HubIInv, HubOpen
  <2> QED
    BY <1>2, <1>3, <2>1, EventAppended
<1>7. /\ subLists' \in [SubKeys -> Seq(Nat)] /\ subLists'[key] = Append(subLists[key], n)
      /\ \A k \in SubKeys : k # key => subLists'[k] = subLists[k]
  BY <1>2, <1>6
<1>8. HubShape'
  BY <1>2, <1>3, <1>7 DEF HubShape
<1>9. \A k \in SubKeys : /\ Distinct(subLists'[k])
                         /\ \A c \in ToSet(subLists'[k]) : SubListed(c)' /\ subChans'[c].key = k
  <2> SUFFICES ASSUME NEW k \in SubKeys
      PROVE  /\ Distinct(subLists'[k])
             /\ \A c \in ToSet(subLists'[k]) : SubListed(c)' /\ subChans'[c].key = k
    OBVIOUS
  <2>1. /\ Distinct(subLists[k])
        /\ \A c \in ToSet(subLists[k]) : SubListed(c)' /\ subChans'[c].key = k
    BY <1>4 DEF HubIInv, HubOpen
  <2>2. CASE k = key
    BY <1>3, <1>5, <1>6, <1>7, <2>1, <2>2
  <2>3. CASE k # key
    BY <1>7, <2>1, <2>3
  <2> QED
    BY <2>2, <2>3
<1>10. \A p \in SubPublishers : /\ subPubs'[p].pc = "idle" => subPubs'[p].todo = <<>>
                                /\ \A c \in ToSet(subPubs'[p].todo) : SubListed(c)'
  BY <1>2, <1>4 DEF HubIInv, HubOpen
<1>11. HubOpen'
  BY <1>9, <1>10 DEF HubOpen
<1> QED
  BY <1>8, <1>11 DEF HubIInv

(* A channel is removed under the lock: no publisher is on its way, and no  *)
(* list but that of its key can have it.                                    *)
LEMMA HubRemoves ==
  ASSUME HubIInv, NEW c \in DOMAIN subChans, SubscriptionRemoved(c)
  PROVE  HubIInv'
<1>1. /\ subChans \in Seq(SubChanRecs) /\ subLists \in [SubKeys -> Seq(Nat)]
      /\ subPubs \in [SubPublishers -> [pc : {"idle", "sends"}, todo : Seq(Nat)]]
      /\ subChans' = [subChans EXCEPT ![c].state = "removed"] /\ UNCHANGED subPubs
      /\ Locked
  BY DEF HubIInv, HubShape, SubscriptionRemoved, SubChange
<1>2. PICK key \in SubKeys : key = subChans[c].key
  <2>1. subChans[c] \in SubChanRecs
    BY <1>1
  <2> QED
    BY <2>1 DEF SubChanRecs
<1>3. /\ subChans' \in Seq(SubChanRecs) /\ Len(subChans') = Len(subChans)
      /\ \A d \in 1..Len(subChans) : d # c => subChans'[d] = subChans[d]
  <2> DEFINE r == [subChans[c] EXCEPT !.state = "removed"]
  <2>1. subChans[c] \in SubChanRecs /\ subChans \in Seq(SubChanRecs)
    BY <1>1
  <2>2. r \in SubChanRecs
    BY <2>1 DEF SubChanRecs
  <2>3. subChans' = [subChans EXCEPT ![c] = r]
    BY <1>1
  <2> HIDE DEF r
  <2> QED
    BY <2>1, <2>2, <2>3
<1>4. \A d : SubListed(d) /\ d # c => SubListed(d)' /\ subChans'[d].key = subChans[d].key
  BY <1>3 DEF SubListed
<1>5. subLists' = [subLists EXCEPT ![key] = RemoveFirst(subLists[key], c)]
  BY <1>1, <1>2 DEF SubscriptionRemoved
<1>6. /\ RemoveFirst(subLists[key], c) \in Seq(Nat) /\ Distinct(RemoveFirst(subLists[key], c))
      /\ ToSet(RemoveFirst(subLists[key], c)) \subseteq ToSet(subLists[key]) \ {c}
  <2>1. Distinct(subLists[key]) /\ subLists[key] \in Seq(Nat)
    BY <1>1 DEF HubIInv, HubOpen
  <2> QED
    BY <2>1, FirstRemoved
<1>7. /\ subLists' \in [SubKeys -> Seq(Nat)] /\ subLists'[key] = RemoveFirst(subLists[key], c)
      /\ \A k \in SubKeys : k # key => subLists'[k] = subLists[k]
  BY <1>1, <1>5, <1>6
<1>8. HubShape'
  BY <1>1, <1>3, <1>7 DEF HubShape
<1>9. \A k \in SubKeys : /\ Distinct(subLists'[k])
                         /\ \A d \in ToSet(subLists'[k]) : SubListed(d)' /\ subChans'[d].key = k
  <2> SUFFICES ASSUME NEW k \in SubKeys
      PROVE  /\ Distinct(subLists'[k])
             /\ \A d \in ToSet(subLists'[k]) : SubListed(d)' /\ subChans'[d].key = k
    OBVIOUS
  <2>1. /\ Distinct(subLists[k])
        /\ \A d \in ToSet(subLists[k]) : SubListed(d) /\ subChans[d].key = k
    BY DEF HubIInv, HubOpen
  <2>2. CASE k = key
    BY <1>4, <1>6, <1>7, <2>1, <2>2
  <2>3. CASE k # key
    BY <1>2, <1>4, <1>7, <2>1, <2>3
  <2> QED
    BY <2>2, <2>3
<1>10. \A p \in SubPublishers : /\ subPubs'[p].pc = "idle" => subPubs'[p].todo = <<>>
                                /\ \A d \in ToSet(subPubs'[p].todo) : SubListed(d)'
  <2>1. \A p \in SubPublishers : subPubs'[p].todo = <<>>
    BY <1>1 DEF Locked, HubIInv, HubOpen
  <2> QED
    BY <2>1, NoEvents
<1>11. HubOpen'
  BY <1>9, <1>10 DEF HubOpen
<1> QED
  BY <1>8, <1>11 DEF HubIInv

LEMMA HubNext ==
  ASSUME HubIInv, [SubscriptionsNext]_subVars
  PROVE  HubIInv'
<1>1. CASE UNCHANGED hubVars
  BY <1>1 DEF hubVars, HubIInv, HubShape, HubOpen, SubListed
<1>2. CASE SubscribeSyncStatus \/ SubscribeSyncRunProgress
  <2>1. {"*", "sync", "run"} \subseteq SubKeys
    BY DEF SubKeys
  <2> QED
    BY <1>2, <2>1, HubSubscribes DEF SubscribeSyncStatus, SubscribeSyncRunProgress
<1>3. ASSUME NEW c \in DOMAIN subChans, SubscriberLeaves(c) \/ SubscriptionRemoved(c)
                                        \/ SubscriptionClosed(c) \/ SubscriberReceives(c)
      PROVE  HubIInv'
  BY <1>3, HubSteps, HubRemoves
<1>4. ASSUME NEW p \in SubPublishers,
             PublishSyncStatus(p) \/ PublishSyncRunProgress(p) \/ PublishSends(p)
      PROVE  HubIInv'
  BY <1>4, HubPublishes, HubSends
<1>5. CASE RedisSubscribe \/ SubscribeMultiple \/ CloseCancels \/ CloseReturns
  BY <1>1, <1>5 DEF RedisSubscribe, SubscribeMultiple, StartReceiver, CloseCancels, CloseReturns
<1>6. ASSUME NEW g \in DOMAIN redRuns,
             ReceiverStarts(g) \/ ReceiverCancelled(g) \/ ReceiverEnds(g)
      PROVE  HubIInv'
  BY <1>1, <1>6 DEF ReceiverStarts, ReceiverCancelled, ReceiverEnds
<1> QED
  BY <1>1, <1>2, <1>3, <1>4, <1>5, <1>6 DEF SubscriptionsNext, subVars

-----------------------------------------------------------------------------
(* The Subscriber.                                                          *)

RedRecs == [pc : {"new", "runs", "gone"}, cancelled : BOOLEAN, done : Nat]

RedShape ==
    /\ redRuns \in Seq(RedRecs) /\ redDones \in Seq(Nat) /\ Len(redDones) = Len(redRuns)
    /\ redS \in [cancel : Nat, done : Nat] /\ redS.cancel <= Len(redRuns)

(* As long as no Subscribe overlaps another, the goroutine that is not gone *)
(* is that of s.done, which is still open, and it closes its own.           *)
RedOnce ==
    \A g \in 1..Len(redRuns) :
       /\ redDones[g] \in {0, 1}
       /\ redRuns[g].pc \in {"new", "runs"} => redS.done = g /\ redDones[g] = 0
       /\ redRuns[g].pc = "runs" => redRuns[g].done = g
       /\ redRuns[g].pc = "gone" /\ redDones[g] > 0 => redRuns[g].done = g

RedIInv == RedShape /\ (~redOverlap => RedOnce)

(* The record of one goroutine is replaced.                                 *)
LEMMA RedMoves ==
  ASSUME RedShape, NEW g \in DOMAIN redRuns, NEW r \in RedRecs,
         redRuns' = [redRuns EXCEPT ![g] = r]
  PROVE  /\ redRuns' \in Seq(RedRecs) /\ Len(redRuns') = Len(redRuns) /\ Len(redRuns) \in Nat
         /\ g \in 1..Len(redRuns) /\ redRuns'[g] = r
         /\ \A h \in 1..Len(redRuns) : h # g => redRuns'[h] = redRuns[h]
  BY DEF RedShape

(* A goroutine is cancelled, which nothing above looks at.                  *)
LEMMA RedCancels ==
  ASSUME RedShape, NEW g \in DOMAIN redRuns,
         redRuns' = [redRuns EXCEPT ![g].cancelled = TRUE]
  PROVE  /\ redRuns' \in Seq(RedRecs) /\ Len(redRuns') = Len(redRuns)
         /\ \A h \in 1..Len(redRuns) : /\ redRuns'[h].pc = redRuns[h].pc
                                       /\ redRuns'[h].done = redRuns[h].done
<1>1. PICK t, f : t = TRUE /\ f = FALSE /\ t # f /\ BOOLEAN = {t, f}
  BY Truths, Zenon
<1>2. redRuns' = [redRuns EXCEPT ![g].cancelled = t]
  BY <1>1, Zenon
<1>3. redRuns \in Seq(RedRecs) /\ redRuns[g] \in RedRecs
  BY DEF RedShape
<1> DEFINE r == [redRuns[g] EXCEPT !.cancelled = t]
<1>4. r \in RedRecs /\ r.pc = redRuns[g].pc /\ r.done = redRuns[g].done
  BY <1>1, <1>3 DEF RedRecs
<1>5. redRuns' = [redRuns EXCEPT ![g] = r]
  BY <1>2, <1>3
<1> HIDE DEF r
<1>6. /\ redRuns' \in Seq(RedRecs) /\ Len(redRuns') = Len(redRuns) /\ Len(redRuns) \in Nat
      /\ g \in 1..Len(redRuns) /\ redRuns'[g] = r
      /\ \A h \in 1..Len(redRuns) : h # g => redRuns'[h] = redRuns[h]
  BY <1>4, <1>5, RedMoves
<1> QED
  BY <1>4, <1>6

LEMMA RedStarts ==
  ASSUME RedIInv, StartReceiver
  PROVE  RedIInv'
<1>1. PICK t, f : t = TRUE /\ f = FALSE /\ t # f /\ BOOLEAN = {t, f}
  BY Truths, Zenon
<1>2. RedShape /\ Len(redRuns) \in Nat
  BY DEF RedIInv, RedShape
<1>3. PICK n : n = Len(redRuns) + 1
  OBVIOUS
<1>4. /\ redDones' = Append(redDones, 0) /\ redS' = [cancel |-> n, done |-> n]
  BY <1>2, <1>3 DEF StartReceiver, RedShape
<1>5. PICK r \in RedRecs : redRuns' = Append(redRuns, r) /\ r.pc \in {"new", "gone"}
  <2>1. PICK confirmed \in BOOLEAN :
          redRuns' = Append(redRuns, [pc |-> IF confirmed THEN "new" ELSE "gone",
                                      cancelled |-> ~confirmed, done |-> 0])
    BY Zenon DEF StartReceiver
  <2>2. PICK pc : pc = (IF confirmed THEN "new" ELSE "gone")
    BY Zenon
  <2>3. pc \in {"new", "gone"}
    BY <2>2, Zenon
  <2>4. PICK b : b = ~confirmed
    BY Zenon
  <2>5. b \in BOOLEAN
    BY <2>4, Zenon
  <2>6. redRuns' = Append(redRuns, [pc |-> pc, cancelled |-> b, done |-> 0])
    BY <2>1, <2>2, <2>4, Zenon
  <2> DEFINE r == [pc |-> pc, cancelled |-> b, done |-> 0]
  <2>7. r \in RedRecs /\ r.pc \in {"new", "gone"}
    BY <2>3, <2>5 DEF RedRecs
  <2> QED
    BY <2>6, <2>7
<1>6. /\ redRuns' \in Seq(RedRecs) /\ Len(redRuns') = n /\ redRuns'[n] = r
      /\ \A g \in 1..Len(redRuns) : redRuns'[g] = redRuns[g]
  BY <1>2, <1>3, <1>5, AppendProperties DEF RedShape
<1>7. /\ redDones' \in Seq(Nat) /\ Len(redDones') = n /\ redDones'[n] = 0
      /\ \A g \in 1..Len(redRuns) : redDones'[g] = redDones[g]
  BY <1>2, <1>3, <1>4, AppendProperties DEF RedShape
<1>8. RedShape'
  BY <1>2, <1>3, <1>4, <1>6, <1>7 DEF RedShape
<1>9. ASSUME ~redOverlap' PROVE RedOnce'
  <2>1. ~redOverlap /\ redS.done = 0
    <3>1. redOverlap' = (redOverlap \/ redS.done # 0)
      BY DEF StartReceiver
    <3> QED
      BY <1>9, <3>1, Zenon
  <2>2. RedOnce
    BY <2>1, Zenon DEF RedIInv
  <2> SUFFICES ASSUME NEW g \in 1..n
      PROVE  /\ redDones'[g] \in {0, 1}
             /\ redRuns'[g].pc \in {"new", "runs"} => redS'.done = g /\ redDones'[g] = 0
             /\ redRuns'[g].pc = "runs" => redRuns'[g].done = g
             /\ redRuns'[g].pc = "gone" /\ redDones'[g] > 0 => redRuns'[g].done = g
    BY <1>6 DEF RedOnce
  <2>3. CASE g = n
    BY <1>4, <1>5, <1>6, <1>7, <2>3
  <2>4. CASE g # n
    <3>1. g \in 1..Len(redRuns) /\ g # 0
      BY <1>2, <1>3, <2>4
    <3> QED
      BY <1>6, <1>7, <2>1, <2>2, <3>1 DEF RedOnce
  <2> QED
    BY <2>3, <2>4
<1> QED
  BY <1>8, <1>9 DEF RedIInv

LEMMA RedReceiverStarts ==
  ASSUME RedIInv, NEW g \in DOMAIN redRuns, ReceiverStarts(g)
  PROVE  RedIInv'
<1>1. /\ RedShape /\ redRuns \in Seq(RedRecs) /\ redRuns[g] \in RedRecs /\ redS.done \in Nat
      /\ redRuns[g].pc = "new" /\ UNCHANGED <<redDones, redS, redOverlap>>
      /\ redRuns' = [redRuns EXCEPT ![g].pc = "runs", ![g].done = redS.done]
  BY DEF RedIInv, RedShape, ReceiverStarts
<1> DEFINE r == [redRuns[g] EXCEPT !.pc = "runs", !.done = redS.done]
<1>2. r \in RedRecs /\ r.pc = "runs" /\ r.done = redS.done
  BY <1>1 DEF RedRecs
<1>3. redRuns' = [redRuns EXCEPT ![g] = r]
  BY <1>1
<1> HIDE DEF r
<1>4. /\ redRuns' \in Seq(RedRecs) /\ Len(redRuns') = Len(redRuns) /\ Len(redRuns) \in Nat
      /\ g \in 1..Len(redRuns) /\ redRuns'[g] = r
      /\ \A h \in 1..Len(redRuns) : h # g => redRuns'[h] = redRuns[h]
  BY <1>1, <1>2, <1>3, RedMoves
<1>5. RedShape'
  BY <1>1, <1>4 DEF RedShape
<1>6. RedOnce => RedOnce'
  BY <1>1, <1>2, <1>4 DEF RedOnce
<1> QED
  BY <1>1, <1>5, <1>6, Zenon DEF RedIInv

LEMMA RedReceiverEnds ==
  ASSUME RedIInv, NEW g \in DOMAIN redRuns, ReceiverEnds(g)
  PROVE  RedIInv'
<1>1. /\ RedShape /\ redRuns \in Seq(RedRecs) /\ redRuns[g] \in RedRecs
      /\ redRuns[g].pc = "runs" /\ UNCHANGED <<redS, redOverlap>>
      /\ redRuns' = [redRuns EXCEPT ![g].pc = "gone"]
  BY DEF RedIInv, RedShape, ReceiverEnds
<1> DEFINE r == [redRuns[g] EXCEPT !.pc = "gone"]
<1>2. r \in RedRecs /\ r.pc = "gone" /\ r.done = redRuns[g].done
  BY <1>1 DEF RedRecs
<1>3. redRuns' = [redRuns EXCEPT ![g] = r]
  BY <1>1
<1> HIDE DEF r
<1>4. /\ redRuns' \in Seq(RedRecs) /\ Len(redRuns') = Len(redRuns) /\ Len(redRuns) \in Nat
      /\ g \in 1..Len(redRuns) /\ redRuns'[g] = r
      /\ \A h \in 1..Len(redRuns) : h # g => redRuns'[h] = redRuns[h]
  BY <1>1, <1>2, <1>3, RedMoves
<1>5. PICK d : d = redRuns[g].done
  OBVIOUS
<1>6. redDones' = IF d = 0 THEN redDones ELSE [redDones EXCEPT ![d] = @ + 1]
  BY <1>5 DEF ReceiverEnds
<1>7. /\ redDones \in Seq(Nat) /\ redDones' \in Seq(Nat) /\ Len(redDones') = Len(redDones)
      /\ Len(redDones) = Len(redRuns)
  <2>1. redDones \in Seq(Nat) /\ Len(redDones) = Len(redRuns)
    BY <1>1 DEF RedShape
  <2>2. CASE d = 0
    BY <1>6, <2>1, <2>2
  <2>3. CASE d \in DOMAIN redDones
    <3>1. redDones[d] + 1 \in Nat /\ d # 0
      BY <2>1, <2>3
    <3>2. redDones' = [redDones EXCEPT ![d] = redDones[d] + 1]
      BY <1>6, <3>1
    <3> QED
      BY <2>1, <2>3, <3>1, <3>2
  <2>4. CASE d # 0 /\ d \notin DOMAIN redDones
    <3>1. redDones' = [i \in DOMAIN redDones |-> redDones[i]]
      BY <1>6, <2>4
    <3> QED
      BY <2>1, <3>1
  <2> QED
    BY <2>1, <2>2, <2>3, <2>4
<1>8. RedShape'
  BY <1>1, <1>4, <1>7 DEF RedShape
<1>9. ASSUME RedOnce PROVE RedOnce'
  <2>1. d = g /\ redDones[g] = 0 /\ g # 0 /\ redS.done = g
    BY <1>1, <1>4, <1>5, <1>9 DEF RedOnce
  <2>2. /\ redDones'[g] = 1
        /\ \A h \in 1..Len(redRuns) : h # g => redDones'[h] = redDones[h]
    BY <1>4, <1>6, <1>7, <2>1
  <2> SUFFICES ASSUME NEW h \in 1..Len(redRuns)
      PROVE  /\ redDones'[h] \in {0, 1}
             /\ redRuns'[h].pc \in {"new", "runs"} => redS'.done = h /\ redDones'[h] = 0
             /\ redRuns'[h].pc = "runs" => redRuns'[h].done = h
             /\ redRuns'[h].pc = "gone" /\ redDones'[h] > 0 => redRuns'[h].done = h
    BY <1>4 DEF RedOnce
  <2>3. CASE h = g
    BY <1>2, <1>4, <1>5, <2>1, <2>2, <2>3
  <2>4. CASE h # g
    BY <1>1, <1>4, <1>9, <2>2, <2>4 DEF RedOnce
  <2> QED
    BY <2>3, <2>4
<1> QED
  BY <1>1, <1>8, <1>9, Zenon DEF RedIInv

(* Close cancels the last goroutine, and it lets go of s.done when that is  *)
(* closed; a goroutine is also cancelled by its caller's context.           *)
LEMMA RedCloses ==
  ASSUME RedIInv,
         CloseCancels \/ CloseReturns \/ \E g \in DOMAIN redRuns : ReceiverCancelled(g)
  PROVE  RedIInv'
<1>1. RedShape /\ redS \in [cancel : Nat, done : Nat] /\ redRuns \in Seq(RedRecs)
  BY DEF RedIInv, RedShape
<1>2. UNCHANGED <<redDones, redOverlap>>
  BY DEF CloseCancels, CloseReturns, ReceiverCancelled
<1>3. /\ redRuns' \in Seq(RedRecs) /\ Len(redRuns') = Len(redRuns)
      /\ \A h \in 1..Len(redRuns) : /\ redRuns'[h].pc = redRuns[h].pc
                                    /\ redRuns'[h].done = redRuns[h].done
  <2>1. CASE redRuns' = redRuns
    BY <1>1, <2>1
  <2>2. ASSUME NEW g \in DOMAIN redRuns, redRuns' = [redRuns EXCEPT ![g].cancelled = TRUE]
        PROVE  /\ redRuns' \in Seq(RedRecs) /\ Len(redRuns') = Len(redRuns)
               /\ \A h \in 1..Len(redRuns) : /\ redRuns'[h].pc = redRuns[h].pc
                                             /\ redRuns'[h].done = redRuns[h].done
    BY <1>1, <2>2, RedCancels, Zenon
  <2>3. redS.cancel # 0 => redS.cancel \in DOMAIN redRuns
    <3>1. redS.cancel \in Nat /\ redS.cancel <= Len(redRuns) /\ DOMAIN redRuns = 1..Len(redRuns)
      BY <1>1 DEF RedShape
    <3> QED
      BY <3>1
  <2>4. \/ redRuns' = redRuns
        \/ \E g \in DOMAIN redRuns : redRuns' = [redRuns EXCEPT ![g].cancelled = TRUE]
    <3>1. CASE CloseCancels
      BY <2>3, <3>1, Zenon DEF CloseCancels
    <3>2. CASE CloseReturns
      BY <3>2 DEF CloseReturns
    <3>3. CASE \E g \in DOMAIN redRuns : ReceiverCancelled(g)
      BY <3>3, Zenon DEF ReceiverCancelled
    <3> QED
      BY <3>1, <3>2, <3>3
  <2> QED
    BY <2>1, <2>2, <2>4, Zenon
<1>4. /\ redS' \in [cancel : Nat, done : Nat] /\ redS'.cancel <= Len(redRuns)
      /\ redS'.done = redS.done \/ (redS'.done = 0 /\ redDones[redS.done] > 0)
  BY <1>1 DEF CloseCancels, CloseReturns, ReceiverCancelled, RedShape
<1>5. RedShape'
  BY <1>1, <1>2, <1>3, <1>4 DEF RedShape
<1>6. ASSUME RedOnce PROVE RedOnce'
  <2> SUFFICES ASSUME NEW h \in 1..Len(redRuns)
      PROVE  /\ redDones'[h] \in {0, 1}
             /\ redRuns'[h].pc \in {"new", "runs"} => redS'.done = h /\ redDones'[h] = 0
             /\ redRuns'[h].pc = "runs" => redRuns'[h].done = h
             /\ redRuns'[h].pc = "gone" /\ redDones'[h] > 0 => redRuns'[h].done = h
    BY <1>3 DEF RedOnce
  <2>1. /\ redDones[h] \in {0, 1}
        /\ redRuns[h].pc \in {"new", "runs"} => redS.done = h /\ redDones[h] = 0
        /\ redRuns[h].pc = "runs" => redRuns[h].done = h
        /\ redRuns[h].pc = "gone" /\ redDones[h] > 0 => redRuns[h].done = h
    BY <1>6 DEF RedOnce
  <2> QED
    BY <1>2, <1>3, <1>4, <2>1
<1> QED
  BY <1>2, <1>5, <1>6, Zenon DEF RedIInv

LEMMA RedNext ==
  ASSUME RedIInv, [SubscriptionsNext]_subVars
  PROVE  RedIInv'
<1>1. CASE UNCHANGED redVars
  BY <1>1 DEF redVars, RedIInv, RedShape, RedOnce
<1>2. CASE SubscribeSyncStatus \/ SubscribeSyncRunProgress
  BY <1>1, <1>2 DEF SubscribeSyncStatus, SubscribeSyncRunProgress, SubscribeTo
<1>3. ASSUME NEW c \in DOMAIN subChans, SubscriberLeaves(c) \/ SubscriptionRemoved(c)
                                        \/ SubscriptionClosed(c) \/ SubscriberReceives(c)
      PROVE  RedIInv'
  BY <1>1, <1>3 DEF SubscriberLeaves, SubscriptionRemoved, SubscriptionClosed, SubscriberReceives,
                    SubChange
<1>4. ASSUME NEW p \in SubPublishers,
             PublishSyncStatus(p) \/ PublishSyncRunProgress(p) \/ PublishSends(p)
      PROVE  RedIInv'
  BY <1>1, <1>4 DEF PublishSyncStatus, PublishSyncRunProgress, Publish, PublishSends
<1>5. CASE RedisSubscribe \/ SubscribeMultiple
  BY <1>5, RedStarts DEF RedisSubscribe, SubscribeMultiple
<1>6. CASE CloseCancels \/ CloseReturns
  BY <1>6, RedCloses
<1>7. ASSUME NEW g \in DOMAIN redRuns,
             ReceiverStarts(g) \/ ReceiverCancelled(g) \/ ReceiverEnds(g)
      PROVE  RedIInv'
  BY <1>7, RedCloses, RedReceiverStarts, RedReceiverEnds
<1> QED
  BY <1>1, <1>2, <1>3, <1>4, <1>5, <1>6, <1>7 DEF SubscriptionsNext, subVars

(* The invariants of the subscriptions are inductive.                       *)
LEMMA SubscriptionsInductive == SubscriptionsSpec => [](HubIInv /\ RedIInv)
<1>1. SubscriptionsInit => HubIInv /\ RedIInv
  <2> SUFFICES ASSUME SubscriptionsInit PROVE HubIInv /\ RedIInv
    OBVIOUS
  <2>1. HubShape
    BY EmptySeq DEF SubscriptionsInit, HubShape, NotPublishing
  <2>2. HubOpen
    BY NoEvents DEF SubscriptionsInit, HubOpen, NotPublishing
  <2>3. RedShape
    BY EmptySeq DEF SubscriptionsInit, RedShape
  <2>4. RedOnce
    BY DEF SubscriptionsInit, RedOnce
  <2> QED
    BY <2>1, <2>2, <2>3, <2>4 DEF HubIInv, RedIInv
<1>2. HubIInv /\ RedIInv /\ [SubscriptionsNext]_subVars => HubIInv' /\ RedIInv'
  BY HubNext, RedNext
<1> QED
  BY <1>1, <1>2, PTL DEF SubscriptionsSpec

(* For any number of subscriptions, publishers and events: no publisher of  *)
(* the GraphQL resolver, walking a list under the read lock, comes to a     *)
(* channel that was closed, although the close is outside the lock; and     *)
(* while no Subscribe overlaps another, the goroutines of a Redis           *)
(* Subscriber close each s.done once, their own, and none is left when      *)
(* Close has returned.                                                      *)
THEOREM SubscriptionsSafe == SubscriptionsSpec => []ChannelsSafe
<1>1. HubIInv /\ RedIInv => ChannelsSafe
  <2> SUFFICES ASSUME HubIInv, RedIInv PROVE ChannelsSafe
    OBVIOUS
  <2>1. ASSUME NEW p \in SubPublishers, NEW i \in DOMAIN subPubs[p].todo
        PROVE  subChans[subPubs[p].todo[i]].state # "closed"
    <3>1. subPubs[p].todo[i] \in ToSet(subPubs[p].todo)
      BY <2>1, InToSet
    <3> QED
      BY <3>1 DEF HubIInv, HubOpen, SubListed
  <2>2. ASSUME RedOnce
        PROVE  /\ \A d \in DOMAIN redDones : redDones[d] <= 1
               /\ \A g \in DOMAIN redRuns :
                    /\ redRuns[g].pc \in {"runs", "gone"} /\ redDones[g] > 0 => redRuns[g].done = g
                    /\ redClose = "returned" /\ redS.done = 0 => redRuns[g].pc = "gone"
    <3>1. /\ DOMAIN redDones = 1..Len(redRuns) /\ DOMAIN redRuns = 1..Len(redRuns)
          /\ \A g \in 1..Len(redRuns) : redRuns[g] \in RedRecs
      BY DEF RedIInv, RedShape
    <3> SUFFICES ASSUME NEW g \in 1..Len(redRuns)
        PROVE  /\ redDones[g] <= 1
               /\ redRuns[g].pc \in {"runs", "gone"} /\ redDones[g] > 0 => redRuns[g].done = g
               /\ redClose = "returned" /\ redS.done = 0 => redRuns[g].pc = "gone"
      BY <3>1
    <3>2. redRuns[g].pc \in {"new", "runs", "gone"}
      BY <3>1 DEF RedRecs
    <3> QED
      BY <2>2, <3>2 DEF RedOnce
  <2>3. ~redOverlap => RedOnce
    BY DEF RedIInv
  <2> QED
    BY <2>1, <2>2, <2>3, Zenon DEF ChannelsSafe
<1> QED
  BY <1>1, SubscriptionsInductive, PTL

-----------------------------------------------------------------------------
(* The bounds of the subscriptions' state.                                  *)

SubBounded ==
    /\ subKind \in SubKinds
    /\ \A c \in 1..Len(subChans) : subChans[c].events \in 0..SubCapacity
    /\ redS.done <= Len(redRuns)
    /\ redClose \in {"no", "waits", "returned"}

(* Every step keeps what the channels of the resolver hold.                 *)
LEMMA SubChansBounded ==
  ASSUME HubIInv, SubBounded, [SubscriptionsNext]_subVars
  PROVE  \A c \in 1..Len(subChans') : subChans'[c].events \in 0..SubCapacity
<1> DEFINE Fit(chans) == \A c \in 1..Len(chans) : chans[c].events \in 0..SubCapacity
<1>1. subChans \in Seq(SubChanRecs) /\ Len(subChans) \in Nat /\ DOMAIN subChans = 1..Len(subChans)
  BY DEF HubIInv, HubShape
<1>2. \A c \in 1..Len(subChans) : subChans[c] \in SubChanRecs /\ subChans[c].events \in 0..SubCapacity
  BY <1>1 DEF SubBounded
<1>3. ASSUME subChans' = subChans PROVE Fit(subChans')
  BY <1>2, <1>3
<1>4. ASSUME SubscribeSyncStatus \/ SubscribeSyncRunProgress PROVE Fit(subChans')
  <2>1. \E k \in SubKeys : subChans' = Append(subChans, [key |-> k, events |-> 0, state |-> "open"])
    BY <1>4 DEF SubscribeSyncStatus, SubscribeSyncRunProgress, SubscribeTo, SubKeys
  <2> QED
    BY <1>1, <1>2, <2>1, SubscriptionsAssumption
<1>5. ASSUME NEW c \in DOMAIN subChans, NEW state, subChans' = [subChans EXCEPT ![c].state = state]
      PROVE  Fit(subChans')
  <2>1. PICK r : r = [subChans[c] EXCEPT !.state = state]
    OBVIOUS
  <2>2. r.events = subChans[c].events
    BY <1>1, <1>2, <2>1 DEF SubChanRecs
  <2>3. subChans' = [subChans EXCEPT ![c] = r]
    BY <1>5, <2>1
  <2>4. \A d \in 1..Len(subChans) : subChans'[d].events = subChans[d].events
    BY <1>1, <2>2, <2>3
  <2>5. Len(subChans') = Len(subChans)
    BY <1>1, <2>3
  <2> QED
    BY <1>2, <2>4, <2>5
<1>6. ASSUME NEW c, NEW n, c \in DOMAIN subChans => n \in 0..SubCapacity,
             subChans' = [subChans EXCEPT ![c].events = n]
      PROVE  Fit(subChans')
  <2>1. PICK r : r = [subChans[c] EXCEPT !.events = n]
    OBVIOUS
  <2>2. c \in DOMAIN subChans => r.events = n
    BY <1>1, <1>2, <2>1 DEF SubChanRecs
  <2>3. subChans' = [subChans EXCEPT ![c] = r]
    BY <1>6, <2>1
  <2>4. \A d \in 1..Len(subChans) : subChans'[d].events \in 0..SubCapacity
    BY <1>1, <1>2, <1>6, <2>2, <2>3
  <2>5. Len(subChans') = Len(subChans)
    BY <1>1, <2>3
  <2> QED
    BY <2>4, <2>5
<1>7. ASSUME NEW c \in DOMAIN subChans, SubscriberReceives(c) PROVE Fit(subChans')
  <2>1. PICK n : n = subChans[c].events
    OBVIOUS
  <2>2. n - 1 \in 0..SubCapacity
    BY <1>1, <1>2, <1>7, <2>1, SubscriptionsAssumption DEF SubscriberReceives
  <2>3. subChans' = [subChans EXCEPT ![c].events = n - 1]
    BY <1>7, <2>1 DEF SubscriberReceives
  <2> QED
    BY <1>6, <2>2, <2>3
<1>8. ASSUME NEW p \in SubPublishers, PublishSends(p) PROVE Fit(subChans')
  <2>1. PICK c, n : c = Head(subPubs[p].todo) /\ n = subChans[c].events
    OBVIOUS
  <2>2. subChans' = subChans \/ (n < SubCapacity /\ subChans' = [subChans EXCEPT ![c].events = n + 1])
    BY <1>8, <2>1 DEF PublishSends
  <2>3. c \in DOMAIN subChans /\ n < SubCapacity => n + 1 \in 0..SubCapacity
    <3>1. c \in DOMAIN subChans => n \in 0..SubCapacity
      BY <1>1, <1>2, <2>1
    <3> QED
      BY <3>1, SubscriptionsAssumption
  <2> QED
    BY <1>3, <1>6, <2>2, <2>3
<1>9. ASSUME UNCHANGED subVars PROVE Fit(subChans')
  BY <1>3, <1>9 DEF subVars, hubVars
<1>10. /\ \A p \in SubPublishers : PublishSyncStatus(p) \/ PublishSyncRunProgress(p) => Fit(subChans')
       /\ \A g \in DOMAIN redRuns :
            ReceiverStarts(g) \/ ReceiverCancelled(g) \/ ReceiverEnds(g) => Fit(subChans')
       /\ RedisSubscribe \/ SubscribeMultiple \/ CloseCancels \/ CloseReturns => Fit(subChans')
  <2> HIDE DEF Fit
  <2>1. ASSUME NEW p \in SubPublishers, PublishSyncStatus(p) \/ PublishSyncRunProgress(p)
        PROVE  Fit(subChans')
    BY <1>3, <2>1 DEF PublishSyncStatus, PublishSyncRunProgress, Publish
  <2>2. ASSUME NEW g \in DOMAIN redRuns, ReceiverStarts(g) \/ ReceiverCancelled(g) \/ ReceiverEnds(g)
        PROVE  Fit(subChans')
    BY <1>3, <2>2 DEF ReceiverStarts, ReceiverCancelled, ReceiverEnds, hubVars
  <2>3. ASSUME RedisSubscribe \/ SubscribeMultiple \/ CloseCancels \/ CloseReturns
        PROVE  Fit(subChans')
    BY <1>3, <2>3 DEF RedisSubscribe, SubscribeMultiple, StartReceiver, CloseCancels, CloseReturns,
                      hubVars
  <2> QED
    BY <2>1, <2>2, <2>3
<1>11. ASSUME NEW c \in DOMAIN subChans,
              SubscriberLeaves(c) \/ SubscriptionRemoved(c) \/ SubscriptionClosed(c)
       PROVE  Fit(subChans')
  BY <1>5, <1>11 DEF SubscriberLeaves, SubscriptionRemoved, SubscriptionClosed, SubChange
<1> HIDE DEF Fit
<1>12. Fit(subChans')
  BY <1>4, <1>7, <1>8, <1>9, <1>10, <1>11 DEF SubscriptionsNext
<1> QED
  BY <1>12 DEF Fit

(* What a step does to s.done and to Close.                                 *)
LEMMA SubRedBounded ==
  ASSUME RedIInv, SubBounded, [SubscriptionsNext]_subVars
  PROVE  /\ subKind' = subKind
         /\ redS'.done <= Len(redRuns') /\ redClose' \in {"no", "waits", "returned"}
<1> DEFINE Bounded == /\ subKind' = subKind
                      /\ redS'.done <= Len(redRuns') /\ redClose' \in {"no", "waits", "returned"}
<1>1. /\ redRuns \in Seq(RedRecs) /\ redDones \in Seq(Nat) /\ Len(redDones) = Len(redRuns)
      /\ Len(redRuns) \in Nat /\ redS \in [cancel : Nat, done : Nat]
      /\ redS.done <= Len(redRuns) /\ redClose \in {"no", "waits", "returned"}
  BY DEF RedIInv, RedShape, SubBounded
<1>2. ASSUME UNCHANGED <<subKind, redRuns, redS, redClose>> PROVE Bounded
  BY <1>1, <1>2
<1>3. ASSUME UNCHANGED subVars PROVE Bounded
  BY <1>2, <1>3 DEF subVars, redVars
<1>4. /\ \A c \in DOMAIN subChans :
           SubscriberLeaves(c) \/ SubscriptionRemoved(c) \/ SubscriptionClosed(c)
             \/ SubscriberReceives(c) => Bounded
      /\ \A p \in SubPublishers :
           PublishSyncStatus(p) \/ PublishSyncRunProgress(p) \/ PublishSends(p) => Bounded
      /\ SubscribeSyncStatus \/ SubscribeSyncRunProgress => Bounded
  <2> HIDE DEF Bounded
  <2>1. ASSUME NEW c \in DOMAIN subChans,
               \/ SubscriberLeaves(c) \/ SubscriptionRemoved(c)
               \/ SubscriptionClosed(c) \/ SubscriberReceives(c)
        PROVE  Bounded
    BY <1>2, <2>1 DEF SubscriberLeaves, SubscriptionRemoved, SubscriptionClosed,
                      SubscriberReceives, SubChange, redVars
  <2>2. ASSUME NEW p \in SubPublishers,
               PublishSyncStatus(p) \/ PublishSyncRunProgress(p) \/ PublishSends(p)
        PROVE  Bounded
    BY <1>2, <2>2 DEF PublishSyncStatus, PublishSyncRunProgress, Publish, PublishSends, redVars
  <2>3. ASSUME SubscribeSyncStatus \/ SubscribeSyncRunProgress PROVE Bounded
    BY <1>2, <2>3 DEF SubscribeSyncStatus, SubscribeSyncRunProgress, SubscribeTo, redVars
  <2> QED
    BY <2>1, <2>2, <2>3
<1>5. ASSUME RedisSubscribe \/ SubscribeMultiple PROVE Bounded
  <2>1. StartReceiver
    BY <1>5 DEF RedisSubscribe, SubscribeMultiple
  <2>2. PICK confirmed \in BOOLEAN :
           redRuns' = Append(redRuns, [pc |-> IF confirmed THEN "new" ELSE "gone",
                                       cancelled |-> ~confirmed, done |-> 0])
    BY <2>1 DEF StartReceiver
  <2>3. \E e : redRuns' = Append(redRuns, e)
    BY <2>2
  <2>4. Len(redRuns') = Len(redRuns) + 1
    BY <1>1, <2>3
  <2>5. /\ redS' = [cancel |-> Len(redDones) + 1, done |-> Len(redDones) + 1]
        /\ UNCHANGED <<subKind, redClose>>
    BY <2>1 DEF StartReceiver
  <2>6. redS'.done = Len(redRuns) + 1
    BY <1>1, <2>5
  <2> QED
    BY <1>1, <2>4, <2>5, <2>6
<1>7. ASSUME NEW g \in DOMAIN redRuns,
             ReceiverStarts(g) \/ ReceiverCancelled(g) \/ ReceiverEnds(g)
      PROVE  Bounded
  <2>1. UNCHANGED <<subKind, redS, redClose>>
    BY <1>7 DEF ReceiverStarts, ReceiverCancelled, ReceiverEnds
  <2>2. \E r \in RedRecs : redRuns' = [redRuns EXCEPT ![g] = r]
    <3>1. PICK q : q = redRuns[g]
      OBVIOUS
    <3>2. q \in RedRecs /\ redS.done \in Nat
      BY <1>1, <3>1
    <3>3. PICK a : a = [q EXCEPT !.pc = "runs"]
      OBVIOUS
    <3>4. a \in RedRecs /\ [a EXCEPT !.done = redS.done] \in RedRecs
      BY <3>2, <3>3 DEF RedRecs
    <3>5. [q EXCEPT !.cancelled = TRUE] \in RedRecs /\ [q EXCEPT !.pc = "gone"] \in RedRecs
      BY <3>2 DEF RedRecs
    <3>6. \/ redRuns' = [redRuns EXCEPT ![g].pc = "runs", ![g].done = redS.done]
          \/ redRuns' = [redRuns EXCEPT ![g].cancelled = TRUE]
          \/ redRuns' = [redRuns EXCEPT ![g].pc = "gone"]
      BY <1>7, Zenon DEF ReceiverStarts, ReceiverCancelled, ReceiverEnds
    <3>7. [redRuns EXCEPT ![g].pc = "runs", ![g].done = redS.done]
             = [redRuns EXCEPT ![g] = [a EXCEPT !.done = redS.done]]
      BY <1>1, <3>1, <3>3
    <3>8. /\ [redRuns EXCEPT ![g].cancelled = TRUE] = [redRuns EXCEPT ![g] = [q EXCEPT !.cancelled = TRUE]]
          /\ [redRuns EXCEPT ![g].pc = "gone"] = [redRuns EXCEPT ![g] = [q EXCEPT !.pc = "gone"]]
      BY <3>1
    <3> QED
      BY <3>4, <3>5, <3>6, <3>7, <3>8, Zenon
  <2>3. Len(redRuns') = Len(redRuns)
    BY <1>7, <2>2, RedMoves DEF RedIInv
  <2> QED
    BY <1>1, <2>1, <2>3
<1>8. ASSUME CloseCancels PROVE Bounded
  <2>1. /\ redS' = [redS EXCEPT !.cancel = 0] /\ UNCHANGED subKind
        /\ redClose' \in {"returned", "waits"}
        /\ redRuns' = redRuns \/ redRuns' = [redRuns EXCEPT ![redS.cancel].cancelled = TRUE]
    BY <1>8 DEF CloseCancels
  <2>2. Len(redRuns') = Len(redRuns) /\ redS'.done = redS.done
    BY <1>1, <2>1
  <2> QED
    BY <1>1, <2>1, <2>2
<1>9. ASSUME CloseReturns PROVE Bounded
  <2>1. redS' = [redS EXCEPT !.done = 0] /\ redClose' = "returned" /\ UNCHANGED <<subKind, redRuns>>
    BY <1>9 DEF CloseReturns
  <2>2. redS'.done = 0
    BY <1>1, <2>1
  <2> QED
    BY <1>1, <2>1, <2>2
<1> HIDE DEF Bounded
<1>10. Bounded
  BY <1>3, <1>4, <1>5, <1>7, <1>8, <1>9 DEF SubscriptionsNext
<1> QED
  BY <1>10 DEF Bounded

(* The subscriptions keep their types: no channel holds more events than it *)
(* has room for, and s.cancel and s.done are of goroutines that were made.  *)
LEMMA SubscriptionsTypes == SubscriptionsSpec => []SubscriptionsTypeOK
<1>1. SubscriptionsInit => SubBounded
  <2> SUFFICES ASSUME SubscriptionsInit PROVE SubBounded
    OBVIOUS
  <2>1. subKind \in SubKinds /\ subChans = <<>> /\ redRuns = <<>> /\ redClose = "no" /\ redS.done = 0
    BY DEF SubscriptionsInit
  <2>2. Len(subChans) = 0 /\ Len(redRuns) = 0
    BY <2>1
  <2> QED
    BY <2>1, <2>2 DEF SubBounded
<1>2. HubIInv /\ RedIInv /\ SubBounded /\ [SubscriptionsNext]_subVars => SubBounded'
  <2> SUFFICES ASSUME HubIInv, RedIInv, SubBounded, [SubscriptionsNext]_subVars PROVE SubBounded'
    OBVIOUS
  <2>1. subKind \in SubKinds
    BY DEF SubBounded
  <2> QED
    BY <2>1, SubChansBounded, SubRedBounded DEF SubBounded
<1>3. HubIInv /\ RedIInv /\ SubBounded => SubscriptionsTypeOK
  <2> SUFFICES ASSUME HubIInv, RedIInv, SubBounded PROVE SubscriptionsTypeOK
    OBVIOUS
  <2>1. /\ subChans \in Seq(SubChanRecs) /\ DOMAIN subChans = 1..Len(subChans)
        /\ \A c \in 1..Len(subChans) : subChans[c] \in SubChanRecs
    BY DEF HubIInv, HubShape
  <2>2. \A c \in DOMAIN subChans : subChans[c].state \in {"open", "done", "removed", "closed"}
    BY <2>1 DEF SubChanRecs
  <2>3. redS.cancel \in 0..Len(redDones) /\ redS.done \in 0..Len(redDones)
    <3>1. redS \in [cancel : Nat, done : Nat] /\ redDones \in Seq(Nat) /\ Len(redDones) = Len(redRuns)
          /\ redS.cancel <= Len(redRuns) /\ redS.done <= Len(redRuns)
      BY DEF RedIInv, RedShape, SubBounded
    <3>2. redS.cancel \in Nat /\ redS.done \in Nat /\ Len(redDones) \in Nat
      BY <3>1
    <3> QED
      BY <3>1, <3>2
  <2> QED
    BY <2>1, <2>2, <2>3 DEF SubBounded, SubscriptionsTypeOK
<1> QED
  BY <1>1, <1>2, <1>3, SubscriptionsInductive, PTL DEF SubscriptionsSpec

-----------------------------------------------------------------------------
(* The rate limiters.  What an entry has let through is bounded by what the *)
(* entry keeps, whoever uses it and whether it is still in the map.         *)

LimCalls == {calls \in SUBSET (Int \X Nat) : IsFiniteSet(calls)}
LimEntries ==
    [n : 0..(LimLimit * (LimWindow + 1)), time : Int, calls : LimCalls, log : LimCalls, late : Nat]

WindowOf(kind) == IF kind = "redis" THEN RedisWindow ELSE LimWindow
Between2(log, s, t) == {c \in log : s <= c[1] /\ c[1] < t}

(* A counter: the requests of its window, which are no more than it says,   *)
(* and those of the windows before, as many windows as the time spans.      *)
LimCounted(w, e) ==
    /\ \A c \in e.log : c[1] < e.time + w
    /\ Cardinality(Since(e.log, e.time)) <= e.n
    /\ Cardinality(Since(e.log, e.time)) <= LimLimit
    /\ \A s \in Int, k \in Nat : s <= e.time /\ e.time - s <= k * w =>
          Cardinality(Between2(e.log, s, e.time)) <= k * LimLimit

(* The window slides with the clock.                                        *)
LimSlides(now, e) ==
    e.log = Since(e.calls, now - LimWindow) /\ Cardinality(e.log) <= LimLimit

(* The bucket: from any time on, the tokens taken and those that are left   *)
(* are no more than a full bucket and what has come since.                  *)
LimFilled(e) ==
    /\ \A c \in e.log : c[1] <= e.time
    /\ \A s \in Int : s <= e.time =>
          Cardinality(Since(e.log, s)) * LimWindow + e.n
             <= LimLimit * LimWindow + (e.time - s) * LimLimit

(* The pace: from any time on, the requests but one have each waited.       *)
LimPaced(e) ==
    /\ e.n \in 1..(2 * LimLimit) /\ \A c \in e.log : c[1] <= e.time
    /\ \A s \in Int : s <= e.time =>
          (Cardinality(Since(e.log, s)) - 1) * LimWindow <= (e.time - s) * LimLimit

EntryKept(kind, now, e) ==
    /\ e \in LimEntries /\ e.time <= now
    /\ \A c \in e.log : now - LimWindow <= c[1] /\ c[1] <= now
    /\ kind \in {"redis", "agent"} => LimCounted(WindowOf(kind), e)
    /\ kind = "mcp" => LimSlides(now, e)
    /\ kind = "bucket" => LimFilled(e)
    /\ kind = "rest" => LimPaced(e)

(* One more request, now.                                                   *)
Adds(now, log, more) == \E i \in Nat : more = log \union {<<now, i>>}

(* The smaller of two numbers, and the larger.                              *)
LEMMA MinMaxOfTwo ==
  ASSUME NEW a \in Int, NEW b \in Int
  PROVE  /\ Min({a, b}) \in {a, b} /\ Min({a, b}) <= a /\ Min({a, b}) <= b
         /\ Max({a, b}) \in {a, b} /\ Max({a, b}) >= a /\ Max({a, b}) >= b
<1>1. \E x \in {a, b} : \A y \in {a, b} : x =< y
  OBVIOUS
<1>2. \E x \in {a, b} : \A y \in {a, b} : x >= y
  OBVIOUS
<1>3. Min({a, b}) \in {a, b} /\ \A y \in {a, b} : Min({a, b}) =< y
  BY <1>1 DEF Min
<1>4. Max({a, b}) \in {a, b} /\ \A y \in {a, b} : Max({a, b}) >= y
  BY <1>2 DEF Max
<1> QED
  BY <1>3, <1>4

(* Products with a number that is not negative keep an order.               *)
LEMMA ProductsOrdered ==
  ASSUME NEW a \in Int, NEW b \in Int, a <= b, NEW w \in Nat
  PROVE  a * w <= b * w /\ a * w \in Int /\ b * w \in Int
OBVIOUS

(* The constants are numbers; the script's window is one or more seconds,   *)
(* and more than half of the one it is asked for.                           *)
LEMMA LimConstants ==
  /\ LimLimit \in Nat /\ LimLimit > 0 /\ LimWindow \in Nat /\ LimWindow > 0
  /\ LimIdle \in Nat /\ LimIdle >= LimWindow /\ LimMaxTick \in Nat /\ LimMaxEntries \in Nat
  /\ RedisWindow \in Nat /\ RedisWindow > 0 /\ LimWindow < 2 * RedisWindow
  /\ IsFiniteSet(LimProcs)
<1>1. /\ LimLimit \in Nat /\ LimLimit > 0 /\ LimWindow \in Nat /\ LimWindow > 0
      /\ LimIdle \in Nat /\ LimIdle >= LimWindow /\ LimMaxTick \in Nat /\ LimMaxEntries \in Nat
      /\ LimSecond \in Nat /\ LimSecond > 0 /\ IsFiniteSet(LimProcs)
  BY LimitsAssumption
<1>2. PICK q : q = LimWindow \div LimSecond
  OBVIOUS
<1>3. q \in Nat /\ q * LimSecond <= LimWindow /\ LimWindow < q * LimSecond + LimSecond
  BY <1>1, <1>2
<1>4. PICK m : m = Max({q, 1})
  OBVIOUS
<1>5. m \in {q, 1} /\ m >= q /\ m >= 1
  BY <1>3, <1>4, MinMaxOfTwo
<1>6. m \in Nat /\ RedisWindow = m * LimSecond
  BY <1>2, <1>3, <1>4, <1>5 DEF RedisWindow
<1>7. q * LimSecond <= m * LimSecond /\ 1 * LimSecond <= m * LimSecond /\ 1 * LimSecond = LimSecond
      /\ m * LimSecond \in Nat /\ q * LimSecond \in Nat
  BY <1>1, <1>3, <1>5, <1>6, ProductsOrdered
<1>8. PICK x, y : x = q * LimSecond /\ y = m * LimSecond
  OBVIOUS
<1>9. y \in Nat /\ y > 0 /\ LimWindow < 2 * y
  BY <1>1, <1>3, <1>7, <1>8
<1> QED
  BY <1>1, <1>6, <1>8, <1>9

(* The windows of the counters.                                             *)
LEMMA WindowIs ==
  ASSUME NEW kind
  PROVE  /\ WindowOf(kind) \in Nat /\ WindowOf(kind) > 0 /\ LimWindow < 2 * WindowOf(kind)
         /\ ~(kind = "redis" /\ RedisWindow < LimWindow) => LimWindow <= WindowOf(kind)
BY LimConstants DEF WindowOf

(* Requests that are part of others are no more.                            *)
LEMMA FewerRequests ==
  ASSUME NEW log \in LimCalls, NEW sub \in SUBSET log
  PROVE  /\ sub \in LimCalls /\ IsFiniteSet(sub)
         /\ Cardinality(sub) \in Nat /\ Cardinality(log) \in Nat
         /\ Cardinality(sub) <= Cardinality(log)
<1>1. IsFiniteSet(log) /\ log \subseteq Int \X Nat
  BY DEF LimCalls
<1>2. IsFiniteSet(sub) /\ Cardinality(sub) <= Cardinality(log)
  BY <1>1, FS_Subset
<1> QED
  BY <1>1, <1>2, FS_CardinalityType DEF LimCalls

(* The requests since a time, and between two.                              *)
LEMMA SpansOf ==
  ASSUME NEW log \in LimCalls, NEW sub \in SUBSET log, NEW s, NEW t
  PROVE  /\ Since(log, s) \in SUBSET log /\ Since(log, s) \in LimCalls
         /\ Cardinality(Since(log, s)) \in Nat /\ Cardinality(Since(log, s)) <= Cardinality(log)
         /\ Cardinality(Since(sub, s)) \in Nat
         /\ Cardinality(Since(sub, s)) <= Cardinality(Since(log, s))
         /\ Cardinality(Between2(log, s, t)) \in Nat
         /\ Cardinality(Between2(sub, s, t)) \in Nat
         /\ Cardinality(Between2(sub, s, t)) <= Cardinality(Between2(log, s, t))
<1>1. /\ Since(log, s) \in SUBSET log /\ Since(sub, s) \in SUBSET Since(log, s)
      /\ Between2(log, s, t) \in SUBSET log /\ Between2(sub, s, t) \in SUBSET Between2(log, s, t)
  BY DEF Since, Between2
<1>2. Since(log, s) \in LimCalls /\ Between2(log, s, t) \in LimCalls
  BY <1>1, FewerRequests
<1> QED
  BY <1>1, <1>2, FewerRequests

(* What one more request is.                                                *)
LEMMA NotedAdds ==
  ASSUME limNow \in Nat, NEW log \in LimCalls
  PROVE  Adds(limNow, log, Noted(log))
<1>1. {c \in log : c[1] = limNow} \in SUBSET log
  OBVIOUS
<1>2. Cardinality({c \in log : c[1] = limNow}) \in Nat
  BY <1>1, FewerRequests
<1>3. PICK i : i = Cardinality({c \in log : c[1] = limNow}) + 1
  OBVIOUS
<1>4. i \in Nat /\ Noted(log) = log \union {<<limNow, i>>}
  BY <1>2, <1>3 DEF Noted
<1> QED
  BY <1>4 DEF Adds

LEMMA AddedIs ==
  ASSUME NEW now \in Nat, NEW log \in LimCalls, NEW more, Adds(now, log, more)
  PROVE  /\ more \in LimCalls /\ log \in SUBSET more
         /\ \A c \in more : c \in log \/ c[1] = now
         /\ Cardinality(more) \in Nat /\ Cardinality(log) \in Nat
         /\ Cardinality(more) <= Cardinality(log) + 1
         /\ \A s : /\ Cardinality(Since(more, s)) \in Nat /\ Cardinality(Since(log, s)) \in Nat
                   /\ Cardinality(Since(more, s)) <= Cardinality(Since(log, s)) + 1
<1>1. PICK i \in Nat : more = log \union {<<now, i>>}
  BY DEF Adds
<1>2. PICK x : x = <<now, i>>
  OBVIOUS
<1>3. x \in Int \X Nat /\ x[1] = now /\ more = log \union {x}
  BY <1>1, <1>2
<1>4. IsFiniteSet(log) /\ log \subseteq Int \X Nat
  BY DEF LimCalls
<1>5. more \in LimCalls
  BY <1>3, <1>4, FS_AddElement DEF LimCalls
<1>6. log \in SUBSET more /\ \A c \in more : c \in log \/ c[1] = now
  BY <1>3
<1>7. ASSUME NEW S \in SUBSET log, NEW T \in SUBSET more, T \subseteq S \union {x}
      PROVE  Cardinality(S) \in Nat /\ Cardinality(T) \in Nat /\ Cardinality(T) <= Cardinality(S) + 1
  <2>1. IsFiniteSet(S) /\ Cardinality(S) \in Nat
    BY FewerRequests
  <2>2. PICK U : U = S \union {x}
    OBVIOUS
  <2>3. IsFiniteSet(U) /\ Cardinality(U) <= Cardinality(S) + 1
    <3>1. /\ IsFiniteSet(S \cup {x})
          /\ Cardinality(S \cup {x}) = IF x \in S THEN Cardinality(S) ELSE Cardinality(S) + 1
      BY <2>1, FS_AddElement, Zenon
    <3>2. IsFiniteSet(U) /\ Cardinality(U) = IF x \in S THEN Cardinality(S) ELSE Cardinality(S) + 1
      BY <2>2, <3>1
    <3> QED
      BY <2>1, <3>2
  <2>4. IsFiniteSet(T) /\ Cardinality(T) <= Cardinality(U)
    BY <1>7, <2>2, <2>3, FS_Subset
  <2>5. Cardinality(T) \in Nat /\ Cardinality(U) \in Nat
    BY <2>3, <2>4, FS_CardinalityType
  <2> QED
    BY <2>1, <2>3, <2>4, <2>5
<1>8. Cardinality(more) \in Nat /\ Cardinality(log) \in Nat /\ Cardinality(more) <= Cardinality(log) + 1
  BY <1>3, <1>7
<1>9. ASSUME NEW s
      PROVE  /\ Cardinality(Since(more, s)) \in Nat /\ Cardinality(Since(log, s)) \in Nat
             /\ Cardinality(Since(more, s)) <= Cardinality(Since(log, s)) + 1
  <2>1. Since(log, s) \in SUBSET log /\ Since(more, s) \in SUBSET more
    BY DEF Since
  <2>2. Since(more, s) \subseteq Since(log, s) \union {x}
    BY <1>3, Zenon DEF Since
  <2> QED
    BY <2>1, <2>2, <1>7
<1> QED
  BY <1>5, <1>6, <1>8, <1>9

(* Nothing has been let through.                                            *)
LEMMA NoneSince ==
  /\ {} \in LimCalls /\ Cardinality({}) = 0
  /\ \A s : Since({}, s) = {} /\ Cardinality(Since({}, s)) = 0
  /\ \A s, t : Cardinality(Between2({}, s, t)) = 0
<1>1. /\ \A s : Since({}, s) = {}
      /\ \A s, t : Between2({}, s, t) = {}
  BY DEF Since, Between2
<1> QED
  BY <1>1, FS_EmptySet DEF LimCalls

(* A bound that holds of nothing.                                           *)
LEMMA BoundOfNone ==
  ASSUME NEW a \in Int, NEW b \in Int, a <= b, NEW w \in Nat, NEW l \in Nat
  PROVE  /\ 0 * w + l * w <= l * w + (b - a) * l
         /\ (0 - 1) * w <= (b - a) * l
         /\ (b - a) * l \in Nat
<1>1. b - a \in Nat
  OBVIOUS
<1>2. (b - a) * l \in Nat
  BY <1>1
<1>3. PICK x, y : x = l * w /\ y = (b - a) * l
  OBVIOUS
<1>4. x \in Nat /\ y \in Nat /\ 0 * w = 0 /\ (0 - 1) * w = -w
  BY <1>2, <1>3
<1>5. 0 + x <= x + y /\ -w <= y
  BY <1>4
<1> QED
  BY <1>2, <1>3, <1>4, <1>5

(* An entry that has let nothing through yet.                               *)
LEMMA FreshKept ==
  ASSUME NEW kind, NEW now \in Nat, NEW e \in LimEntries, e.time <= now, e.log = {}, e.calls = {},
         kind \in {"redis", "agent"} => e.n = 0,
         kind = "bucket" => e.n = LimLimit * LimWindow,
         kind = "rest" => e.n \in 1..(2 * LimLimit)
  PROVE  EntryKept(kind, now, e)
<1>1. e.time \in Int /\ e.n \in Int
  BY LimConstants DEF LimEntries
<1>2. kind \in {"redis", "agent"} => LimCounted(WindowOf(kind), e)
  <2> SUFFICES ASSUME kind \in {"redis", "agent"} PROVE LimCounted(WindowOf(kind), e)
    OBVIOUS
  <2>1. ASSUME NEW s \in Int, NEW k \in Nat
        PROVE  Cardinality(Between2(e.log, s, e.time)) <= k * LimLimit
    <3>1. k * LimLimit \in Nat
      BY LimConstants
    <3>2. Cardinality(Between2(e.log, s, e.time)) = 0
      BY NoneSince
    <3> QED
      BY <3>1, <3>2
  <2>2. Cardinality(Since(e.log, e.time)) = 0 /\ 0 <= LimLimit /\ e.n = 0
    BY NoneSince, LimConstants
  <2> QED
    BY <2>1, <2>2 DEF LimCounted
<1>3. kind = "mcp" => LimSlides(now, e)
  BY NoneSince, LimConstants DEF LimSlides
<1>4. kind = "bucket" => LimFilled(e)
  <2> SUFFICES ASSUME kind = "bucket" PROVE LimFilled(e)
    OBVIOUS
  <2>1. ASSUME NEW s \in Int, s <= e.time
        PROVE  Cardinality(Since(e.log, s)) * LimWindow + e.n
                  <= LimLimit * LimWindow + (e.time - s) * LimLimit
    <3>1. Cardinality(Since(e.log, s)) = 0
      BY NoneSince
    <3>2. 0 * LimWindow + LimLimit * LimWindow <= LimLimit * LimWindow + (e.time - s) * LimLimit
      BY <1>1, <2>1, LimConstants, BoundOfNone
    <3> QED
      BY <3>1, <3>2
  <2> QED
    BY <2>1 DEF LimFilled
<1>5. kind = "rest" => LimPaced(e)
  <2> SUFFICES ASSUME kind = "rest" PROVE LimPaced(e)
    OBVIOUS
  <2>1. ASSUME NEW s \in Int, s <= e.time
        PROVE  (Cardinality(Since(e.log, s)) - 1) * LimWindow <= (e.time - s) * LimLimit
    <3>1. Cardinality(Since(e.log, s)) = 0
      BY NoneSince
    <3>2. (0 - 1) * LimWindow <= (e.time - s) * LimLimit
      BY <1>1, <2>1, LimConstants, BoundOfNone
    <3> QED
      BY <3>1, <3>2
  <2> QED
    BY <2>1 DEF LimPaced
<1> QED
  BY <1>2, <1>3, <1>4, <1>5 DEF EntryKept

(* A tick lets requests leave the window and nothing else happen.           *)
LEMMA EntryTicks ==
  ASSUME NEW kind, NEW now \in Nat, NEW e, EntryKept(kind, now, e),
         NEW next, next = now + 1,
         NEW d \in LimEntries, d.log = Since(e.log, next - LimWindow),
         d.time = e.time, d.n = e.n, d.calls = e.calls
  PROVE  EntryKept(kind, next, d)
<1>1. e \in LimEntries /\ e.time <= now /\ e.log \in LimCalls /\ e.calls \in LimCalls
      /\ e.time \in Int /\ e.n \in Int
  BY LimConstants DEF EntryKept, LimEntries
<1>2. PICK t : t = next - LimWindow
  OBVIOUS
<1>3. t \in Int /\ now - LimWindow \in Int /\ now - LimWindow <= t
  BY <1>2, LimConstants
<1>4. PICK log : log = Since(e.log, t)
  OBVIOUS
<1>5. log \in SUBSET e.log /\ log \in LimCalls
  BY <1>1, <1>4, SpansOf
<1>6. d \in LimEntries /\ d.log = log /\ d.time = e.time /\ d.n = e.n /\ d.calls = e.calls
  BY <1>2, <1>4
<1>7. d.time <= next
  BY <1>1, <1>6
<1>8. \A c \in log : next - LimWindow <= c[1] /\ c[1] <= next
  <2>1. \A c \in log : c[1] \in Int /\ c[1] <= now /\ t <= c[1]
    BY <1>4, <1>5 DEF EntryKept, Since, LimCalls
  <2> QED
    BY <1>2, <2>1
<1>9. /\ Cardinality(e.log) \in Nat /\ Cardinality(log) \in Nat
      /\ Cardinality(log) <= Cardinality(e.log)
  BY <1>1, <1>5, FewerRequests
<1>10. \A s, u : /\ Cardinality(Since(log, s)) \in Nat /\ Cardinality(Since(e.log, s)) \in Nat
                 /\ Cardinality(Since(log, s)) <= Cardinality(Since(e.log, s))
                 /\ Cardinality(Between2(log, s, u)) \in Nat
                 /\ Cardinality(Between2(e.log, s, u)) \in Nat
                 /\ Cardinality(Between2(log, s, u)) <= Cardinality(Between2(e.log, s, u))
  BY <1>1, <1>5, SpansOf
<1>11. kind \in {"redis", "agent"} => LimCounted(WindowOf(kind), d)
  <2> SUFFICES ASSUME kind \in {"redis", "agent"} PROVE LimCounted(WindowOf(kind), d)
    OBVIOUS
  <2>1. LimCounted(WindowOf(kind), e)
    BY DEF EntryKept
  <2>2. \A c \in d.log : c[1] < d.time + WindowOf(kind)
    BY <1>5, <1>6, <2>1 DEF LimCounted
  <2>3. PICK a, b : a = Cardinality(Since(e.log, e.time)) /\ b = Cardinality(Since(log, e.time))
    OBVIOUS
  <2>4. b <= e.n /\ b <= LimLimit
    <3>1. a \in Nat /\ b \in Nat /\ b <= a
      BY <1>10, <2>3
    <3>2. a <= e.n /\ a <= LimLimit
      BY <2>1, <2>3 DEF LimCounted
    <3> QED
      BY <1>1, <3>1, <3>2, LimConstants
  <2>5. ASSUME NEW s \in Int, NEW k \in Nat, s <= e.time, e.time - s <= k * WindowOf(kind)
        PROVE  Cardinality(Between2(log, s, e.time)) <= k * LimLimit
    <3>1. PICK x, y, z : /\ x = Cardinality(Between2(e.log, s, e.time))
                         /\ y = Cardinality(Between2(log, s, e.time)) /\ z = k * LimLimit
      OBVIOUS
    <3>2. x \in Nat /\ y \in Nat /\ y <= x /\ z \in Int
      BY <1>10, <3>1, LimConstants
    <3>3. x <= z
      BY <2>1, <2>5, <3>1 DEF LimCounted
    <3> QED
      BY <3>1, <3>2, <3>3
  <2> QED
    BY <1>6, <2>2, <2>3, <2>4, <2>5 DEF LimCounted
<1>12. kind = "mcp" => LimSlides(next, d)
  <2> SUFFICES ASSUME kind = "mcp" PROVE LimSlides(next, d)
    OBVIOUS
  <2>1. e.log = Since(e.calls, now - LimWindow) /\ Cardinality(e.log) <= LimLimit
    BY DEF EntryKept, LimSlides
  <2>2. \A c \in e.calls : c[1] \in Int
    BY <1>1 DEF LimCalls
  <2>3. PICK r : r = now - LimWindow
    OBVIOUS
  <2>4. Since(Since(e.calls, r), t) = Since(e.calls, t)
    BY <1>3, <2>2, <2>3 DEF Since
  <2>5. log = Since(e.calls, t)
    BY <1>4, <2>1, <2>3, <2>4
  <2>6. Cardinality(log) <= LimLimit
    BY <1>9, <2>1, LimConstants
  <2> QED
    BY <1>2, <1>6, <2>5, <2>6 DEF LimSlides
<1>13. kind = "bucket" => LimFilled(d)
  <2> SUFFICES ASSUME kind = "bucket" PROVE LimFilled(d)
    OBVIOUS
  <2>1. LimFilled(e)
    BY DEF EntryKept
  <2>2. ASSUME NEW s \in Int, s <= e.time
        PROVE  Cardinality(Since(log, s)) * LimWindow + e.n
                  <= LimLimit * LimWindow + (e.time - s) * LimLimit
    <3>1. PICK a, b : a = Cardinality(Since(e.log, s)) /\ b = Cardinality(Since(log, s))
      OBVIOUS
    <3>2. a \in Nat /\ b \in Nat /\ b <= a
      BY <1>10, <3>1
    <3>3. a * LimWindow + e.n <= LimLimit * LimWindow + (e.time - s) * LimLimit
      BY <2>1, <2>2, <3>1 DEF LimFilled
    <3>4. PICK r : r = LimLimit * LimWindow + (e.time - s) * LimLimit
      OBVIOUS
    <3>5. r \in Int
      BY <1>1, <2>2, <3>4, LimConstants
    <3>6. b * LimWindow <= a * LimWindow /\ b * LimWindow \in Int /\ a * LimWindow \in Int
      BY <3>2, LimConstants, ProductsOrdered
    <3>7. b * LimWindow + e.n <= r
      BY <1>1, <3>3, <3>4, <3>5, <3>6
    <3> QED
      BY <3>1, <3>4, <3>7
  <2> QED
    BY <1>5, <1>6, <2>1, <2>2 DEF LimFilled
<1>14. kind = "rest" => LimPaced(d)
  <2> SUFFICES ASSUME kind = "rest" PROVE LimPaced(d)
    OBVIOUS
  <2>1. LimPaced(e)
    BY DEF EntryKept
  <2>2. ASSUME NEW s \in Int, s <= e.time
        PROVE  (Cardinality(Since(log, s)) - 1) * LimWindow <= (e.time - s) * LimLimit
    <3>1. PICK a, b : a = Cardinality(Since(e.log, s)) /\ b = Cardinality(Since(log, s))
      OBVIOUS
    <3>2. a - 1 \in Int /\ b - 1 \in Int /\ b - 1 <= a - 1
      BY <1>10, <3>1
    <3>3. (a - 1) * LimWindow <= (e.time - s) * LimLimit
      BY <2>1, <2>2, <3>1 DEF LimPaced
    <3>4. PICK r : r = (e.time - s) * LimLimit
      OBVIOUS
    <3>5. r \in Int
      BY <1>1, <2>2, <3>4, LimConstants
    <3>6. (b - 1) * LimWindow <= (a - 1) * LimWindow
          /\ (b - 1) * LimWindow \in Int /\ (a - 1) * LimWindow \in Int
      BY <3>2, LimConstants, ProductsOrdered
    <3>7. (b - 1) * LimWindow <= r
      BY <3>3, <3>4, <3>5, <3>6
    <3> QED
      BY <3>1, <3>4, <3>7
  <2> QED
    BY <1>5, <1>6, <2>1, <2>2 DEF LimPaced
<1> QED
  BY <1>6, <1>7, <1>8, <1>11, <1>12, <1>13, <1>14 DEF EntryKept

(* What an entry keeps bounds what it lets through.                         *)
MostOf(kind) ==
    CASE kind = "mcp" -> LimLimit
      [] kind = "rest" -> LimLimit + 1
      [] kind = "redis" /\ RedisWindow < LimWindow -> 3 * LimLimit
      [] OTHER -> 2 * LimLimit

LEMMA EntryBounded ==
  ASSUME NEW kind \in {"redis", "agent", "mcp", "bucket", "rest"}, NEW now \in Nat, NEW e,
         EntryKept(kind, now, e)
  PROVE  Cardinality(e.log) <= MostOf(kind)
<1>1. e \in LimEntries /\ e.time <= now /\ e.log \in LimCalls /\ e.time \in Int /\ e.n \in Nat
  BY LimConstants DEF EntryKept, LimEntries
<1>2. PICK k : k = Cardinality(e.log)
  OBVIOUS
<1>3. k \in Nat
  BY <1>1, <1>2, FewerRequests
<1>4. PICK s : s = now - LimWindow
  OBVIOUS
<1>5. \A c \in e.log : c[1] \in Int /\ s <= c[1]
  BY <1>1, <1>4 DEF EntryKept, LimCalls
<1>6. s \in Int /\ Since(e.log, s) = e.log
  BY <1>4, <1>5, LimConstants DEF Since
<1>7. CASE k = 0
  BY <1>2, <1>7, LimConstants DEF MostOf
<1>8. CASE k # 0 /\ kind \in {"redis", "agent"}
  <2>1. PICK w : w = WindowOf(kind)
    OBVIOUS
  <2>2. w \in Nat /\ w > 0 /\ LimWindow < 2 * w
        /\ (~(kind = "redis" /\ RedisWindow < LimWindow) => LimWindow <= w)
    BY <2>1, WindowIs
  <2>3. LimCounted(w, e)
    BY <1>8, <2>1 DEF EntryKept
  <2>4. PICK A, B : A = Since(e.log, e.time) /\ B = Between2(e.log, s, e.time)
    OBVIOUS
  <2>5. A \in SUBSET e.log /\ B \in SUBSET e.log /\ e.log = A \union B
    BY <1>1, <1>5, <2>4 DEF Since, Between2
  <2>6. IsFiniteSet(A) /\ IsFiniteSet(B) /\ IsFiniteSet(A \cap B)
        /\ Cardinality(A) \in Nat /\ Cardinality(B) \in Nat /\ Cardinality(A \cap B) \in Nat
    <3>1. A \cap B \in SUBSET e.log
      BY <2>5
    <3> QED
      BY <1>1, <2>5, <3>1, FewerRequests
  <2>7. k = Cardinality(A) + Cardinality(B) - Cardinality(A \cap B)
    BY <1>2, <2>5, <2>6, FS_Union
  <2>8. Cardinality(A) <= LimLimit
    BY <2>3, <2>4 DEF LimCounted
  <2>9. ASSUME NEW j \in Nat, LimWindow <= j * w
        PROVE  k <= LimLimit + j * LimLimit
    <3>1. CASE s <= e.time
      <4>1. PICK z : z = j * w
        OBVIOUS
      <4>2. z \in Int
        BY <2>2, <2>9, <4>1
      <4>3. e.time - s <= z
        BY <1>1, <1>4, <1>6, <2>9, <4>1, <4>2, LimConstants
      <4>4. Cardinality(B) <= j * LimLimit
        BY <1>6, <2>3, <2>4, <3>1, <4>1, <4>3 DEF LimCounted
      <4>5. PICK y : y = j * LimLimit
        OBVIOUS
      <4>6. y \in Int
        BY <2>9, <4>5, LimConstants
      <4> QED
        BY <1>3, <2>6, <2>7, <2>8, <4>4, <4>5, <4>6, LimConstants
    <3>2. CASE ~(s <= e.time)
      <4>1. B = {}
        <5>1. \A c \in e.log : ~(s <= c[1] /\ c[1] < e.time)
          BY <1>1, <1>5, <1>6, <3>2
        <5> QED
          BY <2>4, <5>1 DEF Between2
      <4>2. Cardinality(B) = 0
        BY <4>1, FS_EmptySet
      <4>3. j * LimLimit \in Nat
        BY <2>9, LimConstants
      <4>4. PICK y : y = j * LimLimit
        OBVIOUS
      <4> QED
        BY <1>3, <2>6, <2>7, <2>8, <4>2, <4>3, <4>4, LimConstants
    <3> QED
      BY <3>1, <3>2
  <2>10. CASE kind = "redis" /\ RedisWindow < LimWindow
    <3>1. LimWindow <= 2 * w
      BY <2>2, LimConstants
    <3>2. k <= LimLimit + 2 * LimLimit
      BY <2>9, <3>1
    <3> QED
      BY <1>2, <1>3, <2>10, <3>2, LimConstants DEF MostOf
  <2>11. CASE ~(kind = "redis" /\ RedisWindow < LimWindow)
    <3>1. LimWindow <= 1 * w
      BY <2>2, <2>11, LimConstants
    <3>2. k <= LimLimit + 1 * LimLimit
      BY <2>9, <3>1
    <3>3. MostOf(kind) = 2 * LimLimit
      BY <1>8, <2>11 DEF MostOf
    <3> QED
      BY <1>2, <1>3, <3>2, <3>3, LimConstants
  <2> QED
    BY <2>10, <2>11
<1>9. CASE kind = "mcp"
  BY <1>9 DEF EntryKept, LimSlides, MostOf
<1>10. ASSUME k # 0, \A c \in e.log : c[1] <= e.time
       PROVE  /\ s <= e.time /\ e.time - s <= LimWindow /\ e.time - s \in Nat
              /\ (e.time - s) * LimLimit <= LimWindow * LimLimit
              /\ (e.time - s) * LimLimit \in Int
  <2>1. PICK c \in e.log : TRUE
    BY <1>2, <1>10, NoneSince
  <2>2. s <= c[1] /\ c[1] <= e.time /\ c[1] \in Int
    BY <1>5, <1>10, <2>1
  <2>3. s <= e.time /\ e.time - s <= LimWindow /\ e.time - s \in Nat
    BY <1>1, <1>4, <1>6, <2>2, LimConstants
  <2>4. LimWindow \in Int /\ LimLimit \in Nat /\ e.time - s \in Int
    BY <2>3, LimConstants
  <2> QED
    BY <2>3, <2>4, ProductsOrdered
<1>11. CASE k # 0 /\ kind = "bucket"
  <2>1. LimFilled(e)
    BY <1>11 DEF EntryKept
  <2>2. s <= e.time /\ (e.time - s) * LimLimit <= LimWindow * LimLimit /\ (e.time - s) * LimLimit \in Int
    BY <1>10, <1>11, <2>1 DEF LimFilled
  <2>3. k * LimWindow + e.n <= LimLimit * LimWindow + (e.time - s) * LimLimit
    BY <1>2, <1>6, <2>1, <2>2 DEF LimFilled
  <2>4. PICK y : y = (e.time - s) * LimLimit
    OBVIOUS
  <2>5. k * LimWindow <= (2 * LimLimit) * LimWindow
    BY <1>1, <1>3, <2>2, <2>3, <2>4, LimConstants
  <2>6. k <= 2 * LimLimit
    BY <1>3, <2>5, LimConstants
  <2> QED
    BY <1>2, <1>11, <2>6 DEF MostOf
<1>12. CASE k # 0 /\ kind = "rest"
  <2>1. LimPaced(e)
    BY <1>12 DEF EntryKept
  <2>2. s <= e.time /\ (e.time - s) * LimLimit <= LimWindow * LimLimit /\ (e.time - s) * LimLimit \in Int
    BY <1>10, <1>12, <2>1 DEF LimPaced
  <2>3. (k - 1) * LimWindow <= (e.time - s) * LimLimit
    BY <1>2, <1>6, <2>1, <2>2 DEF LimPaced
  <2>4. PICK y : y = (e.time - s) * LimLimit
    OBVIOUS
  <2>5. (k - 1) * LimWindow <= LimLimit * LimWindow
    BY <1>3, <2>2, <2>3, <2>4, LimConstants
  <2>6. k - 1 <= LimLimit
    BY <1>3, <2>5, LimConstants
  <2> QED
    BY <1>2, <1>3, <1>12, <2>6, LimConstants DEF MostOf
<1> QED
  BY <1>7, <1>8, <1>9, <1>11, <1>12

(* What an entry's log may become: the same, or one more if it lets one     *)
(* through.                                                                 *)
Grows(now, e, d, ok) == IF ok = 1 THEN Adds(now, e.log, d.log) ELSE d.log = e.log

LEMMA GrownIs ==
  ASSUME NEW kind, NEW now \in Nat, NEW e, EntryKept(kind, now, e),
         NEW d \in LimEntries, NEW ok \in Nat, ok <= 1, Grows(now, e, d, ok)
  PROVE  /\ \A c \in d.log : c[1] # now => c \in e.log
         /\ \A c \in d.log : now - LimWindow <= c[1] /\ c[1] <= now
         /\ e.log \in SUBSET d.log
         /\ \A s : /\ Cardinality(Since(d.log, s)) \in Nat /\ Cardinality(Since(e.log, s)) \in Nat
                   /\ Cardinality(Since(d.log, s))
                         <= Cardinality(Since(e.log, s)) + ok
         /\ Cardinality(d.log) \in Nat /\ Cardinality(e.log) \in Nat
         /\ Cardinality(d.log) <= Cardinality(e.log) + ok
<1>1. e.log \in LimCalls /\ \A c \in e.log : now - LimWindow <= c[1] /\ c[1] <= now
  BY DEF EntryKept, LimEntries
<1>2. now - LimWindow <= now /\ now <= now
  BY LimConstants
<1>3. CASE ok = 1
  <2>1. Adds(now, e.log, d.log)
    BY <1>3 DEF Grows
  <2>2. PICK log : log = d.log
    OBVIOUS
  <2>3. /\ log \in LimCalls /\ e.log \in SUBSET log
        /\ \A c \in log : c \in e.log \/ c[1] = now
        /\ Cardinality(log) \in Nat /\ Cardinality(e.log) \in Nat
        /\ Cardinality(log) <= Cardinality(e.log) + 1
        /\ \A s : /\ Cardinality(Since(log, s)) \in Nat /\ Cardinality(Since(e.log, s)) \in Nat
                  /\ Cardinality(Since(log, s)) <= Cardinality(Since(e.log, s)) + 1
    BY <1>1, <2>1, <2>2, AddedIs
  <2>4. \A c \in log : now - LimWindow <= c[1] /\ c[1] <= now
    BY <1>1, <1>2, <2>3
  <2> QED
    BY <1>3, <2>2, <2>3, <2>4
<1>4. CASE ok = 0
  <2>1. d.log = e.log
    BY <1>4 DEF Grows
  <2>2. \A s : Cardinality(Since(e.log, s)) \in Nat
    BY <1>1, SpansOf
  <2>3. Cardinality(e.log) \in Nat
    BY <1>1, FewerRequests
  <2> QED
    BY <1>1, <1>4, <2>1, <2>2, <2>3
<1> QED
  BY <1>3, <1>4

(* A counter whose window has passed begins again.                          *)
LEMMA CounterBegins ==
  ASSUME NEW kind \in {"redis", "agent"}, NEW now \in Nat, NEW e, EntryKept(kind, now, e),
         now - e.time >= WindowOf(kind),
         NEW d \in LimEntries, d.n = 0, d.time = now, d.log = e.log
  PROVE  EntryKept(kind, now, d)
<1>1. e \in LimEntries /\ e.time <= now /\ e.log \in LimCalls /\ e.time \in Int /\ e.n \in Int
  BY LimConstants DEF EntryKept, LimEntries
<1>2. PICK w : w = WindowOf(kind)
  OBVIOUS
<1>3. w \in Nat /\ w > 0 /\ now - e.time >= w
  BY <1>2, WindowIs
<1>4. LimCounted(w, e)
  BY <1>2 DEF EntryKept
<1>5. \A c \in e.log : c[1] \in Int /\ c[1] < now
  <2>1. \A c \in e.log : c[1] \in Int /\ c[1] < e.time + w
    BY <1>1, <1>4 DEF LimCounted, LimCalls
  <2> QED
    BY <1>1, <1>3, <2>1
<1>6. Since(e.log, now) = {}
  <2>1. \A c \in e.log : ~(c[1] >= now)
    BY <1>5
  <2> QED
    BY <2>1, Zenon DEF Since
<1>7. ASSUME NEW s \in Int, NEW k \in Nat, s <= now, now - s <= k * w
      PROVE  Cardinality(Between2(e.log, s, now)) <= k * LimLimit
  <2>1. PICK T : T = Between2(e.log, s, now)
    OBVIOUS
  <2>2. T \in SUBSET e.log /\ IsFiniteSet(T) /\ Cardinality(T) \in Nat
    <3>1. T \in SUBSET e.log
      BY <2>1 DEF Between2
    <3> QED
      BY <1>1, <3>1, FewerRequests
  <2>3. PICK A : A = Since(e.log, e.time)
    OBVIOUS
  <2>4. IsFiniteSet(A) /\ Cardinality(A) \in Nat /\ Cardinality(A) <= LimLimit
    <3>1. A \in SUBSET e.log
      BY <2>3 DEF Since
    <3>2. Cardinality(A) <= LimLimit
      BY <1>4, <2>3 DEF LimCounted
    <3> QED
      BY <1>1, <3>1, <3>2, FewerRequests
  <2>5. CASE k = 0
    <3>1. k * w = 0 /\ k * LimLimit = 0
      BY <1>3, <2>5, LimConstants
    <3>2. s = now
      BY <1>7, <3>1
    <3>3. T = {}
      <4>1. \A c \in e.log : ~(s <= c[1] /\ c[1] < now)
        BY <1>5, <3>2
      <4> QED
        BY <2>1, <4>1 DEF Between2
    <3>4. Cardinality(T) = 0
      BY <3>3, FS_EmptySet
    <3> QED
      BY <2>1, <3>1, <3>4
  <2>6. CASE k # 0 /\ s > e.time
    <3>1. T \in SUBSET A
      BY <1>1, <1>5, <2>1, <2>3, <2>6 DEF Between2, Since
    <3>2. Cardinality(T) <= Cardinality(A)
      BY <2>4, <3>1, FS_Subset
    <3>3. 1 * LimLimit <= k * LimLimit /\ 1 * LimLimit = LimLimit /\ k * LimLimit \in Int
      <4>1. 1 <= k
        BY <2>6
      <4> QED
        BY <4>1, LimConstants, ProductsOrdered
    <3>4. PICK y : y = k * LimLimit
      OBVIOUS
    <3> QED
      BY <2>1, <2>2, <2>4, <3>2, <3>3, <3>4, LimConstants
  <2>7. CASE k # 0 /\ ~(s > e.time)
    <3>1. PICK j : j = k - 1
      OBVIOUS
    <3>2. j \in Nat /\ k * w = j * w + w /\ k * LimLimit = j * LimLimit + LimLimit
      BY <1>3, <2>7, <3>1, LimConstants
    <3>3. PICK x, y : x = j * w /\ y = j * LimLimit
      OBVIOUS
    <3>4. x \in Int /\ y \in Int
      BY <1>3, <3>2, <3>3, LimConstants
    <3>5. s <= e.time /\ e.time - s <= x
      BY <1>1, <1>3, <1>7, <2>7, <3>2, <3>3, <3>4
    <3>6. PICK B : B = Between2(e.log, s, e.time)
      OBVIOUS
    <3>7. Cardinality(B) <= y /\ IsFiniteSet(B) /\ Cardinality(B) \in Nat
      <4>1. Cardinality(B) <= j * LimLimit
        BY <1>4, <3>2, <3>3, <3>5, <3>6 DEF LimCounted
      <4>2. B \in SUBSET e.log
        BY <3>6 DEF Between2
      <4> QED
        BY <1>1, <3>3, <4>1, <4>2, FewerRequests
    <3>8. T \in SUBSET (A \union B)
      <4>1. \A c \in e.log : c[1] >= e.time \/ c[1] < e.time
        BY <1>1, <1>5
      <4> QED
        BY <2>1, <2>3, <3>6, <4>1 DEF Between2, Since
    <3>9. A \cap B \in SUBSET e.log
      BY <2>3 DEF Since
    <3>10. IsFiniteSet(A \cap B) /\ Cardinality(A \cap B) \in Nat
      BY <1>1, <3>9, FewerRequests
    <3>11. PICK U : U = A \union B
      OBVIOUS
    <3>12. IsFiniteSet(U) /\ Cardinality(U) = Cardinality(A) + Cardinality(B) - Cardinality(A \cap B)
      BY <2>4, <3>7, <3>11, FS_Union
    <3>13. Cardinality(T) <= Cardinality(U) /\ Cardinality(U) \in Nat
      BY <3>8, <3>11, <3>12, FS_Subset, FS_CardinalityType
    <3>14. Cardinality(T) <= y + LimLimit
      BY <2>2, <2>4, <3>4, <3>7, <3>10, <3>12, <3>13, LimConstants
    <3> QED
      BY <2>1, <3>2, <3>3, <3>14
  <2> QED
    BY <2>5, <2>6, <2>7
<1>8. LimCounted(w, d)
  <2>1. Cardinality(Since(d.log, d.time)) = 0
    BY <1>6, FS_EmptySet
  <2>2. \A c \in d.log : c[1] < d.time + w
    BY <1>3, <1>5
  <2> QED
    BY <1>7, <2>1, <2>2, LimConstants DEF LimCounted
<1>9. \A c \in d.log : now - LimWindow <= c[1] /\ c[1] <= now
  BY DEF EntryKept
<1> QED
  BY <1>2, <1>8, <1>9 DEF EntryKept

(* A counter lets a request of its window through and counts it, or only    *)
(* counts.                                                                  *)
LEMMA CounterCounts ==
  ASSUME NEW kind \in {"redis", "agent"}, NEW now \in Nat, NEW e, EntryKept(kind, now, e),
         now < e.time + WindowOf(kind), NEW d \in LimEntries, NEW ok \in Nat, ok <= 1,
         Grows(now, e, d, ok), d.time = e.time, d.n >= e.n, ok = 1 => d.n = e.n + 1 /\ d.n <= LimLimit
  PROVE  EntryKept(kind, now, d)
<1>1. e \in LimEntries /\ e.time <= now /\ e.log \in LimCalls /\ e.time \in Int /\ e.n \in Int
      /\ d.n \in Int
  BY LimConstants DEF EntryKept, LimEntries
<1>2. PICK w : w = WindowOf(kind)
  OBVIOUS
<1>3. LimCounted(w, e) /\ now < e.time + w
  BY <1>2 DEF EntryKept
<1>4. /\ \A c \in d.log : c[1] # now => c \in e.log
      /\ \A c \in d.log : now - LimWindow <= c[1] /\ c[1] <= now
      /\ e.log \in SUBSET d.log
  <2>1. \A c \in d.log : c[1] # now => c \in e.log
    BY GrownIs
  <2>2. \A c \in d.log : now - LimWindow <= c[1] /\ c[1] <= now
    BY GrownIs
  <2>3. e.log \in SUBSET d.log
    BY GrownIs
  <2> QED
    BY <2>1, <2>2, <2>3
<1>5. \A c \in d.log : c[1] < d.time + w
  BY <1>3, <1>4 DEF LimCounted
<1>6. PICK a, b : a = Cardinality(Since(e.log, e.time)) /\ b = Cardinality(Since(d.log, d.time))
  OBVIOUS
<1>7. a \in Nat /\ b \in Nat /\ b <= a + ok
  BY <1>6, GrownIs, Zenon
<1>8. a <= e.n /\ a <= LimLimit
  BY <1>3, <1>6 DEF LimCounted
<1>9. b <= d.n /\ b <= LimLimit
  BY <1>1, <1>7, <1>8, LimConstants
<1>10. \A s \in Int : Between2(d.log, s, d.time) = Between2(e.log, s, e.time)
  <2>1. \A c \in d.log : c[1] < d.time => c \in e.log
    BY <1>1, <1>4
  <2> QED
    BY <1>4, <2>1 DEF Between2
<1>11. LimCounted(w, d)
  BY <1>3, <1>5, <1>6, <1>9, <1>10 DEF LimCounted
<1> QED
  BY <1>1, <1>2, <1>4, <1>11 DEF EntryKept

(* A bucket that is refilled and gives a request its tokens, in numbers:    *)
(* l per tick, w per request, of what it had at time t, now.                *)
LEMMA BucketGives ==
  ASSUME NEW l \in Nat, NEW w \in Nat, NEW t \in Int, NEW now \in Int, t <= now,
         NEW s \in Int, s <= t, NEW a \in Nat, NEW n \in Int, NEW tokens \in Int,
         a * w + n <= l * w + (t - s) * l, tokens <= n + (now - t) * l
  PROVE  /\ a * w + tokens <= l * w + (now - s) * l
         /\ (a + 1) * w + (tokens - w) <= l * w + (now - s) * l
<1>1. (a + 1) * w = a * w + w
  OBVIOUS
<1>2. (now - s) * l = (t - s) * l + (now - t) * l
  OBVIOUS
<1>3. PICK x, y, u, v, z : /\ x = a * w /\ y = l * w /\ u = (t - s) * l /\ v = (now - t) * l
                           /\ z = (now - s) * l
  OBVIOUS
<1>4. x \in Int /\ y \in Int /\ u \in Int /\ v \in Int /\ z = u + v
  BY <1>2, <1>3
<1>5. x + n <= y + u /\ tokens <= n + v
  BY <1>3
<1>6. x + tokens <= y + z
  BY <1>4, <1>5
<1>7. (x + w) + (tokens - w) <= y + z
  BY <1>4, <1>6
<1> QED
  BY <1>1, <1>3, <1>6, <1>7

(* A request whose interval has passed, in numbers.                         *)
LEMMA PaceWaited ==
  ASSUME NEW l \in Nat, NEW w \in Nat, NEW n \in Nat, n <= 2 * l, NEW t \in Int, NEW now \in Int,
         t <= now, (now - t) * n >= 2 * w, NEW s \in Int, s <= t, NEW a \in Int,
         (a - 1) * w <= (t - s) * l
  PROVE  ((a + 1) - 1) * w <= (now - s) * l
<1>1. PICK x : x = now - t
  OBVIOUS
<1>2. x \in Nat
  BY <1>1
<1>3. n * x <= (2 * l) * x
  BY <1>2, ProductsOrdered
<1>4. x * n = n * x /\ (2 * l) * x = 2 * (x * l) /\ x * l \in Int /\ n * x \in Int
  BY <1>2
<1>5. PICK y : y = x * l
  OBVIOUS
<1>6. 2 * w <= 2 * y
  BY <1>1, <1>3, <1>4, <1>5
<1>7. w <= y /\ y \in Int
  BY <1>4, <1>5, <1>6
<1>8. (now - s) * l = (t - s) * l + y
  BY <1>1, <1>5
<1>9. ((a + 1) - 1) * w = (a - 1) * w + w
  OBVIOUS
<1>10. PICK u, v : u = (a - 1) * w /\ v = (t - s) * l
  OBVIOUS
<1>11. u \in Int /\ v \in Int /\ u <= v
  BY <1>10
<1>12. u + w <= v + y
  BY <1>7, <1>11
<1> QED
  BY <1>8, <1>9, <1>10, <1>12

(* A bucket takes what has come since its last use, and gives it away.      *)
LEMMA BucketUses ==
  ASSUME NEW now \in Nat, NEW e, EntryKept("bucket", now, e),
         NEW tokens \in Int, tokens <= LimLimit * LimWindow,
         tokens <= e.n + (now - e.time) * LimLimit,
         NEW ok \in Nat, ok <= 1, NEW d \in LimEntries, Grows(now, e, d, ok), d.time = now,
         d.n = IF ok = 1 THEN tokens - LimWindow ELSE tokens
  PROVE  EntryKept("bucket", now, d)
<1>1. e \in LimEntries /\ e.time <= now /\ e.log \in LimCalls /\ e.time \in Int /\ e.n \in Int
      /\ d.n \in Int /\ LimFilled(e)
  BY LimConstants DEF EntryKept, LimEntries
<1>2. \A c \in d.log : now - LimWindow <= c[1] /\ c[1] <= now
  BY GrownIs
<1>3. ASSUME NEW s \in Int, s <= now
      PROVE  Cardinality(Since(d.log, s)) * LimWindow + d.n
                <= LimLimit * LimWindow + (now - s) * LimLimit
  <2>1. PICK a, b : a = Cardinality(Since(e.log, s)) /\ b = Cardinality(Since(d.log, s))
    OBVIOUS
  <2>2. a \in Nat /\ b \in Nat /\ b <= a + ok
    BY <2>1, GrownIs
  <2>3. PICK z : z = LimLimit * LimWindow + (now - s) * LimLimit
    OBVIOUS
  <2>4. z \in Int
    BY <1>3, <2>3, LimConstants
  <2>5. a * LimWindow + tokens <= z /\ (a + 1) * LimWindow + (tokens - LimWindow) <= z
    <3>1. CASE s <= e.time
      <4>1. a * LimWindow + e.n <= LimLimit * LimWindow + (e.time - s) * LimLimit
        BY <1>1, <1>3, <2>1, <3>1 DEF LimFilled
      <4>2. LimLimit \in Nat /\ LimWindow \in Nat /\ now \in Int
        BY LimConstants
      <4>3. /\ a * LimWindow + tokens <= LimLimit * LimWindow + (now - s) * LimLimit
            /\ (a + 1) * LimWindow + (tokens - LimWindow)
                  <= LimLimit * LimWindow + (now - s) * LimLimit
        BY <1>1, <1>3, <2>2, <3>1, <4>1, <4>2, BucketGives, Zenon
      <4> QED
        BY <2>3, <4>3, Zenon
    <3>2. CASE ~(s <= e.time)
      <4>1. Since(e.log, s) = {}
        <5>1. \A c \in e.log : c[1] \in Int /\ c[1] <= e.time
          BY <1>1 DEF LimFilled, LimCalls
        <5>2. \A c \in e.log : ~(c[1] >= s)
          BY <1>1, <1>3, <3>2, <5>1
        <5> QED
          BY <5>2, Zenon DEF Since
      <4>2. a = 0
        BY <2>1, <4>1, FS_EmptySet
      <4>3. PICK m, y : m = LimLimit * LimWindow /\ y = (now - s) * LimLimit
        OBVIOUS
      <4>4. y \in Nat /\ m \in Nat
        <5>1. now - s \in Nat /\ LimLimit \in Nat /\ LimWindow \in Nat
          BY <1>3, LimConstants
        <5> QED
          BY <4>3, <5>1
      <4>5. 0 * LimWindow = 0 /\ (0 + 1) * LimWindow = LimWindow
        BY LimConstants
      <4>6. 0 + tokens <= z /\ LimWindow + (tokens - LimWindow) <= z
        BY <2>3, <2>4, <4>3, <4>4, LimConstants
      <4> QED
        BY <4>2, <4>5, <4>6
    <3> QED
      BY <3>1, <3>2
  <2>6. b * LimWindow + d.n <= z
    <3>1. CASE ok = 1
      <4>1. b <= a + 1 /\ a + 1 \in Int /\ d.n = tokens - LimWindow
        BY <2>2, <3>1
      <4>2. b * LimWindow <= (a + 1) * LimWindow /\ b * LimWindow \in Int
            /\ (a + 1) * LimWindow \in Int
        BY <2>2, <4>1, LimConstants, ProductsOrdered
      <4> QED
        BY <1>1, <2>4, <2>5, <4>1, <4>2
    <3>2. CASE ok = 0
      <4>1. b <= a /\ d.n = tokens
        BY <2>2, <3>2
      <4>2. b * LimWindow <= a * LimWindow /\ b * LimWindow \in Int /\ a * LimWindow \in Int
        BY <2>2, <4>1, LimConstants, ProductsOrdered
      <4> QED
        BY <1>1, <2>4, <2>5, <4>1, <4>2
    <3> QED
      BY <3>1, <3>2
  <2> QED
    BY <2>1, <2>3, <2>6
<1>4. LimFilled(d)
  BY <1>2, <1>3 DEF LimFilled
<1> QED
  BY <1>2, <1>4 DEF EntryKept

(* The MCP worker keeps the time of a call it lets through.                 *)
LEMMA SlideUses ==
  ASSUME NEW now \in Nat, NEW e, EntryKept("mcp", now, e), NEW ok \in Nat, ok <= 1,
         ok = 1 => Cardinality(e.log) < LimLimit,
         NEW d \in LimEntries, d.log = d.calls, Grows(now, e, d, ok), d.time = e.time
  PROVE  EntryKept("mcp", now, d)
<1>1. e \in LimEntries /\ e.time <= now /\ LimSlides(now, e)
  BY DEF EntryKept
<1>2. \A c \in d.log : now - LimWindow <= c[1] /\ c[1] <= now
  BY GrownIs
<1>3. Since(d.calls, now - LimWindow) = d.log
  <2>1. \A c \in d.log : c[1] >= now - LimWindow
    <3>1. \A c \in d.log : c[1] \in Int /\ now - LimWindow <= c[1]
      BY <1>2 DEF LimEntries, LimCalls
    <3> QED
      BY <3>1, LimConstants
  <2> QED
    BY <2>1 DEF Since
<1>4. Cardinality(d.log) <= LimLimit
  <2>1. /\ Cardinality(d.log) \in Nat /\ Cardinality(e.log) \in Nat
        /\ Cardinality(d.log) <= Cardinality(e.log) + ok
    BY GrownIs
  <2>2. Cardinality(e.log) <= LimLimit
    BY <1>1 DEF LimSlides
  <2> QED
    BY <2>1, <2>2, LimConstants
<1> QED
  BY <1>1, <1>2, <1>3, <1>4 DEF EntryKept, LimSlides

(* The pace lets a request go whose interval has passed.                    *)
LEMMA PaceSends ==
  ASSUME NEW now \in Nat, NEW e, EntryKept("rest", now, e),
         (now - e.time) * e.n >= 2 * LimWindow,
         NEW d \in LimEntries, Grows(now, e, d, 1), d.time = now, d.n = e.n
  PROVE  EntryKept("rest", now, d)
<1>1. e \in LimEntries /\ e.time <= now /\ e.log \in LimCalls /\ e.time \in Int /\ LimPaced(e)
      /\ e.n \in 1..(2 * LimLimit) /\ e.n \in Nat /\ e.n <= 2 * LimLimit
  BY LimConstants DEF EntryKept, LimEntries, LimPaced
<1>0. PICK ok : ok = 1
  OBVIOUS
<1>2. ok \in Nat /\ ok <= 1 /\ Grows(now, e, d, ok) 
  BY <1>0
<1>5. \A c \in d.log : now - LimWindow <= c[1] /\ c[1] <= now
  BY <1>2, GrownIs
<1>3. ASSUME NEW s \in Int, s <= now
      PROVE  (Cardinality(Since(d.log, s)) - 1) * LimWindow <= (now - s) * LimLimit
  <2>1. PICK a, b : a = Cardinality(Since(e.log, s)) /\ b = Cardinality(Since(d.log, s))
    OBVIOUS
  <2>2. a \in Nat /\ b \in Nat /\ b <= a + 1
    <3>1. a \in Nat /\ b \in Nat /\ b <= a + ok
      BY <1>2, <2>1, GrownIs
    <3> QED
      BY <1>0, <3>1
  <2>3. ((a + 1) - 1) * LimWindow <= (now - s) * LimLimit
    <3>1. CASE s <= e.time
      <4>1. (a - 1) * LimWindow <= (e.time - s) * LimLimit
        BY <1>1, <1>3, <2>1, <3>1 DEF LimPaced
      <4>2. LimLimit \in Nat /\ LimWindow \in Nat /\ now \in Int /\ a \in Int
        BY <2>2, LimConstants
      <4> QED
        BY <1>1, <1>3, <3>1, <4>1, <4>2, PaceWaited, Zenon
    <3>2. CASE ~(s <= e.time)
      <4>1. Since(e.log, s) = {}
        <5>1. \A c \in e.log : c[1] \in Int /\ c[1] <= e.time
          BY <1>1 DEF LimPaced, LimCalls
        <5>2. \A c \in e.log : ~(c[1] >= s)
          BY <1>1, <1>3, <3>2, <5>1
        <5> QED
          BY <5>2, Zenon DEF Since
      <4>2. a = 0
        BY <2>1, <4>1, FS_EmptySet
      <4>3. (now - s) * LimLimit \in Nat
        <5>1. now - s \in Nat /\ LimLimit \in Nat
          BY <1>3, LimConstants
        <5> QED
          BY <5>1
      <4>4. ((0 + 1) - 1) * LimWindow = 0
        BY LimConstants
      <4>5. ((0 + 1) - 1) * LimWindow <= (now - s) * LimLimit
        BY <4>3, <4>4
      <4> QED
        BY <4>2, <4>5
    <3> QED
      BY <3>1, <3>2
  <2>4. PICK z : z = (now - s) * LimLimit
    OBVIOUS
  <2>5. z \in Int
    BY <1>3, <2>4, LimConstants
  <2>6. b - 1 \in Int /\ (a + 1) - 1 \in Int /\ b - 1 <= (a + 1) - 1
    BY <2>2
  <2>7. /\ (b - 1) * LimWindow <= ((a + 1) - 1) * LimWindow
        /\ (b - 1) * LimWindow \in Int /\ ((a + 1) - 1) * LimWindow \in Int
    BY <2>6, LimConstants, ProductsOrdered
  <2>8. (b - 1) * LimWindow <= z
    BY <2>3, <2>4, <2>5, <2>7
  <2> QED
    BY <2>1, <2>4, <2>8
<1>4. LimPaced(d)
  BY <1>1, <1>3, <1>5 DEF LimPaced
<1> QED
  BY <1>4, <1>5 DEF EntryKept

LimCallers == [pc : {"idle", "found", "sleep", "sent"}, at : Nat]

LimShape ==
    /\ limKind \in LimKinds /\ limNow \in 0..LimMaxTick
    /\ limSweep \in BOOLEAN /\ limSplit \in BOOLEAN
    /\ limEntries \in Seq(LimEntries) /\ limKey \in 0..Len(limEntries)
    /\ limProcs \in [LimProcs -> LimCallers]

LimKept == \A k \in 1..Len(limEntries) : EntryKept(limKind, limNow, limEntries[k])

(* Who holds which entry.                                                   *)
LimHeld ==
    /\ \A p \in LimProcs :
          /\ limProcs[p].at \in 0..Len(limEntries)
          /\ limProcs[p].pc = "idle" => limProcs[p].at = 0
          /\ limProcs[p].pc = "found" => limKind \in {"bucket", "mcp"} /\ limProcs[p].at # 0
          /\ limProcs[p].pc \in {"sleep", "sent"} => limKind = "rest" /\ limProcs[p].at = 1
    /\ limKind = "rest" => Len(limEntries) <= 1 /\ limKey = Len(limEntries)
    /\ limSweep => limKind = "bucket" /\ limKey # 0

(* What an entry lets through after it has left the map: nobody finds it    *)
(* any more, and each of its holders uses it once.                          *)
LateFits(k) ==
    /\ limEntries[k].late + Cardinality(Holders(k)) <= Cardinality(LimProcs)
    /\ ~limSplit => Cardinality(limEntries[k].log) <= limEntries[k].late
LimLate ==
    /\ limKey # 0 => limEntries[limKey].late = 0
    /\ \A k \in 1..Len(limEntries) : k # limKey => LateFits(k)

LimitsIInv == LimShape /\ LimKept /\ LimHeld /\ LimLate

(* The state's parts.                                                       *)
LEMMA LimStateIs ==
  ASSUME LimitsIInv
  PROVE  /\ limNow \in Nat /\ limNow <= LimMaxTick
         /\ limKind \in LimKinds /\ limKind \in {"redis", "agent", "mcp", "bucket", "rest"}
         /\ limSweep \in BOOLEAN /\ limSplit \in BOOLEAN
         /\ limEntries \in Seq(LimEntries) /\ Len(limEntries) \in Nat
         /\ limKey \in 0..Len(limEntries) /\ (limKey # 0 => limKey \in 1..Len(limEntries))
         /\ \A k \in 1..Len(limEntries) :
               /\ limEntries[k] \in LimEntries /\ EntryKept(limKind, limNow, limEntries[k])
               /\ limEntries[k].time \in Int /\ limEntries[k].time <= limNow
               /\ limEntries[k].n \in Nat /\ limEntries[k].late \in Nat
               /\ limEntries[k].log \in LimCalls /\ limEntries[k].calls \in LimCalls
         /\ limProcs \in [LimProcs -> LimCallers]
<1>1. /\ limEntries \in Seq(LimEntries) /\ limKey \in 0..Len(limEntries)
      /\ limKind \in LimKinds /\ limNow \in 0..LimMaxTick
      /\ limSweep \in BOOLEAN /\ limSplit \in BOOLEAN /\ limProcs \in [LimProcs -> LimCallers]
  BY DEF LimitsIInv, LimShape
<1>2. limKind \in {"redis", "agent", "mcp", "bucket", "rest"}
  BY <1>1, LimitsAssumption
<1>3. Len(limEntries) \in Nat /\ \A k \in 1..Len(limEntries) : limEntries[k] \in LimEntries
  BY <1>1
<1>4. \A d \in LimEntries : /\ d.time \in Int /\ d.n \in Nat /\ d.late \in Nat
                            /\ d.log \in LimCalls /\ d.calls \in LimCalls
  BY LimConstants DEF LimEntries
<1>5. limNow \in Nat /\ limNow <= LimMaxTick
  BY <1>1, LimConstants
<1>6. limKey # 0 => limKey \in 1..Len(limEntries)
  BY <1>1, <1>3
<1>7. \A k \in 1..Len(limEntries) :
         /\ EntryKept(limKind, limNow, limEntries[k]) /\ limEntries[k].time <= limNow
  BY DEF LimitsIInv, LimKept, EntryKept
<1> QED
  BY <1>1, <1>2, <1>3, <1>4, <1>5, <1>6, <1>7

(* Callers are finitely many.                                               *)
LEMMA HoldersFew ==
  ASSUME NEW S \in SUBSET LimProcs
  PROVE  /\ IsFiniteSet(S) /\ Cardinality(S) \in Nat /\ Cardinality(LimProcs) \in Nat
         /\ Cardinality(S) <= Cardinality(LimProcs)
         /\ \A p \in S : Cardinality(S \ {p}) = Cardinality(S) - 1
<1>1. IsFiniteSet(S) /\ Cardinality(S) <= Cardinality(LimProcs)
  BY LimConstants, FS_Subset
<1>2. ASSUME NEW p \in S PROVE Cardinality(S \ {p}) = Cardinality(S) - 1
  BY <1>1, FS_RemoveElement
<1> QED
  BY <1>1, <1>2, LimConstants, FS_CardinalityType

(* What counts and tokens may be.                                           *)
LEMMA LimRanges ==
  /\ 0 \in 0..(LimLimit * (LimWindow + 1))
  /\ LimLimit * LimWindow \in 0..(LimLimit * (LimWindow + 1))
  /\ 2 * LimLimit \in 0..(LimLimit * (LimWindow + 1))
  /\ \A n \in Nat : n <= LimLimit + 1 => n \in 0..(LimLimit * (LimWindow + 1))
  /\ \A n \in Nat : n <= LimLimit * LimWindow => n \in 0..(LimLimit * (LimWindow + 1))
  /\ \A n \in Nat : n <= 2 * LimLimit => n \in 0..(LimLimit * (LimWindow + 1))
  /\ 0..(LimLimit * (LimWindow + 1)) \subseteq Nat
<1>1. LimLimit \in Nat /\ LimLimit > 0 /\ LimWindow \in Nat /\ LimWindow > 0
  BY LimConstants
<1>2. PICK x, m : x = LimLimit * (LimWindow + 1) /\ m = LimLimit * LimWindow
  OBVIOUS
<1>3. x = m + LimLimit /\ m \in Nat /\ m >= LimLimit /\ x \in Nat
  BY <1>1, <1>2
<1>4. /\ 0 \in 0..x /\ m \in 0..x /\ 2 * LimLimit \in 0..x /\ 0..x \subseteq Nat
      /\ \A n \in Nat : n <= LimLimit + 1 => n \in 0..x
      /\ \A n \in Nat : n <= m => n \in 0..x
      /\ \A n \in Nat : n <= 2 * LimLimit => n \in 0..x
  BY <1>1, <1>3
<1> QED
  BY <1>2, <1>4

(* A new entry.                                                             *)
LEMMA NewEntryIs ==
  ASSUME LimitsIInv
  PROVE  /\ NewEntry \in LimEntries /\ NewEntry.time = limNow /\ NewEntry.calls = {}
         /\ NewEntry.log = {} /\ NewEntry.late = 0
         /\ limKind # "bucket" => NewEntry.n = 0
         /\ limKind = "bucket" => NewEntry.n = LimLimit * LimWindow
         /\ limKind # "rest" => EntryKept(limKind, limNow, NewEntry)
<1>1. PICK n : n = IF limKind = "bucket" THEN LimLimit * LimWindow ELSE 0
  OBVIOUS
<1>2. n \in 0..(LimLimit * (LimWindow + 1))
  <2>1. 0 \in 0..(LimLimit * (LimWindow + 1))
    BY LimRanges, Zenon
  <2>2. LimLimit * LimWindow \in 0..(LimLimit * (LimWindow + 1))
    BY LimRanges, Zenon
  <2>3. n = LimLimit * LimWindow \/ n = 0
    BY <1>1
  <2> QED
    BY <2>1, <2>2, <2>3, Zenon
<1>3. NewEntry = [n |-> n, time |-> limNow, calls |-> {}, log |-> {}, late |-> 0]
  BY <1>1 DEF NewEntry
<1>4. PICK e : e = NewEntry
  OBVIOUS
<1>5. e \in LimEntries /\ e.n = n /\ e.time = limNow /\ e.calls = {} /\ e.log = {} /\ e.late = 0
  BY <1>2, <1>3, <1>4, LimStateIs, NoneSince DEF LimEntries
<1>6. /\ limKind # "bucket" => e.n = 0
      /\ limKind = "bucket" => e.n = LimLimit * LimWindow
  BY <1>1, <1>5
<1>7. limNow \in Nat /\ e.time <= limNow
  BY <1>5, LimStateIs
<1>8. limKind # "rest" => EntryKept(limKind, limNow, e)
  BY <1>5, <1>6, <1>7, FreshKept
<1> QED
  BY <1>4, <1>5, <1>6, <1>8

(* Entries that let a request through, or not.                              *)
LEMMA LetsIs ==
  ASSUME limNow \in Nat, NEW e \in LimEntries, NEW ok, NEW d,
         (ok = 1 /\ d = Lets(e, TRUE)) \/ (ok = 0 /\ d = Lets(e, FALSE))
  PROVE  /\ d \in LimEntries /\ Grows(limNow, e, d, ok) /\ ok \in Nat /\ ok <= 1
         /\ d.n = e.n /\ d.time = e.time /\ d.calls = e.calls /\ d.late = e.late
<1>1. e.log \in LimCalls
  BY DEF LimEntries
<1>2. CASE ok = 1
  <2>1. PICK log : log = Noted(e.log)
    OBVIOUS
  <2>2. Adds(limNow, e.log, log) /\ log \in LimCalls
    <3>1. Adds(limNow, e.log, log)
      BY <1>1, <2>1, NotedAdds
    <3> QED
      BY <1>1, <3>1, AddedIs
  <2>3. d = [e EXCEPT !.log = log]
    BY <1>2, <2>1 DEF Lets
  <2>4. /\ d \in LimEntries /\ d.log = log
        /\ d.n = e.n /\ d.time = e.time /\ d.calls = e.calls /\ d.late = e.late
    BY <2>2, <2>3 DEF LimEntries
  <2>5. Grows(limNow, e, d, ok)
    BY <1>2, <2>2, <2>4 DEF Grows
  <2>6. ok \in Nat /\ ok <= 1
    BY <1>2
  <2> QED
    BY <2>4, <2>5, <2>6, Zenon
<1>3. CASE ok = 0
  <2>1. d = e
    BY <1>3 DEF Lets
  <2>2. Grows(limNow, e, d, ok)
    BY <1>3, <2>1 DEF Grows
  <2> QED
    BY <1>3, <2>1, <2>2
<1> QED
  BY <1>2, <1>3

(* A caller that has its answer holds nothing.                              *)
LEMMA ProcAnswered ==
  ASSUME LimitsIInv, NEW p \in LimProcs, limProcs' = [limProcs EXCEPT ![p] = NotAsking]
  PROVE  /\ limProcs' \in [LimProcs -> LimCallers]
         /\ limProcs'[p].pc = "idle" /\ limProcs'[p].at = 0
         /\ \A q \in LimProcs : q # p => limProcs'[q] = limProcs[q]
<1>1. limProcs \in [LimProcs -> LimCallers]
  BY DEF LimitsIInv, LimShape
<1>2. NotAsking \in LimCallers /\ NotAsking.pc = "idle" /\ NotAsking.at = 0
  BY DEF NotAsking, LimCallers
<1> QED
  BY <1>1, <1>2

(* A step in which every caller holds the entry that it held, and the       *)
(* entry of the key, or a new one, becomes another.                         *)
LEMMA PutsKeep ==
  ASSUME LimitsIInv, limKind # "rest", NEW d, EntryKept(limKind, limNow, d), d.late = 0,
         Puts(d), UNCHANGED <<limKind, limNow, limSplit>>
  PROVE  /\ limEntries' \in Seq(LimEntries) /\ limKey' \in 1..Len(limEntries')
         /\ Len(limEntries') \in Nat /\ Len(limEntries) <= Len(limEntries')
         /\ LimKept' /\ limEntries'[limKey'].late = 0
         /\ limKey # 0 => limKey' = limKey
         /\ \A k \in 1..Len(limEntries') :
               k # limKey' => k \in 1..Len(limEntries) /\ k # limKey /\ limEntries'[k] = limEntries[k]
<1>1. d \in LimEntries
  BY DEF EntryKept
<1>2. PICK l : l = Len(limEntries)
  OBVIOUS
<1>3. limEntries \in Seq(LimEntries) /\ l \in Nat /\ limKey \in 0..l
      /\ (limKey # 0 => limKey \in 1..l)
  BY <1>2, LimStateIs
<1>4. CASE limKey # 0
  <2>1. limEntries' = [limEntries EXCEPT ![limKey] = d] /\ limKey' = limKey
    BY <1>4 DEF Puts
  <2>2. /\ limEntries' \in Seq(LimEntries) /\ Len(limEntries') = l /\ limEntries'[limKey] = d
        /\ \A k \in 1..l : k # limKey => limEntries'[k] = limEntries[k]
    BY <1>1, <1>2, <1>3, <1>4, <2>1
  <2>3. LimKept'
    <3> SUFFICES ASSUME NEW k \in 1..l
                 PROVE  EntryKept(limKind, limNow, limEntries'[k])
      BY <2>2 DEF LimKept
    <3>1. CASE k = limKey
      BY <2>2, <3>1
    <3>2. CASE k # limKey
      BY <1>2, <2>2, <3>2, LimStateIs
    <3> QED
      BY <3>1, <3>2
  <2> QED
    BY <1>2, <1>3, <1>4, <2>1, <2>2, <2>3
<1>5. CASE limKey = 0
  <2>1. limEntries' = Append(limEntries, d) /\ limKey' = l + 1
    BY <1>2, <1>5 DEF Puts
  <2>2. /\ limEntries' \in Seq(LimEntries) /\ Len(limEntries') = l + 1 /\ limEntries'[l + 1] = d
        /\ \A k \in 1..l : limEntries'[k] = limEntries[k]
    BY <1>1, <1>2, <1>3, <2>1
  <2>3. \A k \in 1..(l + 1) : k = l + 1 \/ k \in 1..l
    BY <1>3
  <2>4. LimKept'
    <3> SUFFICES ASSUME NEW k \in 1..(l + 1)
                 PROVE  EntryKept(limKind, limNow, limEntries'[k])
      BY <2>2 DEF LimKept
    <3>1. CASE k = l + 1
      BY <2>2, <3>1
    <3>2. CASE k \in 1..l
      BY <1>2, <2>2, <3>2, LimStateIs
    <3> QED
      BY <2>3, <3>1, <3>2
  <2>5. limEntries'[limKey'].late = 0
    BY <2>1, <2>2
  <2>6. ASSUME NEW k \in 1..(l + 1), k # limKey'
        PROVE  k \in 1..l /\ k # limKey /\ limEntries'[k] = limEntries[k]
    BY <1>3, <1>5, <2>1, <2>2, <2>3, <2>6
  <2>7. l + 1 \in Nat /\ l <= l + 1 /\ l + 1 \in 1..(l + 1)
    BY <1>3
  <2> QED
    BY <1>2, <1>5, <2>1, <2>2, <2>4, <2>5, <2>6, <2>7
<1> QED
  BY <1>4, <1>5

(* Entries that left the map earlier are as they were.                      *)
LEMMA LateStays ==
  ASSUME LimitsIInv, NEW k \in 1..Len(limEntries), k # limKey, limEntries'[k] = limEntries[k],
         \A q \in LimProcs : limProcs'[q].at = k <=> limProcs[q].at = k,
         limSplit => limSplit'
  PROVE  LateFits(k)'
<1>1. LateFits(k)
  BY DEF LimitsIInv, LimLate
<1>2. Holders(k)' = Holders(k)
  BY DEF Holders
<1> QED
  BY <1>1, <1>2 DEF LateFits

(* The callers of a counter hold nothing between their calls.               *)
LEMMA NobodyHolds ==
  ASSUME LimitsIInv, limKind \in {"redis", "agent"}
  PROVE  \A q \in LimProcs : limProcs[q].pc = "idle" /\ limProcs[q].at = 0
<1> SUFFICES ASSUME NEW q \in LimProcs
             PROVE  limProcs[q].pc = "idle" /\ limProcs[q].at = 0
  OBVIOUS
<1>1. limProcs[q].pc \in {"idle", "found", "sleep", "sent"}
  BY LimStateIs DEF LimCallers
<1>2. /\ limProcs[q].pc = "idle" => limProcs[q].at = 0
      /\ limProcs[q].pc = "found" => limKind \in {"bucket", "mcp"}
      /\ limProcs[q].pc \in {"sleep", "sent"} => limKind = "rest"
  BY DEF LimitsIInv, LimHeld
<1>3. limKind \notin {"bucket", "mcp"} /\ limKind # "rest"
  OBVIOUS
<1> QED
  BY <1>1, <1>2, <1>3

(* The callers when one of them has its answer and entries only came.       *)
LEMMA AnsweredHeld ==
  ASSUME LimitsIInv, limKind # "rest", NEW p \in LimProcs, Answers(p),
         Len(limEntries') \in Nat, Len(limEntries) <= Len(limEntries'),
         limKey # 0 => limKey' # 0
  PROVE  LimHeld' /\ limProcs' \in [LimProcs -> LimCallers]
<1>1. limProcs' = [limProcs EXCEPT ![p] = NotAsking] /\ limKind' = limKind /\ limSweep' = limSweep
  BY DEF Answers
<1>2. /\ limProcs' \in [LimProcs -> LimCallers]
      /\ limProcs'[p].pc = "idle" /\ limProcs'[p].at = 0
      /\ \A q \in LimProcs : q # p => limProcs'[q] = limProcs[q]
  BY <1>1, ProcAnswered
<1>3. PICK l, m : l = Len(limEntries) /\ m = Len(limEntries')
  OBVIOUS
<1>4. l \in Nat /\ m \in Nat /\ l <= m
  BY <1>3, LimStateIs
<1>5. ASSUME NEW q \in LimProcs
      PROVE  /\ limProcs'[q].at \in 0..m
             /\ limProcs'[q].pc = "idle" => limProcs'[q].at = 0
             /\ limProcs'[q].pc = "found" => limKind \in {"bucket", "mcp"} /\ limProcs'[q].at # 0
             /\ limProcs'[q].pc \in {"sleep", "sent"} => limKind = "rest" /\ limProcs'[q].at = 1
  <2>1. CASE q = p
    BY <1>2, <1>4, <2>1
  <2>2. CASE q # p
    <3>1. limProcs'[q] = limProcs[q]
      BY <1>2, <2>2
    <3>2. /\ limProcs[q].at \in 0..l
          /\ limProcs[q].pc = "idle" => limProcs[q].at = 0
          /\ limProcs[q].pc = "found" => limKind \in {"bucket", "mcp"} /\ limProcs[q].at # 0
          /\ limProcs[q].pc \in {"sleep", "sent"} => limKind = "rest" /\ limProcs[q].at = 1
      BY <1>3 DEF LimitsIInv, LimHeld
    <3>3. limProcs[q].at \in 0..m
      BY <1>4, <3>2
    <3> QED
      BY <3>1, <3>2, <3>3
  <2> QED
    BY <2>1, <2>2
<1>6. limSweep' => limKind' = "bucket" /\ limKey' # 0
  BY <1>1 DEF LimitsIInv, LimHeld
<1> QED
  BY <1>1, <1>2, <1>3, <1>5, <1>6 DEF LimHeld

(* A counter's step: its entry, or a new one, becomes another.              *)
LEMMA CounterPuts ==
  ASSUME LimitsIInv, limKind \in {"redis", "agent"}, NEW p \in LimProcs, Answers(p),
         NEW d, EntryKept(limKind, limNow, d), d.late = 0, Puts(d)
  PROVE  LimitsIInv'
<1>1. limProcs' = [limProcs EXCEPT ![p] = NotAsking]
      /\ limKind' = limKind /\ limNow' = limNow /\ limSweep' = limSweep /\ limSplit' = limSplit
  BY DEF Answers
<1>2. limKind # "rest"
  OBVIOUS
<1>3. /\ limEntries' \in Seq(LimEntries) /\ limKey' \in 1..Len(limEntries')
      /\ Len(limEntries') \in Nat /\ Len(limEntries) <= Len(limEntries')
      /\ LimKept' /\ limEntries'[limKey'].late = 0
      /\ limKey # 0 => limKey' = limKey
      /\ \A k \in 1..Len(limEntries') :
            k # limKey' => k \in 1..Len(limEntries) /\ k # limKey /\ limEntries'[k] = limEntries[k]
  BY <1>1, <1>2, PutsKeep
<1>4. LimHeld' /\ limProcs' \in [LimProcs -> LimCallers]
  BY <1>2, <1>3, AnsweredHeld
<1>5. \A q \in LimProcs : limProcs'[q].at = limProcs[q].at
  <2>1. /\ limProcs'[p].at = 0
        /\ \A q \in LimProcs : q # p => limProcs'[q] = limProcs[q]
    BY <1>1, ProcAnswered
  <2>2. limProcs[p].at = 0
    BY NobodyHolds
  <2> QED
    BY <2>1, <2>2
<1>6. LimLate'
  <2>1. ASSUME NEW k \in 1..Len(limEntries'), k # limKey' PROVE LateFits(k)'
    <3>1. k \in 1..Len(limEntries) /\ k # limKey /\ limEntries'[k] = limEntries[k]
      BY <1>3, <2>1
    <3> QED
      BY <1>1, <1>5, <3>1, LateStays
  <2> QED
    BY <1>3, <2>1 DEF LimLate
<1>7. LimShape'
  BY <1>1, <1>3, <1>4, LimStateIs DEF LimShape, LimitsIInv
<1> QED
  BY <1>3, <1>4, <1>6, <1>7 DEF LimitsIInv

(* The count that a caller meets.                                           *)
LEMMA CounterIs ==
  ASSUME LimitsIInv, limKind \in {"redis", "agent"}, NEW e, e = Counter
  PROVE  /\ EntryKept(limKind, limNow, e) /\ e \in LimEntries /\ e.late = 0
         /\ e.n \in Nat /\ e.time \in Int /\ e.log \in LimCalls
         /\ limNow < e.time + WindowOf(limKind)
<1>0. e \in LimEntries => e.n \in Nat /\ e.time \in Int /\ e.log \in LimCalls
  BY LimConstants DEF LimEntries
<1>1. PICK w : w = WindowOf(limKind)
  OBVIOUS
<1>2. w \in Nat /\ w > 0 /\ w = CountedWindow
  BY <1>1, WindowIs DEF WindowOf, CountedWindow
<1>3. CASE limKey = 0
  <2>1. e = NewEntry
    BY <1>3 DEF Counter
  <2>2. e \in LimEntries /\ e.time = limNow /\ e.late = 0 /\ EntryKept(limKind, limNow, e)
    BY <2>1, NewEntryIs
  <2> QED
    BY <1>0, <1>1, <1>2, <2>2, LimStateIs
<1>4. CASE limKey # 0
  <2>1. PICK c : c = limEntries[limKey]
    OBVIOUS
  <2>2. limKey \in 1..Len(limEntries)
    BY <1>4, LimStateIs
  <2>3. /\ c \in LimEntries /\ EntryKept(limKind, limNow, c) /\ c.late = 0
        /\ c.time \in Int /\ c.time <= limNow
    BY <1>4, <2>1, <2>2, LimStateIs DEF LimitsIInv, LimLate
  <2>4. CASE limNow - c.time < w
    <3>1. e = c
      BY <1>2, <1>4, <2>1, <2>4 DEF Counter
    <3> QED
      BY <1>0, <1>1, <1>2, <2>3, <2>4, <3>1, LimStateIs
  <2>5. CASE ~(limNow - c.time < w)
    <3>1. e = [c EXCEPT !.n = 0, !.time = limNow]
      BY <1>2, <1>4, <2>1, <2>5 DEF Counter
    <3>2. limNow \in Int /\ limNow \in Nat
      BY LimStateIs
    <3>3. 0 \in 0..(LimLimit * (LimWindow + 1))
      BY LimRanges
    <3>4. /\ e \in LimEntries /\ e.n = 0 /\ e.time = limNow /\ e.log = c.log /\ e.late = c.late
      BY <2>3, <3>1, <3>2, <3>3 DEF LimEntries
    <3>5. limNow - c.time >= w
      BY <1>2, <2>3, <2>5, <3>2
    <3>6. EntryKept(limKind, limNow, e)
      BY <1>1, <2>3, <3>2, <3>4, <3>5, CounterBegins
    <3> QED
      BY <1>0, <1>1, <1>2, <2>3, <3>2, <3>4, <3>6
  <2> QED
    BY <2>4, <2>5
<1> QED
  BY <1>3, <1>4

(* A caller of Allow, of the counter in Redis.                              *)
LEMMA RedisKeeps ==
  ASSUME LimitsIInv, NEW p \in LimProcs, RedisAllow(p)
  PROVE  LimitsIInv'
<1>1. limKind = "redis" /\ limKind \in {"redis", "agent"} /\ limKind # "rest" /\ Answers(p)
  BY DEF RedisAllow
<1>2. PICK e : e = Counter
  OBVIOUS
<1>3. /\ EntryKept(limKind, limNow, e) /\ e \in LimEntries /\ e.late = 0
      /\ e.n \in Nat /\ e.time \in Int /\ limNow < e.time + WindowOf(limKind)
  BY <1>1, <1>2, CounterIs
<1>4. CASE e.n >= LimLimit
  <2>1. UNCHANGED <<limEntries, limKey>>
    BY <1>2, <1>4 DEF RedisAllow
  <2>2. /\ limKind' = limKind /\ limNow' = limNow /\ limSweep' = limSweep /\ limSplit' = limSplit
        /\ limProcs' = [limProcs EXCEPT ![p] = NotAsking]
    BY <1>1 DEF Answers
  <2>3. LimHeld' /\ limProcs' \in [LimProcs -> LimCallers]
    <3>1. Len(limEntries') \in Nat /\ Len(limEntries) <= Len(limEntries')
      BY <2>1, LimStateIs
    <3>2. limKey # 0 => limKey' # 0
      BY <2>1
    <3> QED
      BY <1>1, <3>1, <3>2, AnsweredHeld
  <2>4. \A q \in LimProcs : limProcs'[q].at = limProcs[q].at
    BY <1>1, <2>2, NobodyHolds, ProcAnswered
  <2>5. LimLate'
    <3>1. ASSUME NEW k \in 1..Len(limEntries), k # limKey PROVE LateFits(k)'
      BY <2>1, <2>2, <2>4, <3>1, LateStays
    <3>2. limKey' # 0 => limEntries'[limKey'].late = 0
      BY <2>1 DEF LimitsIInv, LimLate
    <3> QED
      BY <2>1, <3>1, <3>2 DEF LimLate
  <2>6. LimKept'
    BY <2>1, <2>2 DEF LimitsIInv, LimKept
  <2>7. LimShape'
    BY <2>1, <2>2, <2>3 DEF LimitsIInv, LimShape
  <2> QED
    BY <2>3, <2>5, <2>6, <2>7 DEF LimitsIInv
<1>5. CASE ~(e.n >= LimLimit)
  <2>1. PICK f : f = [e EXCEPT !.n = @ + 1]
    OBVIOUS
  <2>2. e.n + 1 <= LimLimit /\ e.n + 1 \in Nat
    BY <1>3, <1>5, LimConstants
  <2>3. e.n + 1 \in 0..(LimLimit * (LimWindow + 1))
    <3>1. PICK n : n = e.n + 1
      OBVIOUS
    <3>2. n \in Nat /\ n <= LimLimit + 1
      BY <2>2, <3>1, LimConstants
    <3> QED
      BY <3>1, <3>2, LimRanges
  <2>4. f \in LimEntries /\ f.n = e.n + 1 /\ f.time = e.time /\ f.log = e.log /\ f.late = 0
    BY <1>3, <2>1, <2>3 DEF LimEntries
  <2>5. PICK d : d = Lets(f, TRUE)
    OBVIOUS
  <2>6. PICK ok : ok = 1
    OBVIOUS
  <2>7. /\ d \in LimEntries /\ Grows(limNow, f, d, ok) /\ ok \in Nat /\ ok <= 1
        /\ d.n = f.n /\ d.time = f.time /\ d.late = f.late
    BY <2>4, <2>5, <2>6, LetsIs, LimStateIs
  <2>8. Grows(limNow, e, d, ok) /\ d.time = e.time /\ d.n = e.n + 1 /\ d.late = 0
    BY <2>4, <2>7 DEF Grows
  <2>9. d.n >= e.n /\ d.n <= LimLimit
    BY <1>3, <2>2, <2>8
  <2>10. EntryKept(limKind, limNow, d)
    BY <1>1, <1>3, <2>7, <2>8, <2>9, CounterCounts, LimStateIs
  <2>11. Puts(d)
    BY <1>2, <1>5, <2>1, <2>5 DEF RedisAllow
  <2> QED
    BY <1>1, <2>8, <2>10, <2>11, CounterPuts
<1> QED
  BY <1>4, <1>5

(* A call of the gateway's limiter.                                         *)
LEMMA AgentKeeps ==
  ASSUME LimitsIInv, NEW p \in LimProcs, AgentAllow(p)
  PROVE  LimitsIInv'
<1>1. limKind = "agent" /\ limKind \in {"redis", "agent"} /\ Answers(p)
  BY DEF AgentAllow
<1>2. PICK e : e = Counter
  OBVIOUS
<1>3. /\ EntryKept(limKind, limNow, e) /\ e \in LimEntries /\ e.late = 0
      /\ e.n \in Nat /\ e.time \in Int /\ limNow < e.time + WindowOf(limKind)
      /\ e.n \in 0..(LimLimit * (LimWindow + 1))
  <2>1. EntryKept(limKind, limNow, e) /\ e \in LimEntries /\ e.late = 0
        /\ e.n \in Nat /\ e.time \in Int /\ limNow < e.time + WindowOf(limKind)
    BY <1>1, <1>2, CounterIs
  <2> QED
    BY <2>1 DEF LimEntries
<1>4. PICK m : m = IF e.n > LimLimit THEN e.n ELSE e.n + 1
  OBVIOUS
<1>5. m \in 0..(LimLimit * (LimWindow + 1)) /\ m >= e.n /\ m \in Nat
  <2>1. CASE e.n > LimLimit
    BY <1>3, <1>4, <2>1
  <2>2. CASE ~(e.n > LimLimit)
    <3>1. m = e.n + 1 /\ m \in Nat /\ m <= LimLimit + 1
      BY <1>3, <1>4, <2>2, LimConstants
    <3>2. m \in 0..(LimLimit * (LimWindow + 1))
      BY <3>1, LimRanges
    <3> QED
      BY <1>3, <3>1, <3>2
  <2> QED
    BY <2>1, <2>2
<1>6. PICK f : f = [e EXCEPT !.n = IF @ > LimLimit THEN @ ELSE @ + 1]
  OBVIOUS
<1>7. f \in LimEntries /\ f.n = m /\ f.time = e.time /\ f.log = e.log /\ f.late = 0
  <2>1. f = [e EXCEPT !.n = m]
    BY <1>4, <1>6
  <2> QED
    BY <1>3, <1>5, <2>1 DEF LimEntries
<1>8. PICK d : d = Lets(f, e.n = 0 \/ e.n + 1 <= LimLimit)
  OBVIOUS
<1>9. PICK ok : ok = IF e.n + 1 <= LimLimit THEN 1 ELSE 0
  OBVIOUS
<1>10. (ok = 1 /\ d = Lets(f, TRUE)) \/ (ok = 0 /\ d = Lets(f, FALSE))
  <2>1. CASE e.n + 1 <= LimLimit
    BY <1>8, <1>9, <2>1 DEF Lets
  <2>2. CASE ~(e.n + 1 <= LimLimit)
    <3>1. ~(e.n = 0)
      BY <1>3, <2>2, LimConstants
    <3> QED
      BY <1>8, <1>9, <2>2, <3>1 DEF Lets
  <2> QED
    BY <2>1, <2>2
<1>11. /\ d \in LimEntries /\ Grows(limNow, f, d, ok) /\ ok \in Nat /\ ok <= 1
       /\ d.n = f.n /\ d.time = f.time /\ d.late = f.late
  BY <1>7, <1>10, LetsIs, LimStateIs
<1>12. Grows(limNow, e, d, ok) /\ d.time = e.time /\ d.n = m /\ d.late = 0
  BY <1>7, <1>11 DEF Grows
<1>13. ok = 1 => d.n = e.n + 1 /\ d.n <= LimLimit
  BY <1>3, <1>4, <1>9, <1>12, LimConstants
<1>14. d.n >= e.n
  BY <1>5, <1>12
<1>15. EntryKept(limKind, limNow, d)
  BY <1>1, <1>3, <1>11, <1>12, <1>13, <1>14, CounterCounts, LimStateIs
<1>16. Puts(d)
  BY <1>2, <1>6, <1>8 DEF AgentAllow
<1> QED
  BY <1>1, <1>12, <1>15, <1>16, CounterPuts

(* A caller uses the entry it holds, which may have left the map: it is one *)
(* holder less, and one request more if it is let through.                  *)
LEMMA UsesKeep ==
  ASSUME LimitsIInv, NEW p \in LimProcs, limProcs[p].pc = "found", NEW k, k = limProcs[p].at,
         NEW e, e = limEntries[k], NEW d \in LimEntries, NEW ok \in Nat, ok <= 1,
         Grows(limNow, e, d, ok), EntryKept(limKind, limNow, d),
         d.late = IF ok = 1 /\ k # limKey THEN e.late + 1 ELSE e.late,
         limEntries' = [limEntries EXCEPT ![k] = d], UNCHANGED limKey, Answers(p)
  PROVE  LimitsIInv'
<1>1. /\ limKind' = limKind /\ limNow' = limNow /\ limSweep' = limSweep /\ limSplit' = limSplit
      /\ limProcs' = [limProcs EXCEPT ![p] = NotAsking]
  BY DEF Answers
<1>2. limKind \in {"bucket", "mcp"} /\ limKind # "rest" /\ k \in 0..Len(limEntries) /\ k # 0
  BY DEF LimitsIInv, LimHeld
<1>3. k \in 1..Len(limEntries) /\ limEntries \in Seq(LimEntries) /\ Len(limEntries) \in Nat
      /\ e \in LimEntries /\ EntryKept(limKind, limNow, e) /\ e.late \in Nat
  <2>1. k \in 1..Len(limEntries) /\ limEntries \in Seq(LimEntries) /\ Len(limEntries) \in Nat
    BY <1>2, LimStateIs
  <2> QED
    BY <2>1, LimStateIs
<1>4. /\ limEntries' \in Seq(LimEntries) /\ Len(limEntries') = Len(limEntries)
      /\ limEntries'[k] = d
      /\ \A j \in 1..Len(limEntries) : j # k => limEntries'[j] = limEntries[j]
  BY <1>3
<1>5. LimHeld' /\ limProcs' \in [LimProcs -> LimCallers]
  <2>1. Len(limEntries') \in Nat /\ Len(limEntries) <= Len(limEntries') /\ (limKey # 0 => limKey' # 0)
    BY <1>3, <1>4
  <2> QED
    BY <1>2, <2>1, AnsweredHeld
<1>6. LimKept'
  BY <1>1, <1>4 DEF LimKept, LimitsIInv
<1>7. limProcs'[p].at = 0 /\ \A q \in LimProcs : q # p => limProcs'[q].at = limProcs[q].at
  BY <1>1, ProcAnswered
<1>8. LateFits(k)' \/ k = limKey
  <2> SUFFICES ASSUME k # limKey PROVE LateFits(k)'
    OBVIOUS
  <2>1. LateFits(k)
    BY <1>3 DEF LimitsIInv, LimLate
  <2>2. PICK H, I : H = Holders(k) /\ I = Holders(k)'
    OBVIOUS
  <2>3. H \in SUBSET LimProcs /\ p \in H /\ I = H \ {p}
    <3>1. k # 0
      BY <1>2
    <3> QED
      BY <1>7, <2>2, <3>1 DEF Holders
  <2>4. Cardinality(H) \in Nat /\ Cardinality(LimProcs) \in Nat /\ Cardinality(I) = Cardinality(H) - 1
    BY <2>3, HoldersFew
  <2>5. e.late + Cardinality(H) <= Cardinality(LimProcs)
        /\ (~limSplit => Cardinality(e.log) <= e.late)
    BY <2>1, <2>2 DEF LateFits
  <2>6. PICK l : l = d.late
    OBVIOUS
  <2>7. l \in Nat /\ (ok = 1 => l = e.late + 1) /\ (ok = 0 => l = e.late)
    BY <1>3, <2>6
  <2>8. /\ Cardinality(d.log) \in Nat /\ Cardinality(e.log) \in Nat
        /\ Cardinality(d.log) <= Cardinality(e.log) + ok
    BY <1>3, GrownIs, LimStateIs
  <2>9. ok = 0 \/ ok = 1
    OBVIOUS
  <2>10. l + Cardinality(I) <= Cardinality(LimProcs)
    BY <1>3, <2>4, <2>5, <2>7, <2>9
  <2>11. ~limSplit => Cardinality(d.log) <= l
    BY <1>3, <2>5, <2>7, <2>8, <2>9
  <2> QED
    BY <1>1, <1>4, <2>2, <2>6, <2>10, <2>11 DEF LateFits
<1>9. ASSUME NEW j \in 1..Len(limEntries), j # limKey, j # k
      PROVE  LateFits(j)'
  <2>1. \A q \in LimProcs : limProcs'[q].at = j <=> limProcs[q].at = j
    <3>1. j # 0 /\ limProcs[p].at # j /\ limProcs'[p].at # j
      BY <1>3, <1>7, <1>9
    <3> QED
      BY <1>7, <3>1
  <2> QED
    BY <1>1, <1>4, <1>9, <2>1, LateStays
<1>10. limKey # 0 => limEntries'[limKey].late = 0
  <2>1. CASE limKey = k
    BY <1>2, <1>4, <2>1 DEF LimitsIInv, LimLate
  <2>2. CASE limKey # k /\ limKey # 0
    <3>1. limEntries'[limKey] = limEntries[limKey]
      BY <1>4, <2>2, LimStateIs
    <3> QED
      BY <2>2, <3>1 DEF LimitsIInv, LimLate
  <2> QED
    BY <2>1, <2>2
<1>11. LimLate'
  BY <1>4, <1>8, <1>9, <1>10 DEF LimLate
<1>12. LimShape'
  BY <1>1, <1>4, <1>5 DEF LimitsIInv, LimShape
<1> QED
  BY <1>5, <1>6, <1>11, <1>12 DEF LimitsIInv

(* A request takes its tokens from the bucket it has found, or finds too    *)
(* few.                                                                     *)
LEMMA BucketKeeps ==
  ASSUME LimitsIInv, NEW p \in LimProcs, BucketAllow(p)
  PROVE  LimitsIInv'
<1>1. PICK k : k = limProcs[p].at
  OBVIOUS
<1>2. PICK e : e = limEntries[k]
  OBVIOUS
<1>3. PICK tokens : tokens = Min({LimLimit * LimWindow, e.n + (limNow - e.time) * LimLimit})
  OBVIOUS
<1>4. PICK n : n = IF tokens >= LimWindow THEN tokens - LimWindow ELSE tokens
  OBVIOUS
<1>5. PICK f : f = [e EXCEPT !.time = limNow, !.n = n]
  OBVIOUS
<1>6. limKind = "bucket" /\ Uses(p, f, tokens >= LimWindow)
  BY <1>1, <1>2, <1>3, <1>4, <1>5 DEF BucketAllow
<1>7. limProcs[p].pc = "found" /\ UNCHANGED limKey /\ Answers(p)
  BY <1>6 DEF Uses
<1>8. /\ k \in 1..Len(limEntries) /\ e \in LimEntries /\ EntryKept(limKind, limNow, e)
      /\ e.time \in Int /\ e.time <= limNow /\ e.n \in Nat /\ e.late \in Nat
  <2>1. k \in 0..Len(limEntries) /\ k # 0
    BY <1>1, <1>7 DEF LimitsIInv, LimHeld
  <2>2. k \in 1..Len(limEntries)
    BY <2>1, LimStateIs
  <2> QED
    BY <1>2, <2>2, LimStateIs
<1>9. PICK x, y : x = LimLimit * LimWindow /\ y = e.n + (limNow - e.time) * LimLimit
  OBVIOUS
<1>10. x \in Nat /\ y \in Nat
  <2>1. limNow - e.time \in Nat
    BY <1>8, LimStateIs
  <2>2. (limNow - e.time) * LimLimit \in Nat
    BY <2>1, LimConstants
  <2> QED
    BY <1>8, <1>9, <2>2, LimConstants
<1>11. tokens \in Nat /\ tokens <= x /\ tokens <= y
  <2>1. tokens = Min({x, y})
    BY <1>3, <1>9
  <2>2. tokens \in {x, y} /\ tokens <= x /\ tokens <= y
    BY <1>10, <2>1, MinMaxOfTwo
  <2> QED
    BY <1>10, <2>2
<1>12. n \in 0..(LimLimit * (LimWindow + 1))
  <2>1. n \in Nat /\ n <= x
    BY <1>4, <1>10, <1>11, LimConstants
  <2> QED
    BY <1>9, <2>1, LimRanges
<1>13. f \in LimEntries /\ f.n = n /\ f.time = limNow /\ f.log = e.log /\ f.late = e.late
  <2>1. limNow \in Int
    BY LimStateIs
  <2>2. e = [n |-> e.n, time |-> e.time, calls |-> e.calls, log |-> e.log, late |-> e.late]
    BY <1>8 DEF LimEntries
  <2>3. f = [n |-> n, time |-> limNow, calls |-> e.calls, log |-> e.log, late |-> e.late]
    BY <1>5, <2>2
  <2> QED
    BY <1>8, <1>12, <2>1, <2>3 DEF LimEntries
<1>14. PICK ok : ok = IF tokens >= LimWindow THEN 1 ELSE 0
  OBVIOUS
<1>15. PICK g : g = Lets(f, tokens >= LimWindow)
  OBVIOUS
<1>16. (ok = 1 /\ g = Lets(f, TRUE)) \/ (ok = 0 /\ g = Lets(f, FALSE))
  BY <1>14, <1>15 DEF Lets
<1>17. /\ g \in LimEntries /\ Grows(limNow, f, g, ok) /\ ok \in Nat /\ ok <= 1
       /\ g.n = n /\ g.time = limNow /\ g.late = e.late
  <2>1. limNow \in Nat
    BY LimStateIs
  <2>2. /\ g \in LimEntries /\ Grows(limNow, f, g, ok) /\ ok \in Nat /\ ok <= 1
        /\ g.n = f.n /\ g.time = f.time /\ g.late = f.late
    BY <1>13, <1>16, <2>1, LetsIs
  <2> QED
    BY <1>13, <2>2
<1>18. PICK l : l = IF ok = 1 /\ k # limKey THEN e.late + 1 ELSE e.late
  OBVIOUS
<1>19. PICK d : d = [g EXCEPT !.late = l]
  OBVIOUS
<1>20. l \in Nat
  BY <1>8, <1>18
<1>21. /\ d \in LimEntries /\ Grows(limNow, e, d, ok) /\ d.n = n /\ d.time = limNow /\ d.late = l
  <2>1. d \in LimEntries /\ d.log = g.log /\ d.n = g.n /\ d.time = g.time /\ d.late = l
    BY <1>17, <1>19, <1>20 DEF LimEntries
  <2> QED
    BY <1>13, <1>17, <2>1 DEF Grows
<1>22. limEntries' = [limEntries EXCEPT ![k] = d]
  <2>1. d = [g EXCEPT !.late = IF tokens >= LimWindow /\ k # limKey THEN @ + 1 ELSE @]
    <3>1. CASE tokens >= LimWindow /\ k # limKey
      BY <1>14, <1>17, <1>18, <1>19, <3>1
    <3>2. CASE ~(tokens >= LimWindow /\ k # limKey)
      BY <1>14, <1>17, <1>18, <1>19, <3>2
    <3> QED
      BY <3>1, <3>2
  <2> QED
    BY <1>1, <1>6, <1>15, <2>1 DEF Uses
<1>23. EntryKept(limKind, limNow, d)
  <2>1. tokens \in Int /\ tokens <= LimLimit * LimWindow /\ tokens <= e.n + (limNow - e.time) * LimLimit
    BY <1>9, <1>11
  <2>2. d.n = IF ok = 1 THEN tokens - LimWindow ELSE tokens
    BY <1>4, <1>14, <1>21
  <2>3. limNow \in Nat
    BY LimStateIs
  <2> QED
    BY <1>6, <1>8, <1>17, <1>21, <2>1, <2>2, <2>3, BucketUses
<1> QED
  BY <1>1, <1>2, <1>7, <1>17, <1>18, <1>21, <1>22, <1>23, UsesKeep

(* A call of the MCP worker is let through, or not, by the window it has    *)
(* found.                                                                   *)
LEMMA AcquireKeeps ==
  ASSUME LimitsIInv, NEW p \in LimProcs, tryAcquire(p)
  PROVE  LimitsIInv'
<1>1. PICK k : k = limProcs[p].at
  OBVIOUS
<1>2. PICK e : e = limEntries[k]
  OBVIOUS
<1>3. PICK calls : calls = Prune(e.calls)
  OBVIOUS
<1>4. PICK burst : burst = Since(calls, limNow)
  OBVIOUS
<1>5. PICK ok : ok = IF Cardinality(calls) < LimLimit /\ Cardinality(burst) < LimBurst THEN 1 ELSE 0
  OBVIOUS
<1>6. PICK more : more = IF ok = 1 THEN Noted(calls) ELSE calls
  OBVIOUS
<1>7. PICK f : f = [e EXCEPT !.calls = more]
  OBVIOUS
<1>8. /\ limKind = "mcp"
      /\ Uses(p, f, Cardinality(calls) < LimLimit /\ Cardinality(burst) < LimBurst)
  <2>1. f = [e EXCEPT !.calls = IF Cardinality(calls) < LimLimit /\ Cardinality(burst) < LimBurst
                                THEN Noted(calls) ELSE calls]
    BY <1>5, <1>6, <1>7
  <2> QED
    BY <1>1, <1>2, <1>3, <1>4, <2>1 DEF tryAcquire
<1>9. limProcs[p].pc = "found" /\ UNCHANGED limKey /\ Answers(p)
  BY <1>8 DEF Uses
<1>10. /\ k \in 1..Len(limEntries) /\ e \in LimEntries /\ EntryKept(limKind, limNow, e)
       /\ e.time \in Int /\ e.time <= limNow /\ e.n \in Nat /\ e.late \in Nat
       /\ e.calls \in LimCalls /\ e.log \in LimCalls
  <2>1. k \in 0..Len(limEntries) /\ k # 0
    BY <1>1, <1>9 DEF LimitsIInv, LimHeld
  <2>2. k \in 1..Len(limEntries)
    BY <2>1, LimStateIs
  <2> QED
    BY <1>2, <2>2, LimStateIs
<1>11. calls = e.log
  BY <1>3, <1>8, <1>10 DEF EntryKept, LimSlides, Prune
<1>12. more \in LimCalls
  <2>1. CASE ok = 1
    <3>1. PICK log : log = Noted(e.log)
      OBVIOUS
    <3>2. Adds(limNow, e.log, log)
      BY <1>10, <3>1, NotedAdds, LimStateIs
    <3>3. log \in LimCalls
      BY <1>10, <3>2, AddedIs, LimStateIs
    <3> QED
      BY <1>6, <1>11, <2>1, <3>1, <3>3
  <2>2. CASE ok # 1
    BY <1>6, <1>10, <1>11, <2>2
  <2> QED
    BY <2>1, <2>2
<1>13. f \in LimEntries /\ f.calls = more /\ f.time = e.time /\ f.log = e.log /\ f.late = e.late
  BY <1>7, <1>10, <1>12 DEF LimEntries
<1>14. PICK g : g = Lets(f, Cardinality(calls) < LimLimit /\ Cardinality(burst) < LimBurst)
  OBVIOUS
<1>15. (ok = 1 /\ g = Lets(f, TRUE)) \/ (ok = 0 /\ g = Lets(f, FALSE))
  <2>1. CASE Cardinality(calls) < LimLimit /\ Cardinality(burst) < LimBurst
    BY <1>5, <1>14, <2>1 DEF Lets
  <2>2. CASE ~(Cardinality(calls) < LimLimit /\ Cardinality(burst) < LimBurst)
    BY <1>5, <1>14, <2>2 DEF Lets
  <2> QED
    BY <2>1, <2>2
<1>16. /\ g \in LimEntries /\ Grows(limNow, f, g, ok) /\ ok \in Nat /\ ok <= 1
       /\ g.calls = more /\ g.time = e.time /\ g.late = e.late
  BY <1>13, <1>15, LetsIs, LimStateIs
<1>17. g.log = more
  <2>1. CASE ok = 1
    <3>1. g = [f EXCEPT !.log = Noted(@)]
      BY <1>15, <2>1 DEF Lets
    <3>2. g.log = Noted(e.log)
      <4>1. PICK log : log = Noted(e.log)
        OBVIOUS
      <4>2. g = [f EXCEPT !.log = log]
        BY <1>13, <3>1, <4>1
      <4> QED
        BY <1>13, <4>1, <4>2 DEF LimEntries
    <3> QED
      BY <1>6, <1>11, <2>1, <3>2
  <2>2. CASE ok # 1
    BY <1>6, <1>11, <1>13, <1>15, <2>2 DEF Lets
  <2> QED
    BY <2>1, <2>2
<1>18. PICK l : l = IF ok = 1 /\ k # limKey THEN e.late + 1 ELSE e.late
  OBVIOUS
<1>19. PICK d : d = [g EXCEPT !.late = l]
  OBVIOUS
<1>20. l \in Nat
  BY <1>10, <1>18
<1>21. /\ d \in LimEntries /\ Grows(limNow, e, d, ok) /\ d.log = d.calls /\ d.time = e.time
       /\ d.late = l
  <2>1. d \in LimEntries /\ d.log = g.log /\ d.calls = g.calls /\ d.time = g.time /\ d.late = l
    BY <1>16, <1>19, <1>20 DEF LimEntries
  <2> QED
    BY <1>13, <1>16, <1>17, <2>1 DEF Grows
<1>22. limEntries' = [limEntries EXCEPT ![k] = d]
  <2>1. d = [g EXCEPT !.late = IF (Cardinality(calls) < LimLimit /\ Cardinality(burst) < LimBurst)
                                    /\ k # limKey THEN @ + 1 ELSE @]
    <3>1. CASE (Cardinality(calls) < LimLimit /\ Cardinality(burst) < LimBurst) /\ k # limKey
      BY <1>5, <1>16, <1>18, <1>19, <3>1
    <3>2. CASE ~((Cardinality(calls) < LimLimit /\ Cardinality(burst) < LimBurst) /\ k # limKey)
      BY <1>5, <1>16, <1>18, <1>19, <3>2
    <3> QED
      BY <3>1, <3>2
  <2> QED
    BY <1>1, <1>8, <1>14, <2>1 DEF Uses
<1>23. EntryKept(limKind, limNow, d)
  <2>1. ok = 1 => Cardinality(e.log) < LimLimit
    BY <1>5, <1>11
  <2>2. limNow \in Nat
    BY LimStateIs
  <2> QED
    BY <1>8, <1>10, <1>16, <1>21, <2>1, <2>2, SlideUses
<1> QED
  BY <1>1, <1>2, <1>9, <1>16, <1>18, <1>21, <1>22, <1>23, UsesKeep

(* A caller finds the entry of its key, or makes it.                        *)
LEMMA FindsKeep ==
  ASSUME LimitsIInv, NEW p \in LimProcs, Finds(p)
  PROVE  LimitsIInv'
<1>1. /\ limKind \in {"bucket", "mcp"} /\ limKind # "rest" /\ limProcs[p].pc = "idle"
      /\ limKind' = limKind /\ limNow' = limNow /\ limSweep' = limSweep /\ limSplit' = limSplit
      /\ limProcs' = [limProcs EXCEPT ![p] = [pc |-> "found", at |-> limKey']]
  BY DEF Finds
<1>2. PICK l, m : l = Len(limEntries) /\ m = Len(limEntries')
  OBVIOUS
<1>3. /\ limEntries \in Seq(LimEntries) /\ l \in Nat /\ limKey \in 0..l
      /\ (limKey # 0 => limKey \in 1..l) /\ limProcs \in [LimProcs -> LimCallers]
      /\ limProcs[p].at = 0
  BY <1>1, <1>2, LimStateIs DEF LimitsIInv, LimHeld
<1>4. /\ limEntries' \in Seq(LimEntries) /\ m \in Nat /\ l <= m /\ limKey' \in 1..m /\ LimKept'
      /\ limEntries'[limKey'].late = 0
      /\ \A k \in 1..m : k # limKey' => k \in 1..l /\ k # limKey /\ limEntries'[k] = limEntries[k]
  <2>1. CASE limKey # 0
    <3>1. UNCHANGED <<limEntries, limKey>>
      BY <2>1 DEF Finds
    <3>2. LimKept' /\ limEntries'[limKey'].late = 0
      BY <1>1, <2>1, <3>1 DEF LimitsIInv, LimKept, LimLate
    <3> QED
      BY <1>2, <1>3, <2>1, <3>1, <3>2
  <2>2. CASE limKey = 0
    <3>1. PICK d : d = NewEntry
      OBVIOUS
    <3>2. EntryKept(limKind, limNow, d) /\ d.late = 0
      BY <1>1, <3>1, NewEntryIs
    <3>3. Puts(d)
      BY <2>2, <3>1 DEF Puts, Finds
    <3>4. /\ limEntries' \in Seq(LimEntries) /\ limKey' \in 1..Len(limEntries')
          /\ Len(limEntries') \in Nat /\ Len(limEntries) <= Len(limEntries')
          /\ LimKept' /\ limEntries'[limKey'].late = 0
          /\ \A k \in 1..Len(limEntries') :
                k # limKey' => k \in 1..Len(limEntries) /\ k # limKey /\ limEntries'[k] = limEntries[k]
      BY <1>1, <3>2, <3>3, PutsKeep
    <3> QED
      BY <1>2, <3>4
  <2> QED
    BY <2>1, <2>2
<1>5. PICK c : c = [pc |-> "found", at |-> limKey']
  OBVIOUS
<1>6. c \in LimCallers /\ c.pc = "found" /\ c.at = limKey' /\ limKey' \in Nat /\ limKey' # 0
  BY <1>4, <1>5 DEF LimCallers
<1>7. /\ limProcs' \in [LimProcs -> LimCallers] /\ limProcs'[p] = c
      /\ \A q \in LimProcs : q # p => limProcs'[q] = limProcs[q]
  BY <1>1, <1>3, <1>5, <1>6
<1>8. LimHeld'
  <2>1. ASSUME NEW q \in LimProcs
        PROVE  /\ limProcs'[q].at \in 0..m
               /\ limProcs'[q].pc = "idle" => limProcs'[q].at = 0
               /\ limProcs'[q].pc = "found" => limKind \in {"bucket", "mcp"} /\ limProcs'[q].at # 0
               /\ limProcs'[q].pc \in {"sleep", "sent"} => limKind = "rest" /\ limProcs'[q].at = 1
    <3>1. CASE q = p
      BY <1>1, <1>4, <1>6, <1>7, <3>1
    <3>2. CASE q # p
      <4>1. limProcs'[q] = limProcs[q]
        BY <1>7, <3>2
      <4>2. /\ limProcs[q].at \in 0..l
            /\ limProcs[q].pc = "idle" => limProcs[q].at = 0
            /\ limProcs[q].pc = "found" => limKind \in {"bucket", "mcp"} /\ limProcs[q].at # 0
            /\ limProcs[q].pc \in {"sleep", "sent"} => limKind = "rest" /\ limProcs[q].at = 1
        BY <1>2 DEF LimitsIInv, LimHeld
      <4>3. limProcs[q].at \in 0..m
        BY <1>3, <1>4, <4>2
      <4> QED
        BY <4>1, <4>2, <4>3
    <3> QED
      BY <3>1, <3>2
  <2>2. limSweep' => limKind' = "bucket" /\ limKey' # 0
    BY <1>1, <1>6 DEF LimitsIInv, LimHeld
  <2> QED
    BY <1>1, <1>2, <2>1, <2>2 DEF LimHeld
<1>9. LimLate'
  <2>1. ASSUME NEW k \in 1..m, k # limKey' PROVE LateFits(k)'
    <3>1. k \in 1..l /\ k # limKey /\ limEntries'[k] = limEntries[k]
      BY <1>4, <2>1
    <3>2. \A q \in LimProcs : limProcs'[q].at = k <=> limProcs[q].at = k
      <4>1. k # 0
        BY <3>1
      <4> QED
        BY <1>3, <1>6, <1>7, <2>1, <4>1
    <3> QED
      BY <1>1, <1>2, <3>1, <3>2, LateStays
  <2> QED
    BY <1>2, <1>4, <2>1 DEF LimLate
<1>10. LimShape'
  BY <1>1, <1>2, <1>4, <1>7 DEF LimitsIInv, LimShape
<1> QED
  BY <1>4, <1>8, <1>9, <1>10 DEF LimitsIInv

(* The entry of the key leaves the map: nothing has been let through late,  *)
(* and in the last window nothing at all, if it was old.                    *)
LEMMA Forgotten ==
  ASSUME LimitsIInv, limKind # "rest", limKey # 0, limKey' = 0,
         UNCHANGED <<limKind, limNow, limEntries, limProcs>>,
         limSweep' = FALSE, limSplit' \in BOOLEAN, limSplit => limSplit',
         ~limSplit' => limEntries[limKey].log = {}
  PROVE  LimitsIInv'
<1>1. LimShape'
  <2>1. limKey' \in 0..Len(limEntries)
    BY LimStateIs
  <2>2. FALSE \in BOOLEAN
    OBVIOUS
  <2> QED
    BY <2>1, <2>2, Zenon DEF LimitsIInv, LimShape
<1>2. LimKept'
  BY DEF LimitsIInv, LimKept
<1>3. LimHeld'
  BY DEF LimitsIInv, LimHeld
<1>5. ASSUME NEW k \in 1..Len(limEntries) PROVE LateFits(k)'
  <2>1. CASE k = limKey
    <3>1. limEntries[k].late = 0
      BY <2>1 DEF LimitsIInv, LimLate
    <3>2. PICK H : H = Holders(k)
      OBVIOUS
    <3>3. H \in SUBSET LimProcs /\ Holders(k)' = H
      BY <3>2 DEF Holders
    <3>4. Cardinality(H) \in Nat /\ Cardinality(H) <= Cardinality(LimProcs)
          /\ Cardinality(LimProcs) \in Nat
      BY <3>3, HoldersFew
    <3>5. ~limSplit' => Cardinality(limEntries[k].log) = 0
      BY <2>1, NoneSince
    <3> QED
      BY <3>1, <3>3, <3>4, <3>5 DEF LateFits
  <2>2. CASE k # limKey
    BY <2>2, LateStays
  <2> QED
    BY <2>1, <2>2
<1>6. LimLate'
  BY <1>5 DEF LimLate
<1> QED
  BY <1>1, <1>2, <1>3, <1>6 DEF LimitsIInv

(* What may be removed.                                                     *)
LEMMA RemovalsKeep ==
  ASSUME LimitsIInv,
         RateLimiterReset \/ AgentCleanup \/ BucketDelete
            \/ (\E age \in LimAges : CleanupRateLimits(age))
  PROVE  LimitsIInv'
<1>1. limNow \in Nat /\ limSplit \in BOOLEAN /\ (limKey # 0 => limKey \in 1..Len(limEntries))
  BY LimStateIs
<1>2. PICK e : e = limEntries[limKey]
  OBVIOUS
<1>3. limKey # 0 => /\ e \in LimEntries /\ EntryKept(limKind, limNow, e) /\ e.time \in Int
                    /\ e.log \in LimCalls /\ e.calls \in LimCalls
                    /\ \A c \in e.log : c[1] \in Int /\ limNow - LimWindow <= c[1]
  <2> SUFFICES ASSUME limKey # 0
               PROVE  /\ e \in LimEntries /\ EntryKept(limKind, limNow, e) /\ e.time \in Int
                      /\ e.log \in LimCalls /\ e.calls \in LimCalls
                      /\ \A c \in e.log : c[1] \in Int /\ limNow - LimWindow <= c[1]
    OBVIOUS
  <2>1. /\ e \in LimEntries /\ EntryKept(limKind, limNow, e) /\ e.time \in Int
        /\ e.log \in LimCalls /\ e.calls \in LimCalls
    BY <1>1, <1>2, LimStateIs
  <2>2. \A c \in e.log : c[1] \in Int /\ limNow - LimWindow <= c[1]
    BY <2>1 DEF EntryKept, LimCalls
  <2> QED
    BY <2>1, <2>2
<1>4. ASSUME RateLimiterReset PROVE LimitsIInv'
  <2>1. /\ limKind \in {"redis", "agent"} /\ limKey # 0 /\ limKey' = 0 /\ limSplit' = TRUE
        /\ UNCHANGED <<limKind, limNow, limEntries, limProcs>> /\ limSweep' = limSweep
    BY <1>4 DEF RateLimiterReset
  <2>2. limSweep = FALSE
    <3>1. limKind # "bucket"
      BY <2>1
    <3> QED
      BY <3>1, LimStateIs DEF LimitsIInv, LimHeld
  <2> QED
    BY <2>1, <2>2, Forgotten
<1>5. ASSUME AgentCleanup PROVE LimitsIInv'
  <2>1. /\ limKind = "agent" /\ limKey # 0 /\ limKey' = 0 /\ limSplit' = limSplit
        /\ UNCHANGED <<limKind, limNow, limEntries, limProcs>> /\ limSweep' = limSweep
        /\ limNow - e.time >= 2 * LimWindow
    BY <1>2, <1>5 DEF AgentCleanup
  <2>2. limSweep = FALSE
    <3>1. limKind # "bucket"
      BY <2>1
    <3> QED
      BY <3>1, LimStateIs DEF LimitsIInv, LimHeld
  <2>3. e.log = {}
    <3>1. \A c \in e.log : c[1] < e.time + LimWindow
      <4>1. PICK w : w = WindowOf(limKind)
        OBVIOUS
      <4>2. w = LimWindow /\ LimCounted(w, e)
        BY <1>3, <2>1, <4>1 DEF EntryKept, WindowOf
      <4> QED
        BY <4>2 DEF LimCounted
    <3>2. \A c \in e.log : FALSE
      BY <1>1, <1>3, <2>1, <3>1, LimConstants
    <3> QED
      BY <3>2
  <2> QED
    BY <1>1, <1>2, <2>1, <2>2, <2>3, Forgotten
<1>6. ASSUME BucketDelete PROVE LimitsIInv'
  <2>1. /\ limSweep /\ limSweep' = FALSE /\ limKey' = 0
        /\ limSplit' = (limSplit \/ limNow - e.time <= LimIdle)
        /\ UNCHANGED <<limKind, limNow, limEntries, limProcs>>
    BY <1>2, <1>6 DEF BucketDelete
  <2>2. limKind = "bucket" /\ limKey # 0
    BY <2>1 DEF LimitsIInv, LimHeld
  <2>3. ASSUME ~(limNow - e.time <= LimIdle) PROVE e.log = {}
    <3>1. \A c \in e.log : c[1] <= e.time
      BY <1>3, <2>2 DEF EntryKept, LimFilled
    <3>2. \A c \in e.log : FALSE
      BY <1>1, <1>3, <2>2, <2>3, <3>1, LimConstants
    <3> QED
      BY <3>2
  <2>4. limSplit' \in BOOLEAN /\ (limSplit => limSplit') /\ (~limSplit' => e.log = {})
    <3>1. CASE limNow - e.time <= LimIdle
      BY <2>1, <3>1, Zenon
    <3>2. CASE ~(limNow - e.time <= LimIdle)
      <4>1. limSplit' = limSplit
        BY <1>1, <2>1, <3>2, Zenon
      <4> QED
        BY <1>1, <2>3, <3>2, <4>1
    <3> QED
      BY <3>1, <3>2
  <2> QED
    BY <1>2, <2>1, <2>2, <2>4, Forgotten
<1>7. ASSUME NEW age \in LimAges, CleanupRateLimits(age) PROVE LimitsIInv'
  <2>1. /\ limKind = "mcp" /\ limKey # 0 /\ limKey' = 0
        /\ limSplit' = (limSplit \/ age < LimWindow)
        /\ UNCHANGED <<limKind, limNow, limEntries, limProcs>> /\ limSweep' = limSweep
        /\ Since(e.calls, limNow - age) = {}
    BY <1>2, <1>7 DEF CleanupRateLimits
  <2>2. limSweep = FALSE
    <3>1. limKind # "bucket"
      BY <2>1
    <3> QED
      BY <3>1, LimStateIs DEF LimitsIInv, LimHeld
  <2>3. ASSUME ~(age < LimWindow) PROVE e.log = {}
    <3>1. age \in Nat /\ LimWindow <= age
      BY <2>3, LimitsAssumption, LimConstants
    <3>2. e.log = Since(e.calls, limNow - LimWindow) /\ \A c \in e.calls : c[1] \in Int
      BY <1>3, <2>1 DEF EntryKept, LimSlides, LimCalls
    <3>3. \A c \in e.calls : ~(c[1] >= limNow - age)
      BY <2>1 DEF Since
    <3>4. \A c \in e.calls : ~(c[1] >= limNow - LimWindow)
      BY <1>1, <3>1, <3>2, <3>3, LimConstants
    <3> QED
      BY <3>2, <3>4 DEF Since
  <2>4. limSplit' \in BOOLEAN /\ (limSplit => limSplit') /\ (~limSplit' => e.log = {})
    <3>1. CASE age < LimWindow
      BY <2>1, <3>1, Zenon
    <3>2. CASE ~(age < LimWindow)
      <4>1. limSplit' = limSplit
        BY <1>1, <2>1, <3>2, Zenon
      <4> QED
        BY <1>1, <2>3, <3>2, <4>1
    <3> QED
      BY <3>1, <3>2
  <2> QED
    BY <1>2, <2>1, <2>2, <2>4, Forgotten
<1> QED
  BY <1>4, <1>5, <1>6, <1>7

(* The cleaner has found the bucket idle.                                   *)
LEMMA IdleKeeps ==
  ASSUME LimitsIInv, BucketIdle
  PROVE  LimitsIInv'
<1>1. /\ limKind = "bucket" /\ limKey # 0 /\ limSweep' = TRUE
      /\ UNCHANGED <<limKind, limNow, limEntries, limKey, limProcs, limSplit>>
  BY DEF BucketIdle
<1>2. LimShape' /\ LimKept' /\ LimHeld'
  BY <1>1 DEF LimitsIInv, LimShape, LimKept, LimHeld
<1>3. LimLate'
  <2>1. ASSUME NEW k \in 1..Len(limEntries), k # limKey PROVE LateFits(k)'
    BY <1>1, <2>1, LateStays
  <2>2. limKey # 0 => limEntries[limKey].late = 0
    BY DEF LimitsIInv, LimLate
  <2> QED
    BY <1>1, <2>1, <2>2 DEF LimLate
<1> QED
  BY <1>2, <1>3 DEF LimitsIInv

(* A tick.                                                                  *)
LEMMA LimTickKeeps ==
  ASSUME LimitsIInv, LimTick
  PROVE  LimitsIInv'
<1>1. /\ limNow < LimMaxTick /\ limNow' = limNow + 1
      /\ UNCHANGED <<limKind, limKey, limProcs, limSweep, limSplit>>
  BY DEF LimTick
<1>2. PICK now, next, t : now = limNow /\ next = limNow' /\ t = next - LimWindow
  OBVIOUS
<1>3. /\ now \in Nat /\ next = now + 1 /\ next \in 0..LimMaxTick
      /\ limEntries \in Seq(LimEntries) /\ Len(limEntries) \in Nat
  BY <1>1, <1>2, LimStateIs, LimConstants
<1>4. limEntries' = [k \in 1..Len(limEntries) |->
                        [limEntries[k] EXCEPT !.log = Since(@, t)]]
  BY <1>2, <1>3 DEF LimTick
<1>5. ASSUME NEW k \in 1..Len(limEntries)
      PROVE  /\ limEntries'[k] \in LimEntries /\ limEntries'[k].log = Since(limEntries[k].log, t)
             /\ limEntries'[k].n = limEntries[k].n /\ limEntries'[k].time = limEntries[k].time
             /\ limEntries'[k].calls = limEntries[k].calls /\ limEntries'[k].late = limEntries[k].late
  <2>1. PICK e : e = limEntries[k]
    OBVIOUS
  <2>2. e \in LimEntries /\ e.log \in LimCalls
    BY <2>1, LimStateIs
  <2>3. PICK log : log = Since(e.log, t)
    OBVIOUS
  <2>4. log \in LimCalls
    BY <2>2, <2>3, SpansOf
  <2>5. limEntries'[k] = [e EXCEPT !.log = log]
    BY <1>4, <2>1, <2>3
  <2>6. PICK d : d = limEntries'[k]
    OBVIOUS
  <2>7. d \in LimEntries /\ d.log = log /\ d.n = e.n /\ d.time = e.time /\ d.calls = e.calls
        /\ d.late = e.late
    BY <2>2, <2>4, <2>5, <2>6 DEF LimEntries
  <2> QED
    BY <2>1, <2>3, <2>6, <2>7
<1>6. limEntries' \in Seq(LimEntries) /\ Len(limEntries') = Len(limEntries)
  BY <1>3, <1>4, <1>5
<1>7. LimKept'
  <2> SUFFICES ASSUME NEW k \in 1..Len(limEntries)
               PROVE  EntryKept(limKind, next, limEntries'[k])
    BY <1>1, <1>2, <1>6 DEF LimKept
  <2>1. PICK e, d : e = limEntries[k] /\ d = limEntries'[k]
    OBVIOUS
  <2>2. EntryKept(limKind, now, e)
    BY <1>2, <2>1, LimStateIs
  <2>3. /\ d \in LimEntries /\ d.log = Since(e.log, next - LimWindow) /\ d.time = e.time
        /\ d.n = e.n /\ d.calls = e.calls
    BY <1>2, <1>5, <2>1
  <2> QED
    BY <1>3, <2>1, <2>2, <2>3, EntryTicks
<1>8. LimHeld'
  BY <1>1, <1>6 DEF LimitsIInv, LimHeld
<1>9. LimLate'
  <2>1. ASSUME NEW k \in 1..Len(limEntries), k # limKey PROVE LateFits(k)'
    <3>1. LateFits(k)
      BY <2>1 DEF LimitsIInv, LimLate
    <3>2. PICK log : log = limEntries'[k].log
      OBVIOUS
    <3>3. /\ Cardinality(log) \in Nat /\ Cardinality(limEntries[k].log) \in Nat
          /\ Cardinality(log) <= Cardinality(limEntries[k].log)
      <4>1. limEntries[k].log \in LimCalls /\ log = Since(limEntries[k].log, t)
        BY <1>5, <3>2, LimStateIs
      <4>2. Cardinality(limEntries[k].log) \in Nat
        BY <4>1, FewerRequests
      <4> QED
        BY <4>1, <4>2, SpansOf
    <3>4. Holders(k)' = Holders(k)
      BY <1>1 DEF Holders
    <3>5. limEntries'[k].late = limEntries[k].late /\ limEntries[k].late \in Nat
      BY <1>5, LimStateIs
    <3> QED
      BY <1>1, <3>1, <3>2, <3>3, <3>4, <3>5 DEF LateFits
  <2>2. limKey # 0 => limEntries'[limKey].late = 0
    <3>1. ASSUME limKey # 0 PROVE limEntries'[limKey].late = 0
      <4>1. limKey \in 1..Len(limEntries) /\ limEntries[limKey].late = 0
        BY <3>1, LimStateIs DEF LimitsIInv, LimLate
      <4> QED
        BY <1>5, <4>1
    <3> QED
      BY <3>1
  <2> QED
    BY <1>1, <1>6, <2>1, <2>2 DEF LimLate
<1>10. LimShape'
  BY <1>1, <1>2, <1>3, <1>6 DEF LimitsIInv, LimShape
<1> QED
  BY <1>7, <1>8, <1>9, <1>10 DEF LimitsIInv

(* A step of the HTTP client: its one entry becomes another.                *)
LEMMA PacePuts ==
  ASSUME LimitsIInv, limKind = "rest", NEW p \in LimProcs, NEW d, EntryKept("rest", limNow, d),
         d.late = 0, limEntries' = <<d>>, limKey' = 1,
         NEW c \in LimCallers, c.pc \in {"idle", "sleep", "sent"},
         c.at = IF c.pc = "idle" THEN 0 ELSE 1,
         limProcs' = [limProcs EXCEPT ![p] = c],
         UNCHANGED <<limKind, limNow, limSweep, limSplit>>
  PROVE  LimitsIInv'
<1>1. d \in LimEntries
  BY DEF EntryKept
<1>2. limEntries' \in Seq(LimEntries) /\ Len(limEntries') = 1 /\ limEntries'[1] = d
  BY <1>1
<1>3. /\ limProcs' \in [LimProcs -> LimCallers] /\ limProcs'[p] = c
      /\ \A q \in LimProcs : q # p => limProcs'[q] = limProcs[q]
  BY LimStateIs
<1>4. LimKept'
  <2>1. \A k \in 1..1 : k = 1
    OBVIOUS
  <2> QED
    BY <1>2, <2>1 DEF LimKept
<1>5. LimLate'
  <2>1. \A k \in 1..1 : k = 1
    OBVIOUS
  <2> QED
    BY <1>2, <2>1 DEF LimLate
<1>6. LimHeld'
  <2>1. ASSUME NEW q \in LimProcs
        PROVE  /\ limProcs'[q].at \in 0..1
               /\ limProcs'[q].pc = "idle" => limProcs'[q].at = 0
               /\ limProcs'[q].pc # "found"
               /\ limProcs'[q].pc \in {"sleep", "sent"} => limProcs'[q].at = 1
    <3>1. CASE q = p
      BY <1>3, <3>1
    <3>2. CASE q # p
      <4>1. limProcs'[q] = limProcs[q]
        BY <1>3, <3>2
      <4>2. /\ limProcs[q].at \in 0..Len(limEntries)
            /\ limProcs[q].pc = "idle" => limProcs[q].at = 0
            /\ limProcs[q].pc = "found" => limKind \in {"bucket", "mcp"}
            /\ limProcs[q].pc \in {"sleep", "sent"} => limProcs[q].at = 1
            /\ Len(limEntries) <= 1
        BY DEF LimitsIInv, LimHeld
      <4>3. limProcs[q].at \in 0..1
        BY <4>2, LimStateIs
      <4> QED
        BY <4>1, <4>2, <4>3
    <3> QED
      BY <3>1, <3>2
  <2>2. ~limSweep
    <3>1. limKind # "bucket"
      OBVIOUS
    <3> QED
      BY <3>1 DEF LimitsIInv, LimHeld
  <2> QED
    BY <1>2, <2>1, <2>2 DEF LimHeld
<1>7. LimShape'
  BY <1>2, <1>3 DEF LimitsIInv, LimShape
<1> QED
  BY <1>4, <1>5, <1>6, <1>7 DEF LimitsIInv

(* The HTTP client's entry.                                                 *)
LEMMA PaceIs ==
  ASSUME LimitsIInv, limKind = "rest", limKey # 0, NEW e, e = limEntries[1]
  PROVE  /\ limEntries = <<e>> /\ limKey = 1 /\ e \in LimEntries /\ e.late = 0
         /\ EntryKept("rest", limNow, e) /\ e.n \in 1..(2 * LimLimit) /\ e.time \in Int
         /\ e.time <= limNow /\ e.log \in LimCalls
<1>1. Len(limEntries) <= 1 /\ limKey = Len(limEntries)
  BY DEF LimitsIInv, LimHeld
<1>2. limEntries \in Seq(LimEntries) /\ Len(limEntries) \in Nat
  BY LimStateIs
<1>3. limKey = 1 /\ Len(limEntries) = 1
  BY <1>1, <1>2
<1>4. limEntries = <<e>>
  BY <1>2, <1>3
<1>5. /\ e \in LimEntries /\ EntryKept("rest", limNow, e) /\ e.time \in Int /\ e.time <= limNow
      /\ e.log \in LimCalls /\ e.late = 0
  <2>1. 1 \in 1..Len(limEntries)
    BY <1>3
  <2> QED
    BY <1>3, <2>1, LimStateIs DEF LimitsIInv, LimLate
<1>6. e.n \in 1..(2 * LimLimit)
  BY <1>5 DEF EntryKept, LimPaced
<1> QED
  BY <1>3, <1>4, <1>5, <1>6

(* A request waits for its turn.                                            *)
LEMMA WaitKeeps ==
  ASSUME LimitsIInv, NEW p \in LimProcs, waitForRateLimit(p)
  PROVE  LimitsIInv'
<1>1. /\ limKind = "rest" /\ limKey' = 1 /\ UNCHANGED <<limKind, limNow, limSweep, limSplit>>
      /\ limProcs' = [limProcs EXCEPT ![p] = [pc |-> "sleep", at |-> 1]]
  BY DEF waitForRateLimit
<1>2. PICK c : c = [pc |-> "sleep", at |-> 1]
  OBVIOUS
<1>3. c \in LimCallers /\ c.pc = "sleep" /\ c.at = 1
  BY <1>2 DEF LimCallers
<1>4. CASE limKey # 0
  <2>1. PICK e : e = limEntries[1]
    OBVIOUS
  <2>2. limEntries = <<e>> /\ EntryKept("rest", limNow, e) /\ e.late = 0
    BY <1>1, <1>4, <2>1, PaceIs
  <2>3. limEntries' = <<e>>
    BY <1>4, <2>2 DEF waitForRateLimit
  <2> QED
    BY <1>1, <1>2, <1>3, <2>2, <2>3, PacePuts
<1>5. CASE limKey = 0
  <2>1. PICK n, e : n = NewEntry /\ e = [n EXCEPT !.n = 2 * LimLimit, !.time = -4 * LimWindow]
    OBVIOUS
  <2>2. n \in LimEntries /\ n.calls = {} /\ n.log = {} /\ n.late = 0
    BY <2>1, NewEntryIs
  <2>3. n = [n |-> n.n, time |-> n.time, calls |-> {}, log |-> {}, late |-> 0]
    BY <2>2 DEF LimEntries
  <2>4. PICK t, r : t = -4 * LimWindow /\ r = 2 * LimLimit
    OBVIOUS
  <2>5. e = [n |-> 2 * LimLimit, time |-> t, calls |-> {}, log |-> {}, late |-> 0]
    <3>1. e = [n EXCEPT !.n = r, !.time = t]
      BY <2>1, <2>4
    <3>2. PICK a, b : a = n.n /\ b = n.time
      OBVIOUS
    <3>3. n = [n |-> a, time |-> b, calls |-> {}, log |-> {}, late |-> 0]
      BY <2>3, <3>2
    <3>4. PICK g : g = [n EXCEPT !.n = r]
      OBVIOUS
    <3>5. g = [n |-> r, time |-> b, calls |-> {}, log |-> {}, late |-> 0]
      BY <3>3, <3>4
    <3>6. e = [g EXCEPT !.time = t]
      BY <3>1, <3>4
    <3>7. e = [n |-> r, time |-> t, calls |-> {}, log |-> {}, late |-> 0]
      BY <3>5, <3>6
    <3> QED
      BY <2>4, <3>7
  <2>6. t \in Int /\ t <= limNow /\ 2 * LimLimit \in 1..(2 * LimLimit) /\ limNow \in Nat
    BY <2>4, LimStateIs, LimConstants
  <2>7. 2 * LimLimit \in 0..(LimLimit * (LimWindow + 1))
    BY LimRanges
  <2>8. e \in LimEntries /\ e.n = 2 * LimLimit /\ e.time = t /\ e.calls = {} /\ e.log = {}
        /\ e.late = 0
    BY <2>5, <2>6, <2>7, NoneSince DEF LimEntries
  <2>9. EntryKept(limKind, limNow, e)
    BY <1>1, <2>6, <2>8, FreshKept
  <2>10. limEntries' = <<e>>
    BY <1>5, <2>1 DEF waitForRateLimit
  <2> QED
    BY <1>1, <1>2, <1>3, <2>8, <2>9, <2>10, PacePuts
<1> QED
  BY <1>4, <1>5

(* It is sent, when the interval has passed.                                *)
LEMMA SendKeeps ==
  ASSUME LimitsIInv, NEW p \in LimProcs, RestSends(p)
  PROVE  LimitsIInv'
<1>1. /\ limProcs[p].pc = "sleep" /\ UNCHANGED <<limKind, limNow, limKey, limSweep, limSplit>>
      /\ limProcs' = [limProcs EXCEPT ![p] = [pc |-> "sent", at |-> 1]]
  BY DEF RestSends
<1>2. limKind = "rest" /\ limKey # 0
  <2>1. limKind = "rest" /\ limProcs[p].at = 1 /\ limProcs[p].at \in 0..Len(limEntries)
        /\ limKey = Len(limEntries)
    BY <1>1 DEF LimitsIInv, LimHeld
  <2> QED
    BY <2>1, LimStateIs
<1>3. PICK e : e = limEntries[1]
  OBVIOUS
<1>4. /\ limKey = 1 /\ e \in LimEntries /\ e.late = 0 /\ EntryKept("rest", limNow, e)
      /\ e.n \in 1..(2 * LimLimit) /\ e.time \in Int /\ e.time <= limNow
  BY <1>2, <1>3, PaceIs
<1>5. PICK f : f = [e EXCEPT !.time = limNow]
  OBVIOUS
<1>6. f \in LimEntries /\ f.time = limNow /\ f.n = e.n /\ f.log = e.log /\ f.late = 0
  <2>1. limNow \in Int
    BY LimStateIs
  <2> QED
    BY <1>4, <1>5, <2>1 DEF LimEntries
<1>7. PICK d, ok : d = Lets(f, TRUE) /\ ok = 1
  OBVIOUS
<1>8. /\ d \in LimEntries /\ Grows(limNow, f, d, ok) /\ d.n = f.n /\ d.time = f.time
      /\ d.late = f.late
  BY <1>6, <1>7, LetsIs, LimStateIs
<1>9. Grows(limNow, e, d, 1) /\ d.n = e.n /\ d.time = limNow /\ d.late = 0
  BY <1>6, <1>7, <1>8 DEF Grows
<1>10. (limNow - e.time) * e.n >= 2 * LimWindow
  BY <1>3 DEF RestSends
<1>11. EntryKept("rest", limNow, d)
  <2>1. limNow \in Nat
    BY LimStateIs
  <2> QED
    BY <1>4, <1>8, <1>9, <1>10, <2>1, PaceSends
<1>12. limEntries' = <<d>>
  BY <1>3, <1>5, <1>7 DEF RestSends
<1>13. PICK c : c = [pc |-> "sent", at |-> 1]
  OBVIOUS
<1>14. c \in LimCallers /\ c.pc = "sent" /\ c.at = 1
  BY <1>13 DEF LimCallers
<1> QED
  BY <1>1, <1>2, <1>4, <1>9, <1>11, <1>12, <1>13, <1>14, PacePuts

(* Its answer changes the pace.                                             *)
LEMMA AdaptsKeep ==
  ASSUME LimitsIInv, NEW p \in LimProcs, adaptiveDecrease(p) \/ adaptiveIncrease(p)
  PROVE  LimitsIInv'
<1>1. limProcs[p].pc = "sent"
  BY DEF adaptiveDecrease, adaptiveIncrease
<1>2. limKind = "rest" /\ limKey # 0
  <2>1. limKind = "rest" /\ limProcs[p].at = 1 /\ limProcs[p].at \in 0..Len(limEntries)
        /\ limKey = Len(limEntries)
    BY <1>1 DEF LimitsIInv, LimHeld
  <2> QED
    BY <2>1, LimStateIs
<1>3. PICK e : e = limEntries[1]
  OBVIOUS
<1>4. /\ limKey = 1 /\ e \in LimEntries /\ e.late = 0 /\ EntryKept("rest", limNow, e)
      /\ e.n \in 1..(2 * LimLimit) /\ e.time \in Int /\ e.time <= limNow
  BY <1>2, <1>3, PaceIs
<1>5. PICK m : m = IF adaptiveDecrease(p) THEN Max({e.n \div 2, 1}) ELSE Min({e.n + 1, 2 * LimLimit})
  OBVIOUS
<1>6. RestAnswered(p, m)
  BY <1>3, <1>5 DEF adaptiveDecrease, adaptiveIncrease
<1>7. m \in 1..(2 * LimLimit)
  <2>1. PICK x, y, z : x = e.n \div 2 /\ y = e.n + 1 /\ z = 2 * LimLimit
    OBVIOUS
  <2>2. x \in Nat /\ x <= z /\ y \in Nat /\ y >= 1 /\ z \in Nat /\ z >= 1
    BY <1>4, <2>1, LimConstants
  <2>3. /\ Max({x, 1}) \in {x, 1} /\ Max({x, 1}) >= 1
        /\ Min({y, z}) \in {y, z} /\ Min({y, z}) <= z
    <3>1. PICK one : one = 1
      OBVIOUS
    <3>2. one \in Int /\ x \in Int /\ y \in Int /\ z \in Int
      BY <2>2, <3>1
    <3>3. Max({x, one}) \in {x, one} /\ Max({x, one}) >= one
      BY <3>2, MinMaxOfTwo
    <3>4. Min({y, z}) \in {y, z} /\ Min({y, z}) <= z
      BY <3>2, MinMaxOfTwo
    <3> QED
      BY <3>1, <3>3, <3>4
  <2>4. m = Max({x, 1}) \/ m = Min({y, z})
    BY <1>5, <2>1
  <2> QED
    BY <2>1, <2>2, <2>3, <2>4
<1>8. PICK d : d = [e EXCEPT !.n = m]
  OBVIOUS
<1>9. m \in 0..(LimLimit * (LimWindow + 1))
  <2>1. m \in Nat /\ m <= 2 * LimLimit
    BY <1>7, LimConstants
  <2> QED
    BY <2>1, LimRanges
<1>10. d \in LimEntries /\ d.n = m /\ d.time = e.time /\ d.log = e.log /\ d.late = 0
  BY <1>4, <1>8, <1>9 DEF LimEntries
<1>11. EntryKept("rest", limNow, d)
  <2>1. LimPaced(e)
    BY <1>4 DEF EntryKept
  <2>2. LimPaced(d)
    BY <1>7, <1>10, <2>1 DEF LimPaced
  <2>3. \A c \in e.log : limNow - LimWindow <= c[1] /\ c[1] <= limNow
    BY <1>4 DEF EntryKept
  <2> QED
    BY <1>4, <1>10, <2>2, <2>3 DEF EntryKept
<1>12. /\ limEntries' = <<d>> /\ limProcs' = [limProcs EXCEPT ![p] = NotAsking]
       /\ UNCHANGED <<limKind, limNow, limKey, limSweep, limSplit>>
  BY <1>3, <1>6, <1>8 DEF RestAnswered
<1>13. PICK c : c = NotAsking
  OBVIOUS
<1>14. c \in LimCallers /\ c.pc = "idle" /\ c.at = 0
  BY <1>13 DEF NotAsking, LimCallers
<1> QED
  BY <1>2, <1>4, <1>10, <1>11, <1>12, <1>13, <1>14, PacePuts

(* The invariant holds at first and in every step.                          *)
LEMMA LimitsInductive ==
  LimitsSpec => []LimitsIInv
<1>1. LimitsInit => LimitsIInv
  <2> SUFFICES ASSUME LimitsInit PROVE LimitsIInv
    OBVIOUS
  <2>1. /\ limKind \in LimKinds /\ limNow = 0 /\ limEntries = <<>> /\ limKey = 0
        /\ limProcs = [p \in LimProcs |-> NotAsking] /\ limSweep = FALSE /\ limSplit = FALSE
    BY DEF LimitsInit
  <2>2. NotAsking \in LimCallers /\ NotAsking.pc = "idle" /\ NotAsking.at = 0
    BY DEF NotAsking, LimCallers
  <2>3. limEntries \in Seq(LimEntries) /\ Len(limEntries) = 0 /\ 1..Len(limEntries) = {}
    BY <2>1
  <2>4. LimShape
    <3>1. limNow \in 0..LimMaxTick /\ limKey \in 0..Len(limEntries)
      BY <2>1, <2>3, LimConstants
    <3>2. limProcs \in [LimProcs -> LimCallers]
      BY <2>1, <2>2
    <3>3. limSweep \in BOOLEAN /\ limSplit \in BOOLEAN
      BY <2>1, Zenon
    <3> QED
      BY <2>1, <2>3, <3>1, <3>2, <3>3, Zenon DEF LimShape
  <2>5. LimHeld
    BY <2>1, <2>2, <2>3 DEF LimHeld
  <2> QED
    BY <2>1, <2>3, <2>4, <2>5 DEF LimitsIInv, LimKept, LimLate
<1>2. LimitsIInv /\ [LimitsNext]_limVars => LimitsIInv'
  <2> SUFFICES ASSUME LimitsIInv, [LimitsNext]_limVars PROVE LimitsIInv'
    OBVIOUS
  <2>1. ASSUME NEW p \in LimProcs, RedisAllow(p) PROVE LimitsIInv'
    BY <2>1, RedisKeeps
  <2>2. ASSUME NEW p \in LimProcs, AgentAllow(p) PROVE LimitsIInv'
    BY <2>2, AgentKeeps
  <2>3. ASSUME NEW p \in LimProcs, Finds(p) PROVE LimitsIInv'
    BY <2>3, FindsKeep
  <2>4. ASSUME NEW p \in LimProcs, BucketAllow(p) PROVE LimitsIInv'
    BY <2>4, BucketKeeps
  <2>5. ASSUME NEW p \in LimProcs, tryAcquire(p) PROVE LimitsIInv'
    BY <2>5, AcquireKeeps
  <2>6. ASSUME NEW p \in LimProcs, waitForRateLimit(p) PROVE LimitsIInv'
    BY <2>6, WaitKeeps
  <2>7. ASSUME NEW p \in LimProcs, RestSends(p) PROVE LimitsIInv'
    BY <2>7, SendKeeps
  <2>8. ASSUME NEW p \in LimProcs, adaptiveDecrease(p) \/ adaptiveIncrease(p) PROVE LimitsIInv'
    BY <2>8, AdaptsKeep
  <2>9. ASSUME RateLimiterReset \/ AgentCleanup \/ BucketDelete
                  \/ (\E age \in LimAges : CleanupRateLimits(age))
        PROVE  LimitsIInv'
    BY <2>9, RemovalsKeep
  <2>10. ASSUME BucketIdle PROVE LimitsIInv'
    BY <2>10, IdleKeeps
  <2>11. ASSUME LimTick PROVE LimitsIInv'
    BY <2>11, LimTickKeeps
  <2>12. ASSUME UNCHANGED limVars PROVE LimitsIInv'
    BY <2>12 DEF limVars, LimitsIInv, LimShape, LimKept, LimHeld, LimLate, LateFits, Holders
  <2> QED
    BY <2>1, <2>2, <2>3, <2>4, <2>5, <2>6, <2>7, <2>8, <2>9, <2>10, <2>11, <2>12 DEF LimitsNext
<1> QED
  BY <1>1, <1>2, PTL DEF LimitsSpec

(* For any limit, window and idle time no shorter than it, any number of    *)
(* callers and any order of their steps, of ticks, of removals and of the   *)
(* cleaners that run beside them: one entry lets through what its limiter   *)
(* promises in the window behind, or twice that, or three times where Redis *)
(* counts in a shorter window than it was asked for; and an entry that has  *)
(* left the map lets each of its callers through once more at most          *)
(* (redis/ratelimiter.go:20-45, api/middleware/ratelimit.go:44-77,          *)
(* mcp/worker.go:204, http_client.go:167-215).                              *)
THEOREM AdmissionsAreBounded ==
  LimitsSpec => []AdmissionBounded
<1>1. LimitsIInv => AdmissionBounded
  <2> SUFFICES ASSUME LimitsIInv, NEW k \in 1..Len(limEntries)
               PROVE  /\ Cardinality(limEntries[k].log) <= LimMost
                      /\ k # limKey =>
                            /\ limEntries[k].late + Cardinality(Holders(k)) <= Cardinality(LimProcs)
                            /\ ~limSplit => Cardinality(limEntries[k].log) <= limEntries[k].late
    BY DEF AdmissionBounded
  <2>1. LimMost = MostOf(limKind)
    BY DEF LimMost, MostOf
  <2>2. EntryKept(limKind, limNow, limEntries[k]) /\ limNow \in Nat
        /\ limKind \in {"redis", "agent", "mcp", "bucket", "rest"}
    BY LimStateIs
  <2>3. Cardinality(limEntries[k].log) <= MostOf(limKind)
    BY <2>2, EntryBounded
  <2>4. k # limKey => LateFits(k)
    BY DEF LimitsIInv, LimLate
  <2> QED
    BY <2>1, <2>3, <2>4 DEF LateFits
<1> QED
  BY <1>1, LimitsInductive, PTL

(* The limiters keep their types.                                           *)
LEMMA LimitsTypes ==
  LimitsSpec => []LimitsTypeOK
<1>1. LimitsIInv => LimitsTypeOK
  <2> SUFFICES ASSUME LimitsIInv PROVE LimitsTypeOK
    OBVIOUS
  <2>1. \A n \in 1..Len(limEntries) : limEntries[n].n \in 0..(LimLimit * (LimWindow + 1))
    BY LimStateIs DEF LimEntries
  <2>2. \A p \in LimProcs : limProcs[p].at \in 0..Len(limEntries)
    BY DEF LimitsIInv, LimHeld
  <2>3. {limSweep, limSplit} \subseteq BOOLEAN
    BY LimStateIs, Zenon
  <2> QED
    BY <2>1, <2>2, <2>3, LimStateIs DEF LimitsTypeOK, LimitsIInv, LimShape
<1> QED
  BY <1>1, LimitsInductive, PTL

-----------------------------------------------------------------------------
(* The workers behind the pools.                                            *)

WrkPlaces == {"idle", "receive", "return", "dedup", "batch", "write", "returned", "resize"}
WrkCallRecs == [pc : WrkPlaces, all : SUBSET Records, in : Seq(Records), took : Seq(Records),
                try : Int, errs : {0, 1}]
WrkPools == [running : BOOLEAN, ctx : BOOLEAN, size : WrkMin..WrkMax, depth : Nat, cool : BOOLEAN]

WrkShape ==
    /\ wrkKind \in WrkKinds /\ wrkCalls \in 0..Len(WrkBatches)
    /\ wrkProcs \in [WrkProcs -> WrkCallRecs] /\ wrkOut \in [Records -> 0..2]
    /\ wrkFailed \subseteq Records /\ wrkPool \in WrkPools
    /\ wrkDead \in [kept : SUBSET Records, drained : SUBSET Records]

(* A call is where a call of its worker can be.                             *)
WrkPlaced ==
    \A p \in WrkProcs :
       /\ wrkProcs[p].pc \in {"receive", "return"} => wrkKind = "extract"
       /\ wrkProcs[p].pc = "dedup" => wrkKind = "transform"
       /\ wrkProcs[p].pc \in {"batch", "write", "returned"} => wrkKind = "load"
       /\ wrkProcs[p].pc = "resize" => wrkKind = "supervisor"

(* isRunning is true while a call of ExtractWorker runs, and one does.      *)
Extracting(p) == wrkProcs[p].pc \in {"receive", "return"}
WrkRunning ==
    /\ wrkBusy \in BOOLEAN
    /\ \A p \in WrkProcs : Extracting(p) => wrkBusy = TRUE
    /\ wrkBusy = TRUE => \E p \in WrkProcs : Extracting(p)
    /\ \A p, q \in WrkProcs : Extracting(p) /\ Extracting(q) => p = q

(* A size that is on its way to Resize is within the configuration.         *)
WrkSizes == \A p \in WrkProcs : wrkProcs[p].pc = "resize" => wrkProcs[p].try \in WrkMin..WrkMax

(* A record of the filter was returned, has failed, is held by a call or    *)
(* has its bits from others.                                                *)
Held(p, r) == r \in ToSet(wrkProcs[p].took)
Covered(r) == WrkBits[r] \subseteq UNION {WrkBits[q] : q \in Records \ {r}}
Seen(r) ==
    \/ wrkOut[r] = 1 \/ r \in wrkFailed \/ Covered(r)
    \/ \E p \in WrkProcs : Held(p, r)

(* A record that was returned or is held is in the filter, is held by one   *)
(* call until it is returned, and each bit of the filter is of a record     *)
(* that it has seen.                                                        *)
WrkFilter ==
    /\ \A p \in WrkProcs : wrkProcs[p].pc = "idle" => wrkProcs[p].took = <<>>
    /\ \A r \in Records :
          /\ wrkOut[r] <= 1 /\ (wrkOut[r] = 1 => WrkBits[r] \subseteq wrkBits)
          /\ \A p \in WrkProcs : Held(p, r) => wrkOut[r] = 0 /\ WrkBits[r] \subseteq wrkBits
          /\ \A p, q \in WrkProcs : Held(p, r) /\ Held(q, r) => p = q
    /\ \A b \in wrkBits : \E r \in Records : b \in WrkBits[r] /\ Seen(r)

(* A record of a call of LoadWorker is settled, or it is in the batch that  *)
(* is written or after it.                                                  *)
Settled(r) == wrkOut[r] > 0 \/ r \in wrkDead.kept \union wrkDead.drained \union wrkFailed
Ahead(p, r) ==
    \/ r \in ToSet(wrkProcs[p].in)
    \/ wrkProcs[p].pc = "write" /\ r \in ToSet(wrkProcs[p].took)
WrkLoads ==
    \A p \in WrkProcs :
       /\ wrkProcs[p].pc = "returned" => wrkProcs[p].in = <<>>
       /\ wrkProcs[p].pc \in {"batch", "write", "returned"} /\ wrkProcs[p].errs = 0 =>
             \A r \in wrkProcs[p].all : Settled(r) \/ Ahead(p, r)

WorkersIInv ==
    /\ WrkShape /\ WrkPlaced /\ WrkRunning /\ WrkSizes
    /\ wrkKind = "transform" => WrkFilter
    /\ wrkKind = "load" => WrkLoads

-----------------------------------------------------------------------------
(* Facts about the operators.                                               *)

LEMMA Least ==
  ASSUME NEW a \in Int, NEW b \in Int
  PROVE  Min({a, b}) = IF a <= b THEN a ELSE b
  BY DEF Min

LEMMA Greatest ==
  ASSUME NEW a \in Int, NEW b \in Int
  PROVE  Max({a, b}) = IF a >= b THEN a ELSE b
  BY DEF Max

LEMMA GreatestOfThree ==
  ASSUME NEW a \in Int, NEW b \in Int, NEW c \in Int
  PROVE  /\ Max({a, b, c}) \in {a, b, c} /\ Max({a, b, c}) >= a
         /\ Max({a, b, c}) >= b /\ Max({a, b, c}) >= c
<1>1. \E x \in {a, b, c} : \A y \in {a, b, c} : x >= y
  OBVIOUS
<1>2. Max({a, b, c}) \in {a, b, c} /\ \A y \in {a, b, c} : Max({a, b, c}) >= y
  BY <1>1 DEF Max
<1> QED
  BY <1>2

LEMMA NoRecords == ToSet(<<>>) = {} /\ <<>> \in Seq(Records)
  BY EmptySeq DEF ToSet

LEMMA RecordsOf ==
  ASSUME NEW s \in Seq(Records)
  PROVE  /\ ToSet(s) \subseteq Records /\ Len(s) \in Nat /\ DOMAIN s = 1..Len(s)
         /\ (s # <<>> => Len(s) >= 1)
  BY ElementOfSeq, LenProperties, EmptySeq DEF ToSet

LEMMA HeadAndTail ==
  ASSUME NEW s \in Seq(Records), s # <<>>
  PROVE  /\ Head(s) \in Records /\ Tail(s) \in Seq(Records)
         /\ ToSet(s) = {Head(s)} \union ToSet(Tail(s))
<1>1. PICK t, h, n : t = Tail(s) /\ h = Head(s) /\ n = Len(s)
  OBVIOUS
<1>2. /\ h \in Records /\ t \in Seq(Records) /\ Len(t) = n - 1 /\ h = s[1]
      /\ \A i \in 1..Len(t) : t[i] = s[i + 1]
  BY <1>1, HeadTailProperties
<1>3. n \in Nat /\ n >= 1 /\ DOMAIN s = 1..n /\ DOMAIN t = 1..(n - 1)
  BY <1>1, <1>2, RecordsOf
<1>4. ASSUME NEW x PROVE x \in ToSet(s) <=> x = h \/ x \in ToSet(t)
  <2>1. x \in ToSet(s) <=> \E i \in 1..n : x = s[i]
    BY <1>3 DEF ToSet
  <2>2. x \in ToSet(t) <=> \E i \in 1..(n - 1) : x = t[i]
    BY <1>3 DEF ToSet
  <2>3. \A i \in 1..(n - 1) : t[i] = s[i + 1] /\ i + 1 \in 1..n
    BY <1>2, <1>3
  <2>4. \A i \in 1..n : i = 1 \/ (i - 1 \in 1..(n - 1) /\ (i - 1) + 1 = i)
    BY <1>3
  <2>5. x \in ToSet(s) => x = h \/ x \in ToSet(t)
    <3> SUFFICES ASSUME NEW i \in 1..n, x = s[i] PROVE x = h \/ x \in ToSet(t)
      BY <2>1
    <3>1. CASE i = 1
      BY <1>2, <3>1
    <3>2. CASE i - 1 \in 1..(n - 1) /\ (i - 1) + 1 = i
      <4>1. x = t[i - 1]
        BY <2>3, <3>2
      <4> QED
        BY <2>2, <3>2, <4>1
    <3> QED
      BY <2>4, <3>1, <3>2
  <2>6. x = h \/ x \in ToSet(t) => x \in ToSet(s)
    <3>1. 1 \in 1..n
      BY <1>3
    <3> QED
      BY <1>2, <2>1, <2>2, <2>3, <3>1
  <2> QED
    BY <2>5, <2>6
<1> QED
  BY <1>1, <1>2, <1>4

LEMMA WithRecord ==
  ASSUME NEW s \in Seq(Records), NEW e \in Records
  PROVE  Append(s, e) \in Seq(Records) /\ ToSet(Append(s, e)) = ToSet(s) \union {e}
<1>1. /\ Append(s, e) \in Seq(Records) /\ Len(Append(s, e)) = Len(s) + 1 /\ Len(s) \in Nat
      /\ \A i \in 1..Len(s) : Append(s, e)[i] = s[i]
      /\ Append(s, e)[Len(s) + 1] = e
      /\ DOMAIN s = 1..Len(s) /\ DOMAIN Append(s, e) = 1..(Len(s) + 1)
  BY AppendProperties, LenProperties
<1> QED
  BY <1>1 DEF ToSet

(* Two parts of a sequence have its elements between them.                  *)
LEMMA Parts ==
  ASSUME NEW s \in Seq(Records), NEW n \in 0..Len(s)
  PROVE  /\ SubSeq(s, 1, n) \in Seq(Records) /\ SubSeq(s, n + 1, Len(s)) \in Seq(Records)
         /\ ToSet(s) = ToSet(SubSeq(s, 1, n)) \union ToSet(SubSeq(s, n + 1, Len(s)))
<1>1. PICK a, b, k : a = SubSeq(s, 1, n) /\ b = SubSeq(s, n + 1, k) /\ k = Len(s)
  OBVIOUS
<1>2. k \in Nat /\ n \in Nat /\ n <= k /\ DOMAIN s = 1..k /\ \A i \in 1..k : s[i] \in Records
  BY <1>1, RecordsOf, ElementOfSeq
<1>3. a \in Seq(Records) /\ Len(a) = n /\ \A i \in 1..n : a[i] = s[i]
  <2>1. \A i \in 1..n : s[i] \in Records /\ 1 + i - 1 = i
    BY <1>2
  <2>2. /\ a \in Seq(Records) /\ Len(a) = IF 1 <= n THEN n - 1 + 1 ELSE 0
        /\ \A i \in 1..(n - 1 + 1) : a[i] = s[1 + i - 1]
    BY <1>1, <1>2, <2>1, SubSeqProperties
  <2>3. n - 1 + 1 = n /\ (~(1 <= n) => n = 0)
    BY <1>2
  <2> QED
    BY <2>1, <2>2, <2>3
<1>4. b \in Seq(Records) /\ Len(b) = k - n /\ \A i \in 1..(k - n) : b[i] = s[n + i]
  <2>1. \A i \in (n + 1)..k : s[i] \in Records
    BY <1>2
  <2>2. /\ b \in Seq(Records) /\ Len(b) = IF n + 1 <= k THEN k - (n + 1) + 1 ELSE 0
        /\ \A i \in 1..(k - (n + 1) + 1) : b[i] = s[(n + 1) + i - 1]
    BY <1>1, <1>2, <2>1, SubSeqProperties
  <2>3. k - (n + 1) + 1 = k - n /\ (~(n + 1 <= k) => k - n = 0)
        /\ \A i \in 1..(k - n) : (n + 1) + i - 1 = n + i
    BY <1>2
  <2> QED
    BY <2>2, <2>3
<1>5. DOMAIN a = 1..n /\ DOMAIN b = 1..(k - n)
  BY <1>3, <1>4, LenProperties
<1>6. ASSUME NEW x PROVE x \in ToSet(s) <=> x \in ToSet(a) \/ x \in ToSet(b)
  <2>1. /\ x \in ToSet(s) <=> \E i \in 1..k : x = s[i]
        /\ x \in ToSet(a) <=> \E i \in 1..n : x = a[i]
        /\ x \in ToSet(b) <=> \E i \in 1..(k - n) : x = b[i]
    BY <1>2, <1>5 DEF ToSet
  <2>2. \A i \in 1..n : i \in 1..k
    BY <1>2
  <2>3. \A i \in 1..(k - n) : n + i \in 1..k
    BY <1>2
  <2>4. ASSUME NEW i \in 1..k, x = s[i] PROVE x \in ToSet(a) \/ x \in ToSet(b)
    <3>1. CASE i <= n
      <4>1. i \in 1..n
        BY <1>2, <3>1
      <4> QED
        BY <1>3, <2>1, <2>4, <4>1
    <3>2. CASE ~(i <= n)
      <4>1. i - n \in 1..(k - n) /\ n + (i - n) = i
        BY <1>2, <3>2
      <4> QED
        BY <1>4, <2>1, <2>4, <4>1
    <3> QED
      BY <3>1, <3>2
  <2> QED
    BY <1>3, <1>4, <2>1, <2>2, <2>3, <2>4
<1> QED
  BY <1>1, <1>3, <1>4, <1>6

LEMMA Quotient ==
  ASSUME NEW a \in Nat, NEW b \in Nat \ {0}
  PROVE  /\ a \div b \in Nat /\ (a \div b) * b \in Nat
         /\ (a \div b) * b <= a /\ a < (a \div b) * b + b
  OBVIOUS

LEMMA Multiples ==
  ASSUME NEW q \in Nat, NEW k \in Nat, NEW b \in Nat \ {0}
  PROVE  /\ q * b \in Nat /\ (q + 1) * b = q * b + b
         /\ (q * b < k * b => q < k)
<1>1. q * b \in Nat /\ (q + 1) * b = q * b + b
  OBVIOUS
<1>2. ASSUME q >= k PROVE q * b >= k * b
  <2>1. PICK d \in Nat : q = k + d
    <3>1. q - k \in Nat /\ q = k + (q - k)
      BY <1>2
    <3> QED
      BY <3>1
  <2>2. q * b = k * b + d * b /\ d * b \in Nat
    BY <2>1
  <2> QED
    BY <2>2
<1> QED
  BY <1>1, <1>2

(* The elements of a part of a sequence are the ones at its places.         *)
LEMMA PartOf ==
  ASSUME NEW s \in Seq(Records), NEW lo \in Nat, NEW hi \in Nat, 1 <= lo, hi <= Len(s), NEW x
  PROVE  x \in ToSet(SubSeq(s, lo, hi)) <=> \E j \in lo..hi : x = s[j]
<1>1. PICK u : u = SubSeq(s, lo, hi)
  OBVIOUS
<1>2. \A j \in lo..hi : s[j] \in Records
  <2>1. Len(s) \in Nat
    BY RecordsOf
  <2>2. \A j \in lo..hi : j \in 1..Len(s)
    BY <2>1
  <2> QED
    BY <2>2, ElementOfSeq
<1>3. /\ u \in Seq(Records) /\ Len(u) = IF lo <= hi THEN hi - lo + 1 ELSE 0
      /\ \A i \in 1..(hi - lo + 1) : u[i] = s[lo + i - 1]
  BY <1>1, <1>2, SubSeqProperties
<1>4. DOMAIN u = 1..(hi - lo + 1)
  <2>1. DOMAIN u = 1..Len(u)
    BY <1>3, RecordsOf
  <2>2. ~(lo <= hi) => 1..0 = 1..(hi - lo + 1)
    OBVIOUS
  <2> QED
    BY <1>3, <2>1, <2>2
<1>5. x \in ToSet(u) <=> \E i \in 1..(hi - lo + 1) : x = u[i]
  BY <1>4 DEF ToSet
<1>6. \A i \in 1..(hi - lo + 1) : lo + i - 1 \in lo..hi
  OBVIOUS
<1>7. \A j \in lo..hi : j - lo + 1 \in 1..(hi - lo + 1) /\ lo + (j - lo + 1) - 1 = j
  OBVIOUS
<1>8. ASSUME NEW j \in lo..hi, x = s[j] PROVE x \in ToSet(u)
  <2>1. u[j - lo + 1] = s[j]
    BY <1>3, <1>7
  <2> QED
    BY <1>5, <1>7, <1>8, <2>1
<1>9. ASSUME x \in ToSet(u) PROVE \E j \in lo..hi : x = s[j]
  BY <1>3, <1>5, <1>6, <1>9
<1> QED
  BY <1>1, <1>8, <1>9

(* The chunks have the records of the call between them, whatever their     *)
(* number and the concurrency.                                              *)
LEMMA ChunksWhole ==
  ASSUME NEW s \in Seq(Records)
  PROVE  UNION ToSet(Chunks(s)) = ToSet(s)
<1>1. PICK n : n = Len(s)
  OBVIOUS
<1> DEFINE size == IF WrkConcurrency <= 1 \/ n < 2 * WrkConcurrency THEN Max({n, 1})
                   ELSE n \div WrkConcurrency
           k == (n + size - 1) \div size
           chunk(i) == SubSeq(s, (i - 1) * size + 1, Min({i * size, n}))
<1>2. n \in Nat /\ DOMAIN s = 1..n /\ WrkConcurrency \in Nat \ {0}
  BY <1>1, RecordsOf, WorkersAssumption
<1>3. size \in Nat \ {0}
  <2>1. CASE WrkConcurrency <= 1 \/ n < 2 * WrkConcurrency
    <3>1. n \in Int /\ 1 \in Int
      BY <1>2
    <3>2. Max({n, 1}) = IF n >= 1 THEN n ELSE 1
      BY <3>1, Greatest
    <3> QED
      BY <1>2, <2>1, <3>2
  <2>2. CASE ~(WrkConcurrency <= 1 \/ n < 2 * WrkConcurrency)
    <3>1. PICK q : q = n \div WrkConcurrency
      OBVIOUS
    <3>2. q \in Nat /\ n < q * WrkConcurrency + WrkConcurrency
      BY <1>2, <3>1, Quotient
    <3>3. q # 0
      BY <1>2, <2>2, <3>2
    <3> QED
      BY <2>2, <3>1, <3>2, <3>3
  <2> QED
    BY <2>1, <2>2
<1>4. Chunks(s) = [i \in 1..k |-> ToSet(chunk(i))]
  BY <1>1 DEF Chunks
<1> HIDE DEF size
<1>5. k \in Nat /\ n + size - 1 < k * size + size
  <2>1. n + size - 1 \in Nat
    BY <1>2, <1>3
  <2> QED
    BY <1>3, <2>1, Quotient
<1>6. \A x : x \in UNION ToSet(Chunks(s)) <=> \E i \in 1..k : x \in ToSet(chunk(i))
  <2> HIDE DEF k, chunk
  <2>1. PICK f : f = [i \in 1..k |-> ToSet(chunk(i))]
    OBVIOUS
  <2>2. DOMAIN f = 1..k /\ \A i \in 1..k : f[i] = ToSet(chunk(i))
    BY <2>1
  <2>3. \A x : x \in UNION ToSet(f) <=> \E i \in 1..k : x \in f[i]
    BY <2>2 DEF ToSet
  <2> QED
    BY <1>4, <2>1, <2>2, <2>3
<1>7. ASSUME NEW i \in 1..k
      PROVE  \A x : x \in ToSet(chunk(i)) <=>
               \E j \in 1..n : (i - 1) * size < j /\ j <= i * size /\ x = s[j]
  <2>1. PICK lo, hi, m : lo = (i - 1) * size + 1 /\ hi = Min({m, n}) /\ m = i * size
    OBVIOUS
  <2>2. (i - 1) * size \in Nat /\ m \in Nat
    <3>1. i - 1 \in Nat /\ i \in Nat
      BY <1>5
    <3> QED
      BY <1>3, <2>1, <3>1
  <2>3. lo \in Nat /\ 1 <= lo /\ hi \in Nat /\ hi = IF m <= n THEN m ELSE n
    <3>1. Min({m, n}) = IF m <= n THEN m ELSE n
      BY <1>2, <2>2, Least
    <3> QED
      BY <1>2, <2>1, <2>2, <3>1
  <2>4. hi <= Len(s)
    BY <1>1, <1>2, <2>2, <2>3
  <2>5. \A x : x \in ToSet(chunk(i)) <=> \E j \in lo..hi : x = s[j]
    <3>1. \A x : x \in ToSet(SubSeq(s, lo, hi)) <=> \E j \in lo..hi : x = s[j]
      BY <2>3, <2>4, PartOf
    <3>2. chunk(i) = SubSeq(s, lo, hi)
      BY <2>1
    <3> QED
      BY <3>1, <3>2
  <2>6. \A j : j \in lo..hi <=> j \in 1..n /\ (i - 1) * size < j /\ j <= m
    BY <1>2, <2>1, <2>2, <2>3
  <2> QED
    BY <2>1, <2>5, <2>6
<1> HIDE DEF k, chunk
<1>8. ASSUME NEW j \in 1..n
      PROVE  \E i \in 1..k : (i - 1) * size < j /\ j <= i * size
  <2>1. PICK q, b : q = (j - 1) \div size /\ b = q * size
    OBVIOUS
  <2>2. q \in Nat /\ b \in Nat /\ b <= j - 1 /\ j - 1 < b + size
    <3>1. j - 1 \in Nat
      BY <1>2
    <3> QED
      BY <1>3, <2>1, <3>1, Quotient
  <2>3. (q + 1) * size = b + size /\ (q + 1) - 1 = q
    BY <1>3, <2>1, <2>2, Multiples
  <2>4. q < k
    <3>1. k * size \in Nat
      BY <1>3, <1>5, Multiples
    <3>2. b < k * size
      BY <1>2, <1>3, <1>5, <2>2, <3>1
    <3> QED
      BY <1>3, <1>5, <2>1, <2>2, <3>2, Multiples
  <2>5. q + 1 \in 1..k
    BY <1>5, <2>2, <2>4
  <2>6. ((q + 1) - 1) * size < j /\ j <= (q + 1) * size
    BY <1>2, <1>3, <2>1, <2>2, <2>3
  <2> QED
    BY <2>5, <2>6
<1>9. \A x : x \in ToSet(s) <=> \E j \in 1..n : x = s[j]
  BY <1>2 DEF ToSet
<1>10. ASSUME NEW x PROVE x \in UNION ToSet(Chunks(s)) <=> x \in ToSet(s)
  <2>1. ASSUME x \in UNION ToSet(Chunks(s)) PROVE x \in ToSet(s)
    <3>1. PICK i \in 1..k : x \in ToSet(chunk(i))
      BY <1>6, <2>1
    <3>2. PICK j \in 1..n : x = s[j]
      BY <1>7, <3>1
    <3> QED
      BY <1>9, <3>2
  <2>2. ASSUME x \in ToSet(s) PROVE x \in UNION ToSet(Chunks(s))
    <3>1. PICK j \in 1..n : x = s[j]
      BY <1>9, <2>2
    <3>2. PICK i \in 1..k : (i - 1) * size < j /\ j <= i * size
      BY <1>8
    <3>3. x \in ToSet(chunk(i))
      BY <1>7, <3>1, <3>2
    <3> QED
      BY <1>6, <3>3
  <2> QED
    BY <2>1, <2>2
<1> QED
  BY <1>10

-----------------------------------------------------------------------------
(* What the steps have in common.                                           *)

LEMMA FreeCall ==
  /\ Free \in WrkCallRecs /\ Free.pc = "idle" /\ Free.took = <<>> /\ Free.in = <<>>
  /\ Free.all = {} /\ Free.errs = 0 /\ Free.try = 0
  BY NoRecords DEF Free, WrkCallRecs, WrkPlaces

LEMMA WrkGoes ==
  ASSUME WrkShape, NEW p \in WrkProcs, NEW c \in WrkCallRecs, Goes(p, c)
  PROVE  /\ wrkProcs' \in [WrkProcs -> WrkCallRecs] /\ wrkProcs'[p] = c
         /\ \A q \in WrkProcs : q # p => wrkProcs'[q] = wrkProcs[q]
  BY DEF WrkShape, Goes

LEMMA WrkOuts ==
  ASSUME WrkShape, NEW S, Out(S)
  PROVE  /\ wrkOut' \in [Records -> 0..2]
         /\ \A r \in Records : /\ wrkOut[r] \in 0..2 /\ wrkOut'[r] >= wrkOut[r]
                               /\ (r \in S => wrkOut'[r] > 0)
                               /\ (r \in S /\ wrkOut[r] = 0 => wrkOut'[r] = 1)
                               /\ (r \notin S => wrkOut'[r] = wrkOut[r])
<1>1. \A r \in Records : wrkOut[r] \in 0..2
  BY DEF WrkShape
<1>2. \A r \in Records : wrkOut'[r] = IF r \in S /\ wrkOut[r] < 2 THEN wrkOut[r] + 1 ELSE wrkOut[r]
  BY DEF Out
<1>3. \A r \in Records : wrkOut'[r] \in 0..2
  BY <1>1, <1>2
<1>4. wrkOut' \in [Records -> 0..2]
  BY <1>3 DEF Out
<1> QED
  BY <1>1, <1>2, <1>4

(* A call begins with the next batch.                                       *)
LEMMA WrkBegins ==
  ASSUME WrkShape, NEW p \in WrkProcs, NEW kind, NEW pc \in WrkPlaces, Begins(p, kind, pc)
  PROVE  /\ wrkKind = kind /\ wrkProcs[p].pc = "idle" /\ wrkCalls' \in 0..Len(WrkBatches)
         /\ \E c \in WrkCallRecs : /\ Goes(p, c) /\ c.pc = pc /\ c.took = <<>> /\ c.errs = 0
                                   /\ c.all = ToSet(c.in)
<1>1. /\ wrkKind = kind /\ wrkProcs[p].pc = "idle" /\ wrkCalls < Len(WrkBatches)
      /\ wrkCalls' = wrkCalls + 1 /\ wrkCalls \in 0..Len(WrkBatches)
  BY DEF Begins, At, WrkShape
<1>2. Len(WrkBatches) \in Nat
  BY WorkersAssumption, LenProperties
<1>3. PICK b : b = WrkBatches[wrkCalls + 1]
  OBVIOUS
<1>4. b \in Seq(Records)
  <2>1. wrkCalls + 1 \in 1..Len(WrkBatches)
    BY <1>1, <1>2
  <2> QED
    BY <1>3, <2>1, WorkersAssumption, ElementOfSeq
<1>5. ToSet(b) \in SUBSET Records
  BY <1>4, RecordsOf
<1>6. PICK c : c = [Free EXCEPT !.pc = pc, !.all = ToSet(b), !.in = b]
  OBVIOUS
<1>7. c \in WrkCallRecs /\ c.pc = pc /\ c.took = <<>> /\ c.errs = 0 /\ c.all = ToSet(b) /\ c.in = b
  BY <1>4, <1>5, <1>6, FreeCall DEF WrkCallRecs
<1>8. Goes(p, c)
  BY <1>3, <1>6 DEF Begins
<1> QED
  BY <1>1, <1>2, <1>7, <1>8

(* One call moves on, c is what it becomes; and no other worker is one that *)
(* extracts or resizes.                                                     *)
LEMMA WrkMoves ==
  ASSUME WrkShape, WrkPlaced, WrkRunning, WrkSizes, NEW p \in WrkProcs, NEW c \in WrkCallRecs,
         Goes(p, c), wrkKind' = wrkKind, wrkBusy' = wrkBusy,
         c.pc \in {"receive", "return"} <=> Extracting(p),
         c.pc \in {"receive", "return"} => wrkKind = "extract",
         c.pc = "dedup" => wrkKind = "transform",
         c.pc \in {"batch", "write", "returned"} => wrkKind = "load",
         c.pc = "resize" => wrkKind = "supervisor" /\ c.try \in WrkMin..WrkMax
  PROVE  WrkPlaced' /\ WrkRunning' /\ WrkSizes'
<1>1. /\ wrkProcs' \in [WrkProcs -> WrkCallRecs] /\ wrkProcs'[p] = c
      /\ \A q \in WrkProcs : q # p => wrkProcs'[q] = wrkProcs[q]
  BY WrkGoes
<1>2. WrkPlaced'
  BY <1>1 DEF WrkPlaced
<1>3. WrkSizes'
  BY <1>1 DEF WrkSizes
<1>4. \A q \in WrkProcs : Extracting(q)' <=> Extracting(q)
  BY <1>1 DEF Extracting
<1>5. WrkRunning'
  BY <1>4, Zenon DEF WrkRunning
<1> QED
  BY <1>2, <1>3, <1>5

-----------------------------------------------------------------------------
(* Calls of an ExtractWorker.                                               *)

LEMMA WrkExtractStarts ==
  ASSUME WorkersIInv, NEW p \in WrkProcs, ExtractStarts(p)
  PROVE  WorkersIInv'
<1>1. WrkShape /\ WrkPlaced /\ WrkRunning /\ WrkSizes
  BY DEF WorkersIInv
<1>2. /\ ~wrkBusy /\ Begins(p, "extract", "receive") /\ wrkBusy' = TRUE
      /\ UNCHANGED <<wrkKind, wrkOut, wrkBits, wrkFailed, wrkDead, wrkDone, wrkPool>>
  BY DEF ExtractStarts
<1>3. wrkKind = "extract" /\ wrkProcs[p].pc = "idle" /\ wrkCalls' \in 0..Len(WrkBatches)
  BY <1>1, <1>2, WrkBegins DEF WrkPlaces
<1>4. PICK c \in WrkCallRecs : Goes(p, c) /\ c.pc = "receive"
  BY <1>1, <1>2, WrkBegins DEF WrkPlaces
<1>5. /\ wrkProcs' \in [WrkProcs -> WrkCallRecs] /\ wrkProcs'[p] = c
      /\ \A q \in WrkProcs : q # p => wrkProcs'[q] = wrkProcs[q]
  BY <1>1, <1>4, WrkGoes
<1>6. WrkShape'
  BY <1>1, <1>2, <1>3, <1>5 DEF WrkShape
<1>7. WrkPlaced' /\ WrkSizes'
  BY <1>1, <1>2, <1>3, <1>4, <1>5 DEF WrkPlaced, WrkSizes
<1>8. WrkRunning'
  <2>1. wrkBusy # TRUE
    BY <1>2, Zenon
  <2>2. \A q \in WrkProcs : ~Extracting(q)
    BY <1>1, <2>1 DEF WrkRunning
  <2>3. \A q \in WrkProcs : Extracting(q)' <=> q = p
    BY <1>4, <1>5, <2>2 DEF Extracting
  <2> QED
    BY <1>2, <2>3 DEF WrkRunning
<1> QED
  BY <1>2, <1>3, <1>6, <1>7, <1>8 DEF WorkersIInv

LEMMA WrkExtractReceives ==
  ASSUME WorkersIInv, NEW p \in WrkProcs, ExtractReceives(p)
  PROVE  WorkersIInv'
<1>1. WrkShape /\ WrkPlaced /\ WrkRunning /\ WrkSizes
  BY DEF WorkersIInv
<1>2. /\ wrkKind = "extract" /\ wrkProcs[p].pc = "receive"
      /\ UNCHANGED <<wrkKind, wrkCalls, wrkOut, wrkBusy, wrkBits, wrkFailed, wrkDead, wrkDone,
                     wrkPool>>
  BY DEF ExtractReceives, At
<1>3. PICK d : d = wrkProcs[p]
  OBVIOUS
<1>4. d \in WrkCallRecs
  BY <1>1, <1>3 DEF WrkShape
<1>5. d.in \in Seq(Records) /\ d.took \in Seq(Records)
  BY <1>4 DEF WrkCallRecs
<1>6. \E c \in WrkCallRecs : Goes(p, c) /\ c.pc \in {"receive", "return"}
  <2>1. CASE d.in # <<>> /\ Goes(p, [d EXCEPT !.in = Tail(@), !.took = Append(@, Head(d.in))])
    <3>1. PICK t, a : t = Tail(d.in) /\ a = Append(d.took, Head(d.in))
      OBVIOUS
    <3>2. t \in Seq(Records) /\ Head(d.in) \in Records
      BY <1>5, <2>1, <3>1, HeadAndTail
    <3>3. a \in Seq(Records)
      BY <1>5, <3>1, <3>2, WithRecord
    <3>4. PICK c : c = [d EXCEPT !.in = t, !.took = a]
      OBVIOUS
    <3>5. c \in WrkCallRecs /\ c.pc = d.pc
      BY <1>4, <3>2, <3>3, <3>4 DEF WrkCallRecs
    <3>6. Goes(p, c)
      BY <2>1, <3>1, <3>4
    <3> QED
      BY <1>2, <1>3, <3>5, <3>6
  <2>2. CASE Goes(p, [d EXCEPT !.pc = "return"])
    <3>1. [d EXCEPT !.pc = "return"] \in WrkCallRecs /\ [d EXCEPT !.pc = "return"].pc = "return"
      BY <1>4 DEF WrkCallRecs, WrkPlaces
    <3> QED
      BY <2>2, <3>1
  <2>3. CASE Goes(p, [d EXCEPT !.pc = "return", !.errs = 1])
    <3>1. PICK c : c = [d EXCEPT !.pc = "return", !.errs = 1]
      OBVIOUS
    <3>2. c \in WrkCallRecs /\ c.pc = "return"
      BY <1>4, <3>1 DEF WrkCallRecs, WrkPlaces
    <3> QED
      BY <2>3, <3>1, <3>2
  <2> QED
    BY <1>3, <2>1, <2>2, <2>3 DEF ExtractReceives
<1>7. PICK c \in WrkCallRecs : Goes(p, c) /\ c.pc \in {"receive", "return"}
  BY <1>6
<1>8. Extracting(p)
  BY <1>2 DEF Extracting
<1>9. WrkPlaced' /\ WrkRunning' /\ WrkSizes'
  <2>1. ~(c.pc = "dedup") /\ ~(c.pc \in {"batch", "write", "returned"}) /\ ~(c.pc = "resize")
    BY <1>7
  <2> QED
    BY <1>1, <1>2, <1>7, <1>8, <2>1, WrkMoves
<1>10. WrkShape'
  <2>1. wrkProcs' \in [WrkProcs -> WrkCallRecs]
    BY <1>1, <1>7, WrkGoes
  <2> QED
    BY <1>1, <1>2, <2>1 DEF WrkShape
<1> QED
  BY <1>2, <1>9, <1>10 DEF WorkersIInv

LEMMA WrkExtractReturns ==
  ASSUME WorkersIInv, NEW p \in WrkProcs, ExtractReturns(p)
  PROVE  WorkersIInv'
<1>1. WrkShape /\ WrkPlaced /\ WrkRunning /\ WrkSizes
  BY DEF WorkersIInv
<1>2. /\ wrkKind = "extract" /\ wrkProcs[p].pc = "return" /\ Out(ToSet(wrkProcs[p].took))
      /\ wrkFailed' = wrkFailed \union ToSet(wrkProcs[p].in) /\ wrkBusy' = FALSE /\ Goes(p, Free)
      /\ UNCHANGED <<wrkKind, wrkCalls, wrkBits, wrkDead, wrkDone, wrkPool>>
  BY DEF ExtractReturns, At
<1>3. wrkProcs[p] \in WrkCallRecs
  BY <1>1 DEF WrkShape
<1>4. wrkProcs[p].in \in Seq(Records)
  BY <1>3 DEF WrkCallRecs
<1>5. ToSet(wrkProcs[p].in) \subseteq Records
  BY <1>4, RecordsOf
<1>6. /\ wrkProcs' \in [WrkProcs -> WrkCallRecs] /\ wrkProcs'[p] = Free
      /\ \A q \in WrkProcs : q # p => wrkProcs'[q] = wrkProcs[q]
  BY <1>1, <1>2, FreeCall, WrkGoes
<1>7. wrkOut' \in [Records -> 0..2]
  BY <1>1, <1>2, WrkOuts
<1>8. WrkShape'
  BY <1>1, <1>2, <1>5, <1>6, <1>7 DEF WrkShape
<1>9. WrkPlaced' /\ WrkSizes'
  BY <1>1, <1>2, <1>6, FreeCall DEF WrkPlaced, WrkSizes
<1>10. WrkRunning'
  <2>1. \A q \in WrkProcs : Extracting(q) => q = p
    BY <1>1, <1>2 DEF WrkRunning, Extracting
  <2>2. \A q \in WrkProcs : ~Extracting(q)'
    BY <1>6, <2>1, FreeCall DEF Extracting
  <2>3. wrkBusy' # TRUE /\ wrkBusy' \in BOOLEAN
    BY <1>2, Zenon
  <2> QED
    BY <2>2, <2>3 DEF WrkRunning
<1> QED
  BY <1>2, <1>8, <1>9, <1>10 DEF WorkersIInv

-----------------------------------------------------------------------------
(* The supervisor.                                                          *)

LEMMA WrkSupervised ==
  ASSUME WorkersIInv, NEW pool \in WrkPools, PoolBecomes(pool),
         \/ wrkProcs' = wrkProcs
         \/ \E p \in WrkProcs, c \in WrkCallRecs :
               /\ Goes(p, c) /\ c.pc \in {"idle", "resize"}
               /\ (c.pc = "resize" => c.try \in WrkMin..WrkMax)
  PROVE  WorkersIInv'
<1>1. WrkShape /\ WrkPlaced /\ WrkRunning /\ WrkSizes
  BY DEF WorkersIInv
<1>2. /\ wrkKind = "supervisor" /\ wrkPool' = pool
      /\ UNCHANGED <<wrkKind, wrkCalls, wrkOut, wrkBusy, wrkBits, wrkFailed, wrkDead, wrkDone>>
  BY DEF PoolBecomes
<1>3. CASE wrkProcs' = wrkProcs
  <2>1. WrkShape' /\ WrkPlaced' /\ WrkSizes' /\ WrkRunning'
    BY <1>1, <1>2, <1>3 DEF WrkShape, WrkPlaced, WrkSizes, WrkRunning, Extracting
  <2> QED
    BY <1>2, <2>1 DEF WorkersIInv
<1>4. CASE \E p \in WrkProcs, c \in WrkCallRecs :
               /\ Goes(p, c) /\ c.pc \in {"idle", "resize"}
               /\ (c.pc = "resize" => c.try \in WrkMin..WrkMax)
  <2>1. PICK p \in WrkProcs, c \in WrkCallRecs :
               /\ Goes(p, c) /\ c.pc \in {"idle", "resize"}
               /\ (c.pc = "resize" => c.try \in WrkMin..WrkMax)
    BY <1>4
  <2>2. ~Extracting(p)
    BY <1>1, <1>2 DEF WrkPlaced, Extracting
  <2>3. ~(c.pc = "dedup") /\ ~(c.pc \in {"batch", "write", "returned"})
        /\ ~(c.pc \in {"receive", "return"})
    BY <2>1
  <2>4. WrkPlaced' /\ WrkRunning' /\ WrkSizes'
    BY <1>1, <1>2, <2>1, <2>2, <2>3, WrkMoves
  <2>5. WrkShape'
    <3>1. wrkProcs' \in [WrkProcs -> WrkCallRecs]
      BY <1>1, <2>1, WrkGoes
    <3> QED
      BY <1>1, <1>2, <3>1 DEF WrkShape
  <2> QED
    BY <1>2, <2>4, <2>5 DEF WorkersIInv
<1> QED
  BY <1>3, <1>4

LEMMA WrkPoolChanges ==
  ASSUME WorkersIInv, SupervisorStart \/ SupervisorStop \/ QueueChanges
  PROVE  WorkersIInv'
<1>1. wrkPool \in WrkPools
  BY DEF WorkersIInv, WrkShape
<1>2. CASE SupervisorStart
  <2>1. PICK pool : pool = [wrkPool EXCEPT !.running = TRUE, !.ctx = TRUE]
    OBVIOUS
  <2>2. pool \in WrkPools
    BY <1>1, <2>1 DEF WrkPools
  <2>3. PoolBecomes(pool) /\ wrkProcs' = wrkProcs
    BY <1>2, <2>1 DEF SupervisorStart
  <2> QED
    BY <2>2, <2>3, WrkSupervised
<1>3. CASE SupervisorStop
  <2>1. PICK pool : pool = [wrkPool EXCEPT !.running = FALSE]
    OBVIOUS
  <2>2. pool \in WrkPools
    BY <1>1, <2>1 DEF WrkPools
  <2>3. PoolBecomes(pool) /\ wrkProcs' = wrkProcs
    BY <1>3, <2>1 DEF SupervisorStop
  <2> QED
    BY <2>2, <2>3, WrkSupervised
<1>4. CASE QueueChanges
  <2>1. PICK d \in 0..WrkMaxDepth : PoolBecomes([wrkPool EXCEPT !.depth = d, !.cool = TRUE])
    BY <1>4 DEF QueueChanges
  <2>2. PICK pool : pool = [wrkPool EXCEPT !.depth = d, !.cool = TRUE]
    OBVIOUS
  <2>3. d \in Nat
    BY <2>1, WorkersAssumption
  <2>4. pool \in WrkPools
    BY <1>1, <2>2, <2>3 DEF WrkPools
  <2>5. PoolBecomes(pool) /\ wrkProcs' = wrkProcs
    BY <1>4, <2>1, <2>2 DEF QueueChanges
  <2> QED
    BY <2>4, <2>5, WrkSupervised
<1> QED
  BY <1>2, <1>3, <1>4

(* Whatever the size was when it was read, the new one is within the        *)
(* configuration.                                                           *)
LEMMA WrkScales ==
  ASSUME WorkersIInv, NEW p \in WrkProcs,
         \/ \E delta \in 1..2 : ScaleUp(p, delta) \/ ScaleDown(p, delta)
         \/ evaluateScaling(p)
  PROVE  WorkersIInv'
<1>1. wrkPool \in WrkPools
  BY DEF WorkersIInv, WrkShape
<1>2. PICK size : size = wrkPool.size
  OBVIOUS
<1>3. /\ size \in WrkMin..WrkMax /\ WrkMin \in Nat \ {0} /\ WrkMax \in Int /\ WrkMax >= WrkMin
      /\ size \in Nat
  <2>1. size \in WrkMin..WrkMax
    BY <1>1, <1>2 DEF WrkPools
  <2> QED
    BY <2>1, WorkersAssumption
<1>4. \A d \in Nat : Min({size + d, WrkMax}) \in WrkMin..WrkMax
  <2> SUFFICES ASSUME NEW d \in Nat PROVE Min({size + d, WrkMax}) \in WrkMin..WrkMax
    OBVIOUS
  <2>1. PICK a : a = size + d
    OBVIOUS
  <2>2. a \in Int /\ a >= WrkMin
    BY <1>3, <2>1
  <2>3. Min({a, WrkMax}) = IF a <= WrkMax THEN a ELSE WrkMax
    BY <1>3, <2>2, Least
  <2> QED
    BY <1>3, <2>1, <2>2, <2>3
<1>5. \A d \in Nat : /\ Max({size - d, WrkMin}) \in WrkMin..WrkMax
                     /\ Max({size - d, WrkMin, 1}) \in WrkMin..WrkMax
  <2> SUFFICES ASSUME NEW d \in Nat
      PROVE  /\ Max({size - d, WrkMin}) \in WrkMin..WrkMax
             /\ Max({size - d, WrkMin, 1}) \in WrkMin..WrkMax
    OBVIOUS
  <2>1. PICK a : a = size - d
    OBVIOUS
  <2>2. a \in Int /\ a <= WrkMax /\ 1 \in Int /\ WrkMin \in Int
    BY <1>3, <2>1
  <2>3. Max({a, WrkMin}) = IF a >= WrkMin THEN a ELSE WrkMin
    BY <2>2, Greatest
  <2>4. /\ Max({a, WrkMin, 1}) \in {a, WrkMin, 1} /\ Max({a, WrkMin, 1}) >= WrkMin
        /\ Max({a, WrkMin, 1}) >= 1
    BY <2>2, GreatestOfThree
  <2> QED
    BY <1>3, <2>1, <2>2, <2>3, <2>4
<1>6. \A d \in Nat \ {0} : Max({size \div d, 1}) \in Nat
  <2> SUFFICES ASSUME NEW d \in Nat \ {0} PROVE Max({size \div d, 1}) \in Nat
    OBVIOUS
  <2>1. PICK a : a = size \div d
    OBVIOUS
  <2>2. a \in Nat /\ 1 \in Int /\ a \in Int
    BY <1>3, <2>1, Quotient
  <2>3. Max({a, 1}) = IF a >= 1 THEN a ELSE 1
    BY <2>2, Greatest
  <2> QED
    BY <2>1, <2>2, <2>3
<1>7. \E try \in WrkMin..WrkMax : Goes(p, [Free EXCEPT !.pc = "resize", !.try = try])
                                  /\ PoolBecomes(wrkPool)
  <2>1. ASSUME NEW delta \in 1..2, ScaleUp(p, delta) PROVE <1>7!:
    <3>1. delta \in Nat
      OBVIOUS
    <3> QED
      BY <1>2, <1>4, <2>1, <3>1 DEF ScaleUp
  <2>2. ASSUME NEW delta \in 1..2, ScaleDown(p, delta) PROVE <1>7!:
    <3>1. delta \in Nat
      OBVIOUS
    <3> QED
      BY <1>2, <1>5, <2>2, <3>1 DEF ScaleDown
  <2>3. ASSUME evaluateScaling(p) PROVE <1>7!:
    <3>1. Max({size \div 2, 1}) \in Nat /\ Max({size \div 4, 1}) \in Nat
      BY <1>6
    <3>2. /\ Min({size + Max({size \div 2, 1}), WrkMax}) \in WrkMin..WrkMax
          /\ Max({size - Max({size \div 4, 1}), WrkMin}) \in WrkMin..WrkMax
      BY <1>4, <1>5, <3>1
    <3> QED
      BY <1>2, <2>3, <3>2 DEF evaluateScaling
  <2> QED
    BY <2>1, <2>2, <2>3
<1>8. PICK try \in WrkMin..WrkMax : Goes(p, [Free EXCEPT !.pc = "resize", !.try = try])
                                  /\ PoolBecomes(wrkPool)
  BY <1>7
<1>9. PICK c : c = [Free EXCEPT !.pc = "resize", !.try = try]
  OBVIOUS
<1>10. c \in WrkCallRecs /\ c.pc = "resize" /\ c.try = try
  <2>1. try \in Int
    BY <1>3
  <2> QED
    BY <1>9, <2>1, FreeCall DEF WrkCallRecs, WrkPlaces
<1>11. Goes(p, c) /\ PoolBecomes(wrkPool) /\ c.pc \in {"idle", "resize"} /\ c.try \in WrkMin..WrkMax
  BY <1>8, <1>9, <1>10
<1> QED
  BY <1>1, <1>10, <1>11, WrkSupervised

LEMMA WrkResizes ==
  ASSUME WorkersIInv, NEW p \in WrkProcs, SupervisorResizes(p)
  PROVE  WorkersIInv'
<1>1. wrkPool \in WrkPools /\ WrkSizes
  BY DEF WorkersIInv, WrkShape
<1>2. wrkProcs[p].try \in WrkMin..WrkMax
  BY <1>1 DEF SupervisorResizes, At, WrkSizes
<1>3. PICK pool : pool = [wrkPool EXCEPT !.size = wrkProcs[p].try, !.cool = FALSE]
  OBVIOUS
<1>4. pool \in WrkPools
  BY <1>1, <1>2, <1>3 DEF WrkPools
<1>5. PoolBecomes(pool) /\ Goes(p, Free)
  BY <1>3 DEF SupervisorResizes
<1>6. Free \in WrkCallRecs /\ Free.pc \in {"idle", "resize"} /\ ~(Free.pc = "resize")
  BY FreeCall
<1> QED
  BY <1>4, <1>5, <1>6, WrkSupervised

-----------------------------------------------------------------------------
(* Calls of a TransformWorker.                                              *)

(* What the filter knows it has seen, or others have its bits.              *)
LEMMA KnownIsSeen ==
  ASSUME WrkFilter, NEW r \in Records, WrkBits[r] \subseteq wrkBits
  PROVE  Seen(r)
<1> SUFFICES ASSUME ~Seen(r) PROVE FALSE
  OBVIOUS
<1>1. ASSUME NEW b \in WrkBits[r] PROVE \E q \in Records \ {r} : b \in WrkBits[q]
  <2>1. PICK q \in Records : b \in WrkBits[q] /\ Seen(q)
    BY <1>1 DEF WrkFilter
  <2> QED
    BY <2>1
<1>2. Covered(r)
  BY <1>1 DEF Covered
<1> QED
  BY <1>2 DEF Seen

LEMMA WrkTransformStarts ==
  ASSUME WorkersIInv, NEW p \in WrkProcs, TransformStarts(p)
  PROVE  WorkersIInv'
<1>1. WrkShape /\ WrkPlaced /\ WrkRunning /\ WrkSizes
  BY DEF WorkersIInv
<1>2. /\ Begins(p, "transform", "dedup")
      /\ UNCHANGED <<wrkKind, wrkOut, wrkBusy, wrkBits, wrkFailed, wrkDead, wrkDone, wrkPool>>
  BY DEF TransformStarts
<1>3. wrkKind = "transform" /\ wrkProcs[p].pc = "idle" /\ wrkCalls' \in 0..Len(WrkBatches)
  BY <1>1, <1>2, WrkBegins DEF WrkPlaces
<1>4. PICK c \in WrkCallRecs : Goes(p, c) /\ c.pc = "dedup" /\ c.took = <<>>
  BY <1>1, <1>2, WrkBegins DEF WrkPlaces
<1>5. /\ wrkProcs' \in [WrkProcs -> WrkCallRecs] /\ wrkProcs'[p] = c
      /\ \A q \in WrkProcs : q # p => wrkProcs'[q] = wrkProcs[q]
  BY <1>1, <1>4, WrkGoes
<1>6. WrkShape'
  BY <1>1, <1>2, <1>3, <1>5 DEF WrkShape
<1>7. WrkPlaced' /\ WrkRunning' /\ WrkSizes'
  <2>1. ~Extracting(p) /\ ~(c.pc \in {"receive", "return"})
        /\ ~(c.pc \in {"batch", "write", "returned"}) /\ ~(c.pc = "resize")
    BY <1>3, <1>4 DEF Extracting
  <2> QED
    BY <1>1, <1>2, <1>3, <1>4, <2>1, WrkMoves
<1>8. WrkFilter
  BY <1>3 DEF WorkersIInv
<1>9. wrkProcs[p].took = <<>>
  BY <1>3, <1>8 DEF WrkFilter
<1>10. \A q \in WrkProcs : wrkProcs'[q].took = wrkProcs[q].took
  BY <1>4, <1>5, <1>9
<1>11. \A q \in WrkProcs : wrkProcs'[q].pc = "idle" => wrkProcs'[q].took = <<>>
  BY <1>4, <1>5, <1>8 DEF WrkFilter
<1>12. \A q, r : q \in WrkProcs => (Held(q, r)' <=> Held(q, r))
  BY <1>10 DEF Held
<1>13. \A r : Seen(r)' <=> Seen(r)
  BY <1>2, <1>12 DEF Seen, Covered
<1>14. WrkFilter'
  BY <1>2, <1>8, <1>11, <1>12, <1>13 DEF WrkFilter
<1> QED
  BY <1>2, <1>3, <1>6, <1>7, <1>14 DEF WorkersIInv

LEMMA WrkDeduplicates ==
  ASSUME WorkersIInv, NEW p \in WrkProcs, deduplicateRecords(p)
  PROVE  WorkersIInv'
<1>1. WrkShape /\ WrkPlaced /\ WrkRunning /\ WrkSizes
  BY DEF WorkersIInv
<1>2. PICK d, r : d = wrkProcs[p] /\ r = Head(d.in)
  OBVIOUS
<1>3. /\ wrkKind = "transform" /\ d.pc = "dedup" /\ d.in # <<>> /\ wrkBits' = wrkBits \union WrkBits[r]
      /\ UNCHANGED <<wrkKind, wrkCalls, wrkOut, wrkBusy, wrkFailed, wrkDead, wrkDone, wrkPool>>
  BY <1>2 DEF deduplicateRecords, At
<1>4. d \in WrkCallRecs
  BY <1>1, <1>2 DEF WrkShape
<1>5. d.in \in Seq(Records) /\ d.took \in Seq(Records)
  BY <1>4 DEF WrkCallRecs
<1>6. r \in Records /\ Tail(d.in) \in Seq(Records)
  BY <1>2, <1>3, <1>5, HeadAndTail
<1>7. PICK t, a : t = Tail(d.in) /\ a = IF IsDuplicate(p, r) THEN d.took ELSE Append(d.took, r)
  OBVIOUS
<1>8. /\ a \in Seq(Records)
      /\ IsDuplicate(p, r) => ToSet(a) = ToSet(d.took)
      /\ ~IsDuplicate(p, r) => ToSet(a) = ToSet(d.took) \union {r}
  BY <1>5, <1>6, <1>7, WithRecord
<1>9. PICK c : c = [d EXCEPT !.in = t, !.took = a]
  OBVIOUS
<1>10. c \in WrkCallRecs /\ c.pc = "dedup" /\ c.took = a
  BY <1>3, <1>4, <1>6, <1>7, <1>8, <1>9 DEF WrkCallRecs
<1>11. Goes(p, c)
  BY <1>2, <1>7, <1>9 DEF deduplicateRecords
<1>12. /\ wrkProcs' \in [WrkProcs -> WrkCallRecs] /\ wrkProcs'[p] = c
       /\ \A q \in WrkProcs : q # p => wrkProcs'[q] = wrkProcs[q]
  BY <1>1, <1>10, <1>11, WrkGoes
<1>13. WrkShape'
  BY <1>1, <1>3, <1>12 DEF WrkShape
<1>14. WrkPlaced' /\ WrkRunning' /\ WrkSizes'
  <2>1. ~Extracting(p) /\ ~(c.pc \in {"receive", "return"})
        /\ ~(c.pc \in {"batch", "write", "returned"}) /\ ~(c.pc = "resize")
    BY <1>2, <1>3, <1>10 DEF Extracting
  <2> QED
    BY <1>1, <1>3, <1>10, <1>11, <2>1, WrkMoves
<1>15. WrkFilter
  BY <1>3 DEF WorkersIInv
<1>16. /\ \A q \in WrkProcs : \A x : q # p => (Held(q, x)' <=> Held(q, x))
       /\ \A x : Held(p, x)' <=> Held(p, x) \/ (x = r /\ ~IsDuplicate(p, r))
  BY <1>2, <1>8, <1>10, <1>12 DEF Held
<1>17. \A x : Seen(x) => Seen(x)'
  BY <1>3, <1>16 DEF Seen, Covered
<1>18. Seen(r)'
  <2>1. CASE IsDuplicate(p, r)
    <3>1. Seen(r)
      BY <1>6, <1>15, <2>1, KnownIsSeen DEF IsDuplicate
    <3> QED
      BY <1>17, <3>1
  <2>2. CASE ~IsDuplicate(p, r)
    BY <1>16, <2>2 DEF Seen
  <2> QED
    BY <2>1, <2>2
<1>19. \A b \in wrkBits' : \E x \in Records : b \in WrkBits[x] /\ Seen(x)'
  <2> SUFFICES ASSUME NEW b \in wrkBits' PROVE \E x \in Records : b \in WrkBits[x] /\ Seen(x)'
    OBVIOUS
  <2>1. CASE b \in WrkBits[r]
    BY <1>6, <1>18, <2>1
  <2>2. CASE b \in wrkBits
    <3>1. PICK x \in Records : b \in WrkBits[x] /\ Seen(x)
      BY <1>15, <2>2 DEF WrkFilter
    <3> QED
      BY <1>17, <3>1
  <2> QED
    BY <1>3, <2>1, <2>2
<1>20. \A q \in WrkProcs : wrkProcs'[q].pc = "idle" => wrkProcs'[q].took = <<>>
  BY <1>10, <1>12, <1>15 DEF WrkFilter
<1>21. ~IsDuplicate(p, r) => wrkOut[r] = 0 /\ \A q \in WrkProcs : ~Held(q, r)
  <2>1. wrkOut[r] \in 0..2
    BY <1>1, <1>6 DEF WrkShape
  <2>2. wrkOut[r] <= 1 /\ (wrkOut[r] = 1 => WrkBits[r] \subseteq wrkBits)
        /\ \A q \in WrkProcs : Held(q, r) => WrkBits[r] \subseteq wrkBits
    BY <1>6, <1>15 DEF WrkFilter
  <2> QED
    BY <2>1, <2>2 DEF IsDuplicate
<1>22. ASSUME NEW x \in Records
       PROVE  /\ wrkOut'[x] <= 1 /\ (wrkOut'[x] = 1 => WrkBits[x] \subseteq wrkBits')
              /\ \A q \in WrkProcs : Held(q, x)' => wrkOut'[x] = 0 /\ WrkBits[x] \subseteq wrkBits'
              /\ \A q, u \in WrkProcs : Held(q, x)' /\ Held(u, x)' => q = u
  <2>1. /\ wrkOut[x] <= 1 /\ (wrkOut[x] = 1 => WrkBits[x] \subseteq wrkBits)
        /\ \A q \in WrkProcs : Held(q, x) => wrkOut[x] = 0 /\ WrkBits[x] \subseteq wrkBits
        /\ \A q, u \in WrkProcs : Held(q, x) /\ Held(u, x) => q = u
    BY <1>15 DEF WrkFilter
  <2>2. wrkBits \subseteq wrkBits' /\ WrkBits[r] \subseteq wrkBits' /\ wrkOut' = wrkOut
    BY <1>3
  <2>3. CASE x = r /\ ~IsDuplicate(p, r)
    <3>1. \A q \in WrkProcs : Held(q, x)' <=> q = p
      BY <1>16, <1>21, <2>3
    <3> QED
      BY <1>21, <2>1, <2>2, <2>3, <3>1
  <2>4. CASE ~(x = r /\ ~IsDuplicate(p, r))
    <3>1. \A q \in WrkProcs : Held(q, x)' <=> Held(q, x)
      BY <1>16, <2>4
    <3> QED
      BY <2>1, <2>2, <3>1
  <2> QED
    BY <2>3, <2>4
<1>23. WrkFilter'
  BY <1>19, <1>20, <1>22 DEF WrkFilter
<1> QED
  BY <1>3, <1>13, <1>14, <1>23 DEF WorkersIInv

LEMMA WrkApplies ==
  ASSUME WorkersIInv, NEW p \in WrkProcs, applyMappingsParallel(p)
  PROVE  WorkersIInv'
<1>1. WrkShape /\ WrkPlaced /\ WrkRunning /\ WrkSizes
  BY DEF WorkersIInv
<1>2. PICK d : d = wrkProcs[p]
  OBVIOUS
<1>3. /\ wrkKind = "transform" /\ d.pc = "dedup" /\ Goes(p, Free)
      /\ \/ Out(UNION ToSet(Chunks(d.took))) /\ wrkFailed' = wrkFailed
         \/ wrkFailed' = wrkFailed \union ToSet(d.took) /\ wrkOut' = wrkOut
      /\ UNCHANGED <<wrkKind, wrkCalls, wrkBusy, wrkBits, wrkDead, wrkDone, wrkPool>>
  BY <1>2 DEF applyMappingsParallel, At
<1>4. d \in WrkCallRecs
  BY <1>1, <1>2 DEF WrkShape
<1>5. d.took \in Seq(Records)
  BY <1>4 DEF WrkCallRecs
<1>6. UNION ToSet(Chunks(d.took)) = ToSet(d.took) /\ ToSet(d.took) \subseteq Records
  BY <1>5, ChunksWhole, RecordsOf
<1>7. /\ wrkProcs' \in [WrkProcs -> WrkCallRecs] /\ wrkProcs'[p] = Free
      /\ \A q \in WrkProcs : q # p => wrkProcs'[q] = wrkProcs[q]
  BY <1>1, <1>3, FreeCall, WrkGoes
<1>8. WrkFilter
  BY <1>3 DEF WorkersIInv
<1>9. /\ \A q \in WrkProcs : \A x : q # p => (Held(q, x)' <=> Held(q, x))
      /\ \A x : ~Held(p, x)'
  BY <1>7, FreeCall, NoRecords DEF Held
<1>10. \A x : Held(p, x) <=> x \in ToSet(d.took)
  BY <1>2 DEF Held
<1>11. \A x \in Records :
         /\ wrkOut[x] \in 0..2 /\ wrkOut'[x] \in 0..2
         /\ ~Held(p, x) => wrkOut'[x] = wrkOut[x]
         /\ Held(p, x) => wrkOut[x] = 0 /\ (wrkOut'[x] = 1 \/ (wrkOut'[x] = 0 /\ x \in wrkFailed'))
  <2> SUFFICES ASSUME NEW x \in Records
      PROVE  /\ wrkOut[x] \in 0..2 /\ wrkOut'[x] \in 0..2
             /\ ~Held(p, x) => wrkOut'[x] = wrkOut[x]
             /\ Held(p, x) => wrkOut[x] = 0 /\ (wrkOut'[x] = 1 \/ (wrkOut'[x] = 0 /\ x \in wrkFailed'))
    OBVIOUS
  <2>1. wrkOut[x] \in 0..2
    BY <1>1 DEF WrkShape
  <2>2. Held(p, x) => wrkOut[x] = 0
    BY <1>8 DEF WrkFilter
  <2>3. CASE wrkFailed' = wrkFailed \union ToSet(d.took) /\ wrkOut' = wrkOut
    BY <1>10, <2>1, <2>2, <2>3
  <2>4. CASE Out(ToSet(d.took))
    <3>1. /\ wrkOut' \in [Records -> 0..2]
          /\ x \in ToSet(d.took) /\ wrkOut[x] = 0 => wrkOut'[x] = 1
          /\ x \notin ToSet(d.took) => wrkOut'[x] = wrkOut[x]
      BY <1>1, <2>4, WrkOuts
    <3> QED
      BY <1>10, <2>1, <2>2, <3>1
  <2> QED
    BY <1>3, <1>6, <2>3, <2>4
<1>12. wrkFailed \subseteq wrkFailed' /\ wrkFailed' \subseteq Records /\ wrkOut' \in [Records -> 0..2]
  BY <1>1, <1>3, <1>6, WrkOuts DEF WrkShape
<1>13. WrkShape'
  BY <1>1, <1>3, <1>7, <1>12 DEF WrkShape
<1>14. WrkPlaced' /\ WrkRunning' /\ WrkSizes'
  <2>1. ~Extracting(p) /\ ~(Free.pc \in {"receive", "return"}) /\ ~(Free.pc = "dedup")
        /\ ~(Free.pc \in {"batch", "write", "returned"}) /\ ~(Free.pc = "resize")
    BY <1>2, <1>3, FreeCall DEF Extracting
  <2> QED
    BY <1>1, <1>3, <2>1, FreeCall, WrkMoves
<1>15. ASSUME NEW x \in Records, Seen(x) PROVE Seen(x)'
  <2>1. CASE Covered(x)
    BY <2>1 DEF Seen, Covered
  <2>2. CASE x \in wrkFailed
    BY <1>12, <2>2 DEF Seen
  <2>3. CASE wrkOut[x] = 1
    <3>1. ~Held(p, x)
      BY <1>11, <2>3
    <3> QED
      BY <1>11, <2>3, <3>1 DEF Seen
  <2>4. CASE \E q \in WrkProcs : Held(q, x)
    <3>1. PICK q \in WrkProcs : Held(q, x)
      BY <2>4
    <3>2. CASE q = p
      BY <1>11, <3>1, <3>2 DEF Seen
    <3>3. CASE q # p
      BY <1>9, <3>1, <3>3 DEF Seen
    <3> QED
      BY <3>2, <3>3
  <2> QED
    BY <1>15, <2>1, <2>2, <2>3, <2>4 DEF Seen
<1>16. \A b \in wrkBits' : \E x \in Records : b \in WrkBits[x] /\ Seen(x)'
  <2> SUFFICES ASSUME NEW b \in wrkBits PROVE \E x \in Records : b \in WrkBits[x] /\ Seen(x)'
    BY <1>3
  <2>1. PICK x \in Records : b \in WrkBits[x] /\ Seen(x)
    BY <1>8 DEF WrkFilter
  <2> QED
    BY <1>15, <2>1
<1>17. \A q \in WrkProcs : wrkProcs'[q].pc = "idle" => wrkProcs'[q].took = <<>>
  BY <1>7, <1>8, FreeCall DEF WrkFilter
<1>18. ASSUME NEW x \in Records
       PROVE  /\ wrkOut'[x] <= 1 /\ (wrkOut'[x] = 1 => WrkBits[x] \subseteq wrkBits')
              /\ \A q \in WrkProcs : Held(q, x)' => wrkOut'[x] = 0 /\ WrkBits[x] \subseteq wrkBits'
              /\ \A q, u \in WrkProcs : Held(q, x)' /\ Held(u, x)' => q = u
  <2>1. /\ wrkOut[x] <= 1 /\ (wrkOut[x] = 1 => WrkBits[x] \subseteq wrkBits)
        /\ \A q \in WrkProcs : Held(q, x) => wrkOut[x] = 0 /\ WrkBits[x] \subseteq wrkBits
        /\ \A q, u \in WrkProcs : Held(q, x) /\ Held(u, x) => q = u
    BY <1>8 DEF WrkFilter
  <2>2. CASE Held(p, x)
    <3>1. \A q \in WrkProcs : ~Held(q, x)'
      BY <1>9, <2>1, <2>2
    <3>2. wrkOut'[x] <= 1 /\ WrkBits[x] \subseteq wrkBits'
      BY <1>3, <1>11, <2>1, <2>2
    <3> QED
      BY <3>1, <3>2
  <2>3. CASE ~Held(p, x)
    <3>1. \A q \in WrkProcs : Held(q, x)' <=> Held(q, x)
      BY <1>9, <2>3
    <3>2. wrkOut'[x] = wrkOut[x] /\ wrkBits' = wrkBits
      BY <1>3, <1>11, <2>3
    <3> QED
      BY <2>1, <3>1, <3>2
  <2> QED
    BY <2>2, <2>3
<1>19. WrkFilter'
  BY <1>16, <1>17, <1>18 DEF WrkFilter
<1> QED
  BY <1>3, <1>13, <1>14, <1>19 DEF WorkersIInv

LEMMA WrkResets ==
  ASSUME WorkersIInv, DeduplicatorReset
  PROVE  WorkersIInv'
<1>1. WrkShape /\ WrkPlaced /\ WrkRunning /\ WrkSizes
  BY DEF WorkersIInv
<1>2. /\ wrkKind = "transform" /\ wrkBits' = {} /\ \A p \in WrkProcs : wrkProcs[p].pc = "idle"
      /\ wrkOut' = [r \in Records |-> 0] /\ wrkFailed' = {}
      /\ UNCHANGED <<wrkKind, wrkCalls, wrkProcs, wrkBusy, wrkDead, wrkDone, wrkPool>>
  BY DEF DeduplicatorReset
<1>3. WrkFilter
  BY <1>2 DEF WorkersIInv
<1>4. WrkShape' /\ WrkPlaced' /\ WrkSizes'
  BY <1>1, <1>2 DEF WrkShape, WrkPlaced, WrkSizes
<1>5. WrkRunning'
  BY <1>1, <1>2 DEF WrkRunning, Extracting
<1>6. \A p \in WrkProcs : wrkProcs'[p].took = <<>>
  BY <1>2, <1>3 DEF WrkFilter
<1>7. \A p \in WrkProcs : \A r : ~Held(p, r)'
  BY <1>6, NoRecords DEF Held
<1>8. WrkFilter'
  BY <1>2, <1>6, <1>7 DEF WrkFilter
<1> QED
  BY <1>2, <1>4, <1>5, <1>8 DEF WorkersIInv

-----------------------------------------------------------------------------
(* Calls of a LoadWorker.                                                   *)

WrkDeads == [kept : SUBSET Records, drained : SUBSET Records]

(* One call moves on, c is what it becomes; what is settled stays settled.  *)
LEMMA WrkLoadMoves ==
  ASSUME WorkersIInv, wrkKind = "load", NEW p \in WrkProcs, NEW c \in WrkCallRecs, Goes(p, c),
         UNCHANGED <<wrkKind, wrkBusy, wrkPool>>, wrkCalls' \in 0..Len(WrkBatches),
         wrkOut' \in [Records -> 0..2], wrkFailed' \subseteq Records, wrkDead' \in WrkDeads,
         \A r \in Records : Settled(r) => Settled(r)',
         c.pc \in {"batch", "write", "returned"}, c.pc = "returned" => c.in = <<>>,
         c.errs = 0 => \A r \in c.all : \/ Settled(r)' \/ r \in ToSet(c.in)
                                        \/ c.pc = "write" /\ r \in ToSet(c.took)
  PROVE  WorkersIInv'
<1>1. WrkShape /\ WrkPlaced /\ WrkRunning /\ WrkSizes /\ WrkLoads
  BY DEF WorkersIInv
<1>2. /\ wrkProcs' \in [WrkProcs -> WrkCallRecs] /\ wrkProcs'[p] = c
      /\ \A q \in WrkProcs : q # p => wrkProcs'[q] = wrkProcs[q]
  BY <1>1, WrkGoes
<1>3. WrkShape'
  BY <1>1, <1>2 DEF WrkShape, WrkDeads
<1>4. WrkPlaced' /\ WrkRunning' /\ WrkSizes'
  <2>1. ~Extracting(p)
    BY <1>1 DEF WrkPlaced, Extracting
  <2>2. ~(c.pc \in {"receive", "return"}) /\ ~(c.pc = "dedup") /\ ~(c.pc = "resize")
    OBVIOUS
  <2>3. wrkKind' = wrkKind /\ wrkBusy' = wrkBusy
    OBVIOUS
  <2> QED
    BY <1>1, <2>1, <2>2, <2>3, WrkMoves
<1>5. ASSUME NEW q \in WrkProcs
      PROVE  /\ wrkProcs'[q].pc = "returned" => wrkProcs'[q].in = <<>>
             /\ wrkProcs'[q].pc \in {"batch", "write", "returned"} /\ wrkProcs'[q].errs = 0 =>
                   \A r \in wrkProcs'[q].all : Settled(r)' \/ Ahead(q, r)'
  <2>1. CASE q = p
    BY <1>2, <2>1 DEF Ahead
  <2>2. CASE q # p
    <3>1. wrkProcs'[q] = wrkProcs[q]
      BY <1>2, <2>2
    <3>2. wrkProcs[q] \in WrkCallRecs
      BY <1>1 DEF WrkShape
    <3>3. wrkProcs[q].all \subseteq Records
      BY <3>2 DEF WrkCallRecs
    <3>4. \A r : Ahead(q, r)' <=> Ahead(q, r)
      BY <3>1 DEF Ahead
    <3> QED
      BY <1>1, <3>1, <3>3, <3>4 DEF WrkLoads
  <2> QED
    BY <2>1, <2>2
<1>6. WrkLoads'
  BY <1>5 DEF WrkLoads
<1> QED
  BY <1>3, <1>4, <1>6 DEF WorkersIInv

LEMMA WrkLoadStarts ==
  ASSUME WorkersIInv, NEW p \in WrkProcs, LoadStarts(p)
  PROVE  WorkersIInv'
<1>1. WrkShape
  BY DEF WorkersIInv
<1>2. /\ Begins(p, "load", "batch")
      /\ UNCHANGED <<wrkKind, wrkOut, wrkBusy, wrkBits, wrkFailed, wrkDead, wrkDone, wrkPool>>
  BY DEF LoadStarts
<1>3. wrkKind = "load" /\ wrkCalls' \in 0..Len(WrkBatches)
  BY <1>1, <1>2, WrkBegins DEF WrkPlaces
<1>4. PICK c \in WrkCallRecs : Goes(p, c) /\ c.pc = "batch" /\ c.all = ToSet(c.in)
  BY <1>1, <1>2, WrkBegins DEF WrkPlaces
<1>5. wrkOut' \in [Records -> 0..2] /\ wrkFailed' \subseteq Records /\ wrkDead' \in WrkDeads
  BY <1>1, <1>2 DEF WrkShape, WrkDeads
<1>6. \A r \in Records : Settled(r) => Settled(r)'
  BY <1>2 DEF Settled
<1>7. /\ c.pc \in {"batch", "write", "returned"} /\ ~(c.pc = "returned")
      /\ UNCHANGED <<wrkKind, wrkBusy, wrkPool>>
      /\ c.errs = 0 => \A r \in c.all : \/ Settled(r)' \/ r \in ToSet(c.in)
                                        \/ c.pc = "write" /\ r \in ToSet(c.took)
  BY <1>2, <1>4
<1> QED
  BY <1>3, <1>4, <1>5, <1>6, <1>7, WrkLoadMoves

LEMMA WrkNextBatch ==
  ASSUME WorkersIInv, NEW p \in WrkProcs, ProcessBatch(p)
  PROVE  WorkersIInv'
<1>1. WrkShape
  BY DEF WorkersIInv
<1>2. PICK d, n : d = wrkProcs[p] /\ n = Min({WrkBatchSize, Len(d.in)})
  OBVIOUS
<1>3. /\ wrkKind = "load" /\ d.pc = "batch"
      /\ UNCHANGED <<wrkKind, wrkCalls, wrkOut, wrkBusy, wrkBits, wrkFailed, wrkDead, wrkDone,
                     wrkPool>>
  BY <1>2 DEF ProcessBatch, At
<1>4. d \in WrkCallRecs /\ WrkLoads
  BY <1>1, <1>2, <1>3 DEF WrkShape, WorkersIInv
<1>5. d.in \in Seq(Records)
  BY <1>4 DEF WrkCallRecs
<1>6. wrkOut' \in [Records -> 0..2] /\ wrkFailed' \subseteq Records /\ wrkDead' \in WrkDeads
      /\ wrkCalls' \in 0..Len(WrkBatches)
  BY <1>1, <1>3 DEF WrkShape, WrkDeads
<1>7. \A r : Settled(r)' <=> Settled(r)
  BY <1>3 DEF Settled
<1>8. d.errs = 0 => \A r \in d.all : Settled(r)' \/ r \in ToSet(d.in)
  BY <1>2, <1>3, <1>4, <1>7 DEF WrkLoads, Ahead
<1>9. \E c \in WrkCallRecs :
        /\ Goes(p, c) /\ c.pc \in {"batch", "write", "returned"}
        /\ c.pc = "returned" => c.in = <<>>
        /\ c.errs = 0 => \A r \in c.all : \/ Settled(r)' \/ r \in ToSet(c.in)
                                          \/ c.pc = "write" /\ r \in ToSet(c.took)
  <2>1. CASE d.in = <<>>
    <3>1. PICK c : c = [d EXCEPT !.pc = "returned"]
      OBVIOUS
    <3>2. c \in WrkCallRecs /\ c.pc = "returned" /\ c.in = d.in /\ c.errs = d.errs /\ c.all = d.all
      BY <1>4, <3>1 DEF WrkCallRecs, WrkPlaces
    <3>3. Goes(p, c)
      BY <1>2, <2>1, <3>1 DEF ProcessBatch
    <3> QED
      BY <1>8, <2>1, <3>2, <3>3
  <2>2. CASE d.in # <<>>
    <3>1. n \in 0..Len(d.in)
      <4>1. Len(d.in) \in Nat /\ WrkBatchSize \in Nat
        BY <1>5, RecordsOf, WorkersAssumption
      <4>2. n = IF WrkBatchSize <= Len(d.in) THEN WrkBatchSize ELSE Len(d.in)
        BY <1>2, <4>1, Least
      <4> QED
        BY <4>1, <4>2
    <3>2. PICK a, b : a = SubSeq(d.in, 1, n) /\ b = SubSeq(d.in, n + 1, Len(d.in))
      OBVIOUS
    <3>3. a \in Seq(Records) /\ b \in Seq(Records) /\ ToSet(d.in) = ToSet(a) \union ToSet(b)
      BY <1>5, <3>1, <3>2, Parts
    <3>4. PICK c : c = [d EXCEPT !.pc = "write", !.took = a, !.try = 0, !.in = b]
      OBVIOUS
    <3>5. /\ c \in WrkCallRecs /\ c.pc = "write" /\ c.in = b /\ c.took = a /\ c.errs = d.errs
          /\ c.all = d.all
      <4>1. PICK e : e = [d EXCEPT !.pc = "write", !.took = a]
        OBVIOUS
      <4>2. e \in WrkCallRecs /\ e.pc = "write" /\ e.took = a /\ e.errs = d.errs /\ e.all = d.all
        BY <1>4, <3>3, <4>1 DEF WrkCallRecs, WrkPlaces
      <4>3. c = [e EXCEPT !.try = 0, !.in = b]
        BY <3>4, <4>1
      <4>4. PICK z : z = 0 /\ z \in Int
        OBVIOUS
      <4>5. c = [[e EXCEPT !.try = z] EXCEPT !.in = b]
        BY <4>3, <4>4
      <4>6. PICK g : g = [e EXCEPT !.try = z]
        OBVIOUS
      <4>7. /\ g \in WrkCallRecs /\ g.pc = "write" /\ g.took = a /\ g.errs = d.errs
            /\ g.all = d.all
        BY <4>2, <4>4, <4>6 DEF WrkCallRecs
      <4>8. c = [g EXCEPT !.in = b]
        BY <4>5, <4>6
      <4> QED
        BY <3>3, <4>7, <4>8 DEF WrkCallRecs
    <3>6. Goes(p, c)
      BY <1>2, <2>2, <3>2, <3>4 DEF ProcessBatch
    <3> QED
      BY <1>8, <3>3, <3>5, <3>6
  <2> QED
    BY <2>1, <2>2
<1>10. PICK c \in WrkCallRecs :
        /\ Goes(p, c) /\ c.pc \in {"batch", "write", "returned"}
        /\ c.pc = "returned" => c.in = <<>>
        /\ c.errs = 0 => \A r \in c.all : \/ Settled(r)' \/ r \in ToSet(c.in)
                                          \/ c.pc = "write" /\ r \in ToSet(c.took)
  BY <1>9
<1>11. UNCHANGED <<wrkKind, wrkBusy, wrkPool>>
  BY <1>3
<1> QED
  BY <1>3, <1>6, <1>7, <1>10, <1>11, WrkLoadMoves

LEMMA WrkWrites ==
  ASSUME WorkersIInv, NEW p \in WrkProcs, doWrite(p)
  PROVE  WorkersIInv'
<1>1. WrkShape
  BY DEF WorkersIInv
<1>2. PICK d : d = wrkProcs[p]
  OBVIOUS
<1>3. /\ wrkKind = "load" /\ d.pc = "write"
      /\ UNCHANGED <<wrkKind, wrkCalls, wrkBusy, wrkBits, wrkDone, wrkPool>>
  BY <1>2 DEF doWrite, At
<1>4. d \in WrkCallRecs /\ WrkLoads /\ wrkDead \in WrkDeads
  BY <1>1, <1>2, <1>3 DEF WrkShape, WorkersIInv, WrkDeads
<1>5. d.took \in Seq(Records) /\ d.all \subseteq Records /\ Len(d.took) \in Nat
  <2>1. d.took \in Seq(Records) /\ d.all \subseteq Records
    BY <1>4 DEF WrkCallRecs
  <2> QED
    BY <2>1, RecordsOf
<1>0. PICK fed \in 0..Len(d.took) :
        \E bad \in SUBSET ToSet(SubSeq(d.took, 1, fed)), named \in BOOLEAN :
           /\ Out(ToSet(SubSeq(d.took, 1, fed)) \ bad)
           /\ addToDeadLetter(IF named THEN bad ELSE {})
           /\ wrkFailed' = wrkFailed \union ToSet(SubSeq(d.took, fed + 1, Len(d.took)))
           /\ Goes(p, [d EXCEPT !.pc = "batch", !.errs = IF bad # {} /\ ~named THEN 1 ELSE @])
  <2>1. (IF wrkDone THEN 0..Len(d.took) ELSE {Len(d.took)}) \subseteq 0..Len(d.took)
    <3>1. {Len(d.took)} \subseteq 0..Len(d.took)
      BY <1>5
    <3> QED
      BY <3>1
  <2> QED
    BY <1>2, <2>1, Zenon DEF doWrite
<1>6. PICK bad \in SUBSET ToSet(SubSeq(d.took, 1, fed)), named \in BOOLEAN :
        /\ Out(ToSet(SubSeq(d.took, 1, fed)) \ bad)
        /\ addToDeadLetter(IF named THEN bad ELSE {})
        /\ wrkFailed' = wrkFailed \union ToSet(SubSeq(d.took, fed + 1, Len(d.took)))
        /\ Goes(p, [d EXCEPT !.pc = "batch", !.errs = IF bad # {} /\ ~named THEN 1 ELSE @])
  BY <1>0
<1>7. PICK a, b : a = SubSeq(d.took, 1, fed) /\ b = SubSeq(d.took, fed + 1, Len(d.took))
  OBVIOUS
<1>8. a \in Seq(Records) /\ b \in Seq(Records) /\ ToSet(d.took) = ToSet(a) \union ToSet(b)
  BY <1>5, <1>7, Parts
<1>9. ToSet(a) \subseteq Records /\ ToSet(b) \subseteq Records
  BY <1>8, RecordsOf
<1>10. PICK dead, errs : /\ dead = IF named THEN bad ELSE {}
                         /\ errs = IF bad # {} /\ ~named THEN 1 ELSE d.errs
  OBVIOUS
<1>11. dead \subseteq Records /\ errs \in {0, 1} /\ (errs = 0 => d.errs = 0 /\ dead = bad)
  <2>1. d.errs \in {0, 1}
    BY <1>4 DEF WrkCallRecs
  <2>2. bad \subseteq Records
    BY <1>7, <1>9
  <2>3. dead \subseteq Records
    BY <1>10, <2>2
  <2>4. errs \in {0, 1}
    BY <1>10, <2>1
  <2>5. errs = 0 => d.errs = 0 /\ dead = bad
    BY <1>10
  <2> QED
    BY <2>3, <2>4, <2>5
<1>12. /\ Out(ToSet(a) \ bad) /\ addToDeadLetter(dead) /\ wrkFailed' = wrkFailed \union ToSet(b)
       /\ Goes(p, [d EXCEPT !.pc = "batch", !.errs = errs])
  BY <1>6, <1>7, <1>10
<1>13. /\ wrkOut' \in [Records -> 0..2]
       /\ \A r \in Records : /\ wrkOut[r] \in 0..2 /\ wrkOut'[r] >= wrkOut[r] /\ wrkOut'[r] \in 0..2
                             /\ (r \in ToSet(a) \ bad => wrkOut'[r] > 0)
  BY <1>1, <1>12, WrkOuts
<1>14. /\ wrkDead' \in WrkDeads /\ wrkDead'.kept = wrkDead.kept \union dead
       /\ wrkDead'.drained = wrkDead.drained
  <2>1. PICK k : k = wrkDead.kept \union dead
    OBVIOUS
  <2>2. k \subseteq Records
    BY <1>4, <1>11, <2>1 DEF WrkDeads
  <2>3. wrkDead' = [wrkDead EXCEPT !.kept = k]
    BY <1>12, <2>1 DEF addToDeadLetter
  <2> QED
    BY <1>4, <2>1, <2>2, <2>3 DEF WrkDeads
<1>15. ASSUME NEW r \in Records
       PROVE  /\ Settled(r) => Settled(r)'
              /\ r \in (ToSet(a) \ bad) \union dead \union ToSet(b) => Settled(r)'
  <2>1. wrkOut[r] > 0 => wrkOut'[r] > 0
    BY <1>13
  <2> QED
    BY <1>12, <1>13, <1>14, <2>1 DEF Settled
<1>16. PICK c : c = [d EXCEPT !.pc = "batch", !.errs = errs]
  OBVIOUS
<1>17. c \in WrkCallRecs /\ c.pc = "batch" /\ c.errs = errs /\ c.all = d.all /\ c.in = d.in
  BY <1>4, <1>11, <1>16 DEF WrkCallRecs, WrkPlaces
<1>18. Goes(p, c)
  BY <1>12, <1>16
<1>19. ASSUME c.errs = 0, NEW r \in c.all PROVE Settled(r)' \/ r \in ToSet(c.in)
  <2>1. r \in Records /\ d.errs = 0 /\ dead = bad /\ r \in d.all
    BY <1>5, <1>11, <1>17, <1>19
  <2>2. Settled(r) \/ r \in ToSet(d.in) \/ r \in ToSet(d.took)
    BY <1>2, <1>3, <1>4, <2>1 DEF WrkLoads, Ahead
  <2>3. r \in ToSet(d.took) => r \in (ToSet(a) \ bad) \union dead \union ToSet(b)
    BY <1>8, <2>1
  <2> QED
    BY <1>15, <1>17, <2>1, <2>2, <2>3
<1>20. /\ wrkFailed' \subseteq Records /\ wrkCalls' \in 0..Len(WrkBatches)
       /\ c.pc \in {"batch", "write", "returned"} /\ ~(c.pc = "returned")
       /\ UNCHANGED <<wrkKind, wrkBusy, wrkPool>>
  BY <1>1, <1>3, <1>9, <1>12, <1>17 DEF WrkShape
<1> QED
  BY <1>3, <1>13, <1>14, <1>15, <1>17, <1>18, <1>19, <1>20, WrkLoadMoves

LEMMA WrkRetries ==
  ASSUME WorkersIInv, NEW p \in WrkProcs, writeBatchRetries(p)
  PROVE  WorkersIInv'
<1>1. WrkShape
  BY DEF WorkersIInv
<1>2. PICK d : d = wrkProcs[p]
  OBVIOUS
<1>3. /\ wrkKind = "load" /\ d.pc = "write" /\ Goes(p, [d EXCEPT !.try = @ + 1])
      /\ UNCHANGED <<wrkKind, wrkCalls, wrkBusy, wrkBits, wrkFailed, wrkDead, wrkDone, wrkPool>>
  BY <1>2 DEF writeBatchRetries, At
<1>4. d \in WrkCallRecs /\ WrkLoads
  BY <1>1, <1>2, <1>3 DEF WrkShape, WorkersIInv
<1>5. PICK done : Out(done)
  BY DEF writeBatchRetries
<1>6. /\ wrkOut' \in [Records -> 0..2]
      /\ \A r \in Records : wrkOut[r] \in 0..2 /\ wrkOut'[r] >= wrkOut[r] /\ wrkOut'[r] \in 0..2
  BY <1>1, <1>5, WrkOuts
<1>7. \A r \in Records : Settled(r) => Settled(r)'
  BY <1>3, <1>6 DEF Settled
<1>8. PICK c, k : c = [d EXCEPT !.try = k] /\ k = d.try + 1
  OBVIOUS
<1>9. k \in Int /\ d.all \subseteq Records
  BY <1>4, <1>8 DEF WrkCallRecs
<1>10. /\ c \in WrkCallRecs /\ c.pc = "write" /\ c.errs = d.errs /\ c.all = d.all /\ c.in = d.in
       /\ c.took = d.took
  BY <1>3, <1>4, <1>8, <1>9 DEF WrkCallRecs
<1>11. Goes(p, c)
  BY <1>3, <1>8
<1>12. c.errs = 0 => \A r \in c.all : \/ Settled(r)' \/ r \in ToSet(c.in)
                                      \/ c.pc = "write" /\ r \in ToSet(c.took)
  BY <1>2, <1>3, <1>4, <1>7, <1>9, <1>10 DEF WrkLoads, Ahead
<1>13. /\ wrkFailed' \subseteq Records /\ wrkCalls' \in 0..Len(WrkBatches) /\ wrkDead' \in WrkDeads
       /\ c.pc \in {"batch", "write", "returned"} /\ ~(c.pc = "returned")
       /\ UNCHANGED <<wrkKind, wrkBusy, wrkPool>>
  BY <1>1, <1>3, <1>10 DEF WrkShape, WrkDeads
<1> QED
  BY <1>3, <1>6, <1>7, <1>10, <1>11, <1>12, <1>13, WrkLoadMoves

LEMMA WrkBatchFails ==
  ASSUME WorkersIInv, NEW p \in WrkProcs, writeBatchFails(p)
  PROVE  WorkersIInv'
<1>1. WrkShape
  BY DEF WorkersIInv
<1>2. PICK d : d = wrkProcs[p]
  OBVIOUS
<1>3. /\ wrkKind = "load" /\ d.pc = "write" /\ Goes(p, [d EXCEPT !.pc = "batch"])
      /\ addToDeadLetter(ToSet(d.took))
      /\ UNCHANGED <<wrkKind, wrkCalls, wrkOut, wrkBusy, wrkBits, wrkFailed, wrkDone, wrkPool>>
  BY <1>2 DEF writeBatchFails, At
<1>4. d \in WrkCallRecs /\ WrkLoads /\ wrkDead \in WrkDeads
  BY <1>1, <1>2, <1>3 DEF WrkShape, WorkersIInv, WrkDeads
<1>5. d.took \in Seq(Records) /\ d.all \subseteq Records
  BY <1>4 DEF WrkCallRecs
<1>6. /\ wrkDead' \in WrkDeads /\ wrkDead'.kept = wrkDead.kept \union ToSet(d.took)
      /\ wrkDead'.drained = wrkDead.drained
  <2>1. PICK k : k = wrkDead.kept \union ToSet(d.took)
    OBVIOUS
  <2>2. k \subseteq Records
    BY <1>4, <1>5, <2>1, RecordsOf DEF WrkDeads
  <2>3. wrkDead' = [wrkDead EXCEPT !.kept = k]
    BY <1>3, <2>1 DEF addToDeadLetter
  <2> QED
    BY <1>4, <2>1, <2>2, <2>3 DEF WrkDeads
<1>7. \A r : (Settled(r) => Settled(r)') /\ (r \in ToSet(d.took) => Settled(r)')
  BY <1>3, <1>6 DEF Settled
<1>8. PICK c : c = [d EXCEPT !.pc = "batch"]
  OBVIOUS
<1>9. c \in WrkCallRecs /\ c.pc = "batch" /\ c.errs = d.errs /\ c.all = d.all /\ c.in = d.in
  BY <1>4, <1>8 DEF WrkCallRecs, WrkPlaces
<1>10. Goes(p, c)
  BY <1>3, <1>8
<1>11. c.errs = 0 => \A r \in c.all : \/ Settled(r)' \/ r \in ToSet(c.in)
                                      \/ c.pc = "write" /\ r \in ToSet(c.took)
  BY <1>2, <1>3, <1>4, <1>7, <1>9 DEF WrkLoads, Ahead
<1>12. /\ wrkFailed' \subseteq Records /\ wrkCalls' \in 0..Len(WrkBatches)
       /\ wrkOut' \in [Records -> 0..2]
       /\ c.pc \in {"batch", "write", "returned"} /\ ~(c.pc = "returned")
       /\ UNCHANGED <<wrkKind, wrkBusy, wrkPool>>
  BY <1>1, <1>3, <1>9 DEF WrkShape
<1> QED
  BY <1>3, <1>6, <1>7, <1>9, <1>10, <1>11, <1>12, WrkLoadMoves

LEMMA WrkDrainsOrCancels ==
  ASSUME WorkersIInv, DrainDeadLetter \/ CallsCancelled \/ UNCHANGED wrkVars
  PROVE  WorkersIInv'
<1>1. WrkShape /\ WrkPlaced /\ WrkRunning /\ WrkSizes /\ wrkDead \in WrkDeads
  BY DEF WorkersIInv, WrkShape, WrkDeads
<1>2. UNCHANGED <<wrkKind, wrkCalls, wrkProcs, wrkOut, wrkBusy, wrkBits, wrkFailed, wrkPool>>
  BY DEF DrainDeadLetter, CallsCancelled, wrkVars
<1>3. /\ wrkDead' \in WrkDeads
      /\ wrkDead'.kept \union wrkDead'.drained = wrkDead.kept \union wrkDead.drained
  <2>1. CASE wrkDead' = wrkDead
    BY <1>1, <2>1
  <2>2. CASE wrkDead' = [kept |-> {}, drained |-> wrkDead.drained \union wrkDead.kept]
    <3>1. PICK k : k = wrkDead.drained \union wrkDead.kept
      OBVIOUS
    <3>2. k \subseteq Records
      BY <1>1, <3>1 DEF WrkDeads
    <3>3. wrkDead' = [kept |-> {}, drained |-> k]
      BY <2>2, <3>1
    <3>4. wrkDead' \in WrkDeads /\ wrkDead'.kept = {} /\ wrkDead'.drained = k
      BY <3>2, <3>3 DEF WrkDeads
    <3> QED
      BY <3>1, <3>4
  <2> QED
    BY <2>1, <2>2 DEF DrainDeadLetter, CallsCancelled, wrkVars
<1>4. WrkShape' /\ WrkPlaced' /\ WrkSizes'
  BY <1>1, <1>2, <1>3 DEF WrkShape, WrkPlaced, WrkSizes, WrkDeads
<1>5. WrkRunning'
  BY <1>1, <1>2 DEF WrkRunning, Extracting
<1>6. \A r : Settled(r)' <=> Settled(r)
  BY <1>2, <1>3 DEF Settled
<1>7. wrkKind = "load" => WrkLoads'
  BY <1>2, <1>6 DEF WorkersIInv, WrkLoads, Ahead
<1>8. wrkKind = "transform" => WrkFilter'
  BY <1>2 DEF WorkersIInv, WrkFilter, Held, Seen, Covered
<1> QED
  BY <1>2, <1>4, <1>5, <1>7, <1>8 DEF WorkersIInv

-----------------------------------------------------------------------------
(* The theorems.                                                            *)

(* The inductive invariant of the workers: their calls are where calls of   *)
(* their kind are, one extraction runs while isRunning, sizes are within    *)
(* the configuration, the filter knows what it has seen, and every record   *)
(* of a load is settled or ahead.                                           *)
THEOREM WorkersInductive == WorkersSpec => []WorkersIInv
<1>1. WorkersInit => WorkersIInv
  <2> SUFFICES ASSUME WorkersInit PROVE WorkersIInv
    OBVIOUS
  <2>1. \A p \in WrkProcs : wrkProcs[p] = Free
    BY DEF WorkersInit
  <2>2. wrkProcs \in [WrkProcs -> WrkCallRecs]
    BY FreeCall DEF WorkersInit
  <2>3. wrkPool \in WrkPools
    <3>1. WrkMin \in WrkMin..WrkMax
      BY WorkersAssumption
    <3> QED
      BY <3>1 DEF WorkersInit, WrkPools
  <2>4. wrkDead \in [kept : SUBSET Records, drained : SUBSET Records]
    BY DEF WorkersInit
  <2>5. wrkCalls \in 0..Len(WrkBatches)
    <3>1. Len(WrkBatches) \in Nat
      BY WorkersAssumption, LenProperties
    <3> QED
      BY <3>1 DEF WorkersInit
  <2>6. wrkKind \in WrkKinds /\ wrkOut \in [Records -> 0..2] /\ wrkFailed \subseteq Records
    BY DEF WorkersInit
  <2>7. WrkShape
    BY <2>2, <2>3, <2>4, <2>5, <2>6 DEF WrkShape
  <2>8. WrkPlaced /\ WrkSizes /\ WrkLoads
    BY <2>1, FreeCall DEF WrkPlaced, WrkSizes, WrkLoads
  <2>9. WrkRunning
    <3>1. \A p \in WrkProcs : ~Extracting(p)
      BY <2>1, FreeCall DEF Extracting
    <3>2. wrkBusy # TRUE /\ wrkBusy \in BOOLEAN
      BY Zenon DEF WorkersInit
    <3> QED
      BY <3>1, <3>2 DEF WrkRunning
  <2>10. WrkFilter
    <3>1. \A p \in WrkProcs : \A r : ~Held(p, r)
      BY <2>1, FreeCall, NoRecords DEF Held
    <3>2. wrkBits = {} /\ \A r \in Records : wrkOut[r] = 0
      BY DEF WorkersInit
    <3>3. \A p \in WrkProcs : wrkProcs[p].took = <<>>
      BY <2>1, FreeCall
    <3> QED
      BY <3>1, <3>2, <3>3 DEF WrkFilter
  <2> QED
    BY <2>7, <2>8, <2>9, <2>10 DEF WorkersIInv
<1>2. WorkersIInv /\ [WorkersNext]_wrkVars => WorkersIInv'
  <2> SUFFICES ASSUME WorkersIInv, [WorkersNext]_wrkVars PROVE WorkersIInv'
    OBVIOUS
  <2>1. ASSUME NEW p \in WrkProcs,
               ExtractStarts(p) \/ ExtractReceives(p) \/ ExtractReturns(p)
        PROVE  WorkersIInv'
    BY <2>1, WrkExtractStarts, WrkExtractReceives, WrkExtractReturns
  <2>2. ASSUME NEW p \in WrkProcs,
               TransformStarts(p) \/ deduplicateRecords(p) \/ applyMappingsParallel(p)
        PROVE  WorkersIInv'
    BY <2>2, WrkTransformStarts, WrkDeduplicates, WrkApplies
  <2>3. ASSUME NEW p \in WrkProcs,
               \/ LoadStarts(p) \/ ProcessBatch(p) \/ doWrite(p) \/ writeBatchRetries(p)
               \/ writeBatchFails(p)
        PROVE  WorkersIInv'
    BY <2>3, WrkLoadStarts, WrkNextBatch, WrkWrites, WrkRetries, WrkBatchFails
  <2>4. ASSUME NEW p \in WrkProcs,
               \/ \E delta \in 1..2 : ScaleUp(p, delta) \/ ScaleDown(p, delta)
               \/ evaluateScaling(p) \/ SupervisorResizes(p)
        PROVE  WorkersIInv'
    BY <2>4, WrkScales, WrkResizes
  <2>5. CASE \/ DeduplicatorReset \/ DrainDeadLetter \/ CallsCancelled \/ UNCHANGED wrkVars
             \/ SupervisorStart \/ SupervisorStop \/ QueueChanges
    BY <2>5, WrkResets, WrkDrainsOrCancels, WrkPoolChanges
  <2> QED
    BY <2>1, <2>2, <2>3, <2>4, <2>5 DEF WorkersNext
<1> QED
  BY <1>1, <1>2, PTL DEF WorkersSpec

(* The size of a supervised pool stays within its configuration however     *)
(* scalings cross (supervisor.go), isRunning of an ExtractWorker is true    *)
(* exactly while a call runs, and only records of the batches are anywhere. *)
THEOREM WorkersTyped == WorkersSpec => []WorkersTypeOK
<1>1. WorkersIInv => WorkersTypeOK
  <2> SUFFICES ASSUME WorkersIInv PROVE WorkersTypeOK
    OBVIOUS
  <2>1. WrkShape /\ WrkRunning /\ wrkDead \in WrkDeads /\ wrkPool \in WrkPools
    BY DEF WorkersIInv, WrkShape, WrkDeads
  <2>2. wrkPool.size \in WrkMin..WrkMax
    BY <2>1 DEF WrkPools
  <2>3. wrkFailed \union wrkDead.kept \union wrkDead.drained \subseteq Records
    BY <2>1 DEF WrkShape, WrkDeads
  <2>4. (wrkBusy = TRUE) <=> \E p \in WrkProcs : wrkProcs[p].pc \in {"receive", "return"}
    BY <2>1 DEF WrkRunning, Extracting
  <2>5. wrkBusy = \E p \in WrkProcs : wrkProcs[p].pc \in {"receive", "return"}
    <3>1. wrkBusy \in BOOLEAN
      BY <2>1 DEF WrkRunning
    <3> QED
      BY <2>4, <3>1, Zenon
  <2> QED
    BY <2>1, <2>2, <2>3, <2>5 DEF WorkersTypeOK, WrkShape
<1> QED
  BY <1>1, WorkersInductive, PTL

(* Goroutines that share the Bloom filter of a TransformWorker return each  *)
(* record at most once and lose none, for any hashes and any concurrency:   *)
(* a record the filter knows was returned, is held by a call, was in one    *)
(* that failed, or has all its bits from other records.                     *)
THEOREM DedupLosesNone == WorkersSpec => []DeduplicatedNotLost
<1>1. WorkersIInv => DeduplicatedNotLost
  <2> SUFFICES ASSUME WorkersIInv, wrkKind = "transform", NEW r \in Records
      PROVE  /\ wrkOut[r] <= 1
             /\ WrkBits[r] \subseteq wrkBits =>
                  \/ wrkOut[r] = 1 \/ r \in wrkFailed
                  \/ \E p \in WrkProcs : r \in ToSet(wrkProcs[p].took)
                  \/ WrkBits[r] \subseteq UNION {WrkBits[q] : q \in Records \ {r}}
    BY DEF DeduplicatedNotLost
  <2>1. WrkFilter
    BY DEF WorkersIInv
  <2>2. WrkBits[r] \subseteq wrkBits => Seen(r)
    BY <2>1, KnownIsSeen
  <2>3. wrkOut[r] <= 1
    BY <2>1 DEF WrkFilter
  <2> QED
    BY <2>2, <2>3 DEF Seen, Held, Covered
<1> QED
  BY <1>1, WorkersInductive, PTL

(* For any batch size, number of retries and goroutines: what a call of     *)
(* LoadWorker.ProcessBatch was given is, once it has returned without an    *)
(* error that lacks its record, in the destination, in the dead letters,    *)
(* drained from them, or was not fed because the context was done.          *)
THEOREM LoadsLoseNone == WorkersSpec => []LoadedOrDead
<1>1. WorkersIInv => LoadedOrDead
  <2> SUFFICES ASSUME WorkersIInv, NEW p \in WrkProcs, wrkProcs[p].pc = "returned",
                      wrkProcs[p].errs = 0, NEW r \in wrkProcs[p].all
      PROVE  wrkOut[r] > 0 \/ r \in wrkDead.kept \union wrkDead.drained \union wrkFailed
    BY DEF LoadedOrDead
  <2>1. WrkLoads
    BY DEF WorkersIInv, WrkPlaced
  <2>2. wrkProcs[p].in = <<>> /\ (Settled(r) \/ Ahead(p, r))
    BY <2>1 DEF WrkLoads
  <2> QED
    BY <2>2, NoRecords DEF Settled, Ahead
<1> QED
  BY <1>1, WorkersInductive, PTL
=============================================================================
