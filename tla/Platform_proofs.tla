--------------------------- MODULE Platform_proofs ----------------------------
(***************************************************************************)
(* What the control plane records of a project's names, services, binding  *)
(* and revisions and of the hosts of its owner, for every value of the     *)
(* constants.                                                              *)
(***************************************************************************)
EXTENDS MCPlatform, Induction, SequenceTheorems, TLAPS

-----------------------------------------------------------------------------
(* Domains.  A record is held by the project whose row or whose calls name *)
(* it, by one project at most.  A call that is alone holds a row that may  *)
(* be claimed of its project as soon as it is stored.                      *)

DomainRow  == [host : Hosts, status : {"pending", "active", "error"},
               ip : Addresses \cup {"none"}, record : Nat, by : {"generated", "rename"}]
DomainCall == [pc : {"sync", "store"}, p : Projects, row : DomainRow, ip : Addresses \cup {"none"},
               fresh : BOOLEAN, wrote : BOOLEAN, alone : BOOLEAN]
ARecord    == [host : Hosts, ip : Addresses \cup {"none"}]

\* Of rows R, records K, calls C and torn projects T.
HasRow(R, p)   == R[p] # <<>>
Calling(C, d)  == C[d] # IdleDomainCall
HeldIn(R, C, p) ==
    {k \in Nat \ {0} : \/ HasRow(R, p) /\ k = R[p][1].record
                       \/ \E d \in DomainCalls : Calling(C, d) /\ C[d].p = p /\ k = C[d].row.record}
NamedIn(K, row) == row.by = "rename" /\ row.status = "active" =>
    row.record \in DOMAIN K /\ K[row.record] = [host |-> row.host, ip |-> row.ip]

DomainTyped(R, K, A, C) ==
    /\ R \in [Projects -> Seq(DomainRow)] /\ K \in Seq(ARecord)
    /\ A \in [Projects -> Addresses \cup {"none"}]
    /\ DOMAIN C = DomainCalls
    /\ \A p \in Projects : HasRow(R, p) => R[p][1] \in DomainRow
    /\ \A d \in DomainCalls : Calling(C, d) => C[d] \in DomainCall

RecordsApart(R, K, C) ==
    /\ \A p \in Projects : HeldIn(R, C, p) \subseteq 1..Len(K)
    /\ \A p, q \in Projects : p # q => HeldIn(R, C, p) \cap HeldIn(R, C, q) = {}

CallsApart(C, T) ==
    /\ \A d, e \in DomainCalls : Calling(C, d) /\ Calling(C, e) /\ d # e /\ C[d].p = C[e].p => ~C[d].alone
    /\ \A d \in DomainCalls : Calling(C, d) /\ C[d].p \notin T => C[d].alone
    /\ \A d \in DomainCalls : Calling(C, d) /\ C[d].pc = "sync" => ~C[d].wrote

RowsNamed(R, K, C, T) ==
    \A p \in Projects \ T :
        HasRow(R, p) /\ (\A d \in DomainCalls : Calling(C, d) /\ C[d].p = p => ~C[d].wrote) =>
            NamedIn(K, R[p][1])

CallsNamed(K, C, T) ==
    \A d \in DomainCalls : Calling(C, d) /\ C[d].alone /\ (C[d].p \notin T \/ C[d].wrote) =>
        NamedIn(K, C[d].row)

DomainInv ==
    /\ DomainTyped(rowOf, records, addressOf, domainCalls)
    /\ RecordsApart(rowOf, records, domainCalls)
    /\ CallsApart(domainCalls, domainTorn)
    /\ RowsNamed(rowOf, records, domainCalls, domainTorn)
    /\ CallsNamed(records, domainCalls, domainTorn)

LEMMA CallBegins ==
  ASSUME DomainInv, NEW d \in DomainCalls, NEW p \in Projects, NEW row \in DomainRow,
         BeginCall(d, p, row),
         row.record = IF HasRow(rowOf, p) THEN rowOf[p][1].record ELSE 0,
         NamedIn(records, row) \/ (HasRow(rowOf, p) /\ row = rowOf[p][1])
  PROVE  DomainInv'
  <1>1. PICK c : c = [pc |-> "sync", p |-> p, row |-> row, ip |-> addressOf[p], fresh |-> rowOf[p] = <<>>,
                      wrote |-> FALSE, alone |-> UnderWay(p) = {}]
    OBVIOUS
  <1>2. /\ domainCalls[d] = IdleDomainCall
        /\ domainCalls' = [e \in DomainCalls |->
             CASE e = d -> c
               [] e # d /\ e \in UnderWay(p) -> [domainCalls[e] EXCEPT !.alone = FALSE]
               [] OTHER -> domainCalls[e]]
        /\ domainTorn' = IF UnderWay(p) = {} THEN domainTorn ELSE domainTorn \cup {p}
        /\ rowOf' = rowOf /\ records' = records /\ addressOf' = addressOf
    BY <1>1, Zenon DEF BeginCall
  <1>3. /\ c.pc = "sync" /\ c.p = p /\ c.row = row /\ c.ip = addressOf[p] /\ c.wrote = FALSE
        /\ c.alone = (UnderWay(p) = {}) /\ c.fresh = (rowOf[p] = <<>>)
    BY <1>1
  <1>4. addressOf[p] \in Addresses \cup {"none"}  BY DEF DomainInv, DomainTyped
  <1>5. c \in DomainCall  BY <1>1, <1>4 DEF DomainCall
  <1>6. c # IdleDomainCall
    <2>1. c.pc # IdleDomainCall.pc  BY <1>3 DEF IdleDomainCall
    <2> QED BY <2>1
  <1>7. DOMAIN domainCalls' = DomainCalls /\ domainCalls'[d] = c  BY <1>2
  <1>8. ASSUME NEW e \in DomainCalls, e # d
        PROVE  domainCalls'[e] = IF e \in UnderWay(p) THEN [domainCalls[e] EXCEPT !.alone = FALSE] ELSE domainCalls[e]
    BY <1>2, <1>8
  <1>9. ASSUME NEW e \in DomainCalls, e # d, Calling(domainCalls', e)
        PROVE  /\ Calling(domainCalls, e) /\ domainCalls'[e] \in DomainCall
               /\ domainCalls'[e].p = domainCalls[e].p /\ domainCalls'[e].row = domainCalls[e].row
               /\ domainCalls'[e].pc = domainCalls[e].pc /\ domainCalls'[e].wrote = domainCalls[e].wrote
               /\ domainCalls'[e].alone => domainCalls[e].alone /\ e \notin UnderWay(p)
               /\ e \notin UnderWay(p) => domainCalls'[e] = domainCalls[e]
    <2>1. CASE e \in UnderWay(p)
      <3>1. Calling(domainCalls, e)  BY <2>1 DEF UnderWay, Calling
      <3>2. PICK b \in DomainCall : b = domainCalls[e]  BY <3>1 DEF DomainInv, DomainTyped
      <3>3. domainCalls'[e] = [b EXCEPT !.alone = FALSE]  BY <1>8, <1>9, <2>1, <3>2
      <3>4. [b EXCEPT !.alone = FALSE] \in DomainCall /\ ~[b EXCEPT !.alone = FALSE].alone
        BY <3>2 DEF DomainCall
      <3>5. /\ [b EXCEPT !.alone = FALSE].p = b.p /\ [b EXCEPT !.alone = FALSE].row = b.row
            /\ [b EXCEPT !.alone = FALSE].pc = b.pc /\ [b EXCEPT !.alone = FALSE].wrote = b.wrote
        BY <3>2 DEF DomainCall
      <3> QED BY <2>1, <3>1, <3>2, <3>3, <3>4, <3>5
    <2>2. CASE e \notin UnderWay(p)
      <3>1. domainCalls'[e] = domainCalls[e]  BY <1>8, <1>9, <2>2
      <3>2. Calling(domainCalls, e)  BY <1>9, <3>1 DEF Calling
      <3> QED BY <2>2, <3>1, <3>2 DEF DomainInv, DomainTyped
    <2> QED BY <2>1, <2>2
  <1>10. DomainTyped(rowOf, records, addressOf, domainCalls)'
    BY <1>2, <1>5, <1>7, <1>9 DEF DomainInv, DomainTyped, HasRow
  <1>11. \A q \in Projects : HeldIn(rowOf, domainCalls, q)' \subseteq HeldIn(rowOf, domainCalls, q)
    <2> TAKE q \in Projects
    <2>1. ASSUME NEW k \in HeldIn(rowOf, domainCalls, q)' PROVE k \in HeldIn(rowOf, domainCalls, q)
      <3>1. k \in Nat \ {0}  BY <2>1 DEF HeldIn
      <3>2. CASE HasRow(rowOf, q) /\ k = rowOf[q][1].record  BY <3>1, <3>2 DEF HeldIn
      <3>3. CASE \E e \in DomainCalls : Calling(domainCalls', e) /\ domainCalls'[e].p = q /\ k = domainCalls'[e].row.record
        <4>1. PICK e \in DomainCalls : Calling(domainCalls', e) /\ domainCalls'[e].p = q /\ k = domainCalls'[e].row.record
          BY <3>3
        <4>2. CASE e = d
          <5>1. q = p /\ k = row.record  BY <1>3, <1>7, <4>1, <4>2
          <5>2. HasRow(rowOf, p) /\ k = rowOf[p][1].record  BY <3>1, <5>1
          <5> QED BY <3>1, <5>1, <5>2 DEF HeldIn
        <4>3. CASE e # d
          <5>1. Calling(domainCalls, e) /\ domainCalls[e].p = q /\ k = domainCalls[e].row.record
            BY <1>9, <4>1, <4>3
          <5> QED BY <3>1, <5>1 DEF HeldIn
        <4> QED BY <4>2, <4>3
      <3> QED BY <1>2, <2>1, <3>2, <3>3 DEF HeldIn, HasRow
    <2> QED BY <2>1
  <1>12. RecordsApart(rowOf, records, domainCalls)'
    BY <1>2, <1>11 DEF DomainInv, RecordsApart
  <1>13. domainTorn \subseteq domainTorn' /\ (p \notin domainTorn' => UnderWay(p) = {})
    BY <1>2
  <1>14. CallsApart(domainCalls, domainTorn)'
    <2>1. ASSUME NEW a \in DomainCalls, NEW b \in DomainCalls, Calling(domainCalls', a), Calling(domainCalls', b),
                 a # b, domainCalls'[a].p = domainCalls'[b].p, domainCalls'[a].alone
          PROVE  FALSE
      <3>1. CASE a = d
        <4>1. b # d /\ Calling(domainCalls, b) /\ domainCalls[b].p = p  BY <1>3, <1>7, <1>9, <2>1, <3>1
        <4>2. b \in UnderWay(p)  BY <4>1 DEF UnderWay, Calling
        <4> QED BY <1>3, <1>7, <2>1, <3>1, <4>2
      <3>2. CASE b = d
        <4>1. a # d /\ Calling(domainCalls, a) /\ domainCalls[a].p = p /\ a \notin UnderWay(p)
          BY <1>3, <1>7, <1>9, <2>1, <3>2
        <4> QED BY <4>1 DEF UnderWay, Calling
      <3>3. CASE a # d /\ b # d
        <4>1. /\ Calling(domainCalls, a) /\ Calling(domainCalls, b) /\ domainCalls[a].alone
              /\ domainCalls[a].p = domainCalls[b].p
          BY <1>9, <2>1, <3>3
        <4> QED BY <2>1, <4>1 DEF DomainInv, CallsApart
      <3> QED BY <3>1, <3>2, <3>3
    <2>2. ASSUME NEW a \in DomainCalls, Calling(domainCalls', a), domainCalls'[a].p \notin domainTorn'
          PROVE  domainCalls'[a].alone
      <3>1. CASE a = d  BY <1>3, <1>7, <1>13, <2>2, <3>1
      <3>2. CASE a # d
        <4>1. Calling(domainCalls, a) /\ domainCalls[a].p \notin domainTorn'  BY <1>9, <2>2, <3>2
        <4>2. domainCalls[a].alone  BY <1>13, <4>1 DEF DomainInv, CallsApart
        <4>3. a \notin UnderWay(p)  BY <1>13, <4>1 DEF UnderWay
        <4> QED BY <1>9, <2>2, <3>2, <4>2, <4>3
      <3> QED BY <3>1, <3>2
    <2>3. ASSUME NEW a \in DomainCalls, Calling(domainCalls', a), domainCalls'[a].pc = "sync"
          PROVE  ~domainCalls'[a].wrote
      BY <1>3, <1>7, <1>9, <2>3 DEF DomainInv, CallsApart
    <2> QED BY <2>1, <2>2, <2>3 DEF CallsApart
  <1>15. RowsNamed(rowOf, records, domainCalls, domainTorn)'
    <2>1. ASSUME NEW q \in Projects \ domainTorn', HasRow(rowOf, q),
                 \A e \in DomainCalls : Calling(domainCalls', e) /\ domainCalls'[e].p = q => ~domainCalls'[e].wrote
          PROVE  NamedIn(records, rowOf[q][1])
      <3>1. ASSUME NEW e \in DomainCalls, Calling(domainCalls, e), domainCalls[e].p = q
            PROVE  ~domainCalls[e].wrote
        <4>1. e # d  BY <1>2, <3>1 DEF Calling
        <4>2. PICK b \in DomainCall : b = domainCalls[e]  BY <3>1 DEF DomainInv, DomainTyped
        <4>3. domainCalls'[e] = b \/ domainCalls'[e] = [b EXCEPT !.alone = FALSE]  BY <1>8, <4>1, <4>2
        <4>4. domainCalls'[e].p = b.p /\ domainCalls'[e].wrote = b.wrote /\ domainCalls'[e].pc = b.pc
          BY ONLY <4>2, <4>3, b \in DomainCall DEF DomainCall
        <4>5. domainCalls'[e].pc # IdleDomainCall.pc  BY <4>4 DEF IdleDomainCall, DomainCall
        <4>6. Calling(domainCalls', e)  BY <4>5 DEF Calling
        <4> QED BY <2>1, <3>1, <4>2, <4>4, <4>6
      <3>2. q \in Projects \ domainTorn  BY <1>13
      <3> QED BY <2>1, <3>1, <3>2 DEF DomainInv, RowsNamed
    <2> QED BY <1>2, <2>1 DEF RowsNamed, HasRow
  <1>16. CallsNamed(records, domainCalls, domainTorn)'
    <2>1. ASSUME NEW e \in DomainCalls, Calling(domainCalls', e), domainCalls'[e].alone,
                 domainCalls'[e].p \notin domainTorn' \/ domainCalls'[e].wrote
          PROVE  NamedIn(records, domainCalls'[e].row)
      <3>1. CASE e = d
        <4>1. p \notin domainTorn /\ UnderWay(p) = {}  BY <1>3, <1>7, <1>13, <2>1, <3>1
        <4>2. HasRow(rowOf, p) => NamedIn(records, rowOf[p][1])
          BY <4>1 DEF DomainInv, RowsNamed, UnderWay, Calling
        <4> QED BY <1>3, <1>7, <3>1, <4>2
      <3>2. CASE e # d
        BY <1>9, <1>13, <2>1, <3>2 DEF DomainInv, CallsNamed
      <3> QED BY <3>1, <3>2
    <2> QED BY <1>2, <2>1 DEF CallsNamed
  <1> QED BY <1>10, <1>12, <1>14, <1>15, <1>16 DEF DomainInv

\* A row is one of its project's, or a changed one.
LEMMA Renames ==
  ASSUME NEW row \in DomainRow, NEW h \in Hosts, NEW new, NEW K,
         \/ new = [row EXCEPT !.host = h, !.by = "generated"]
         \/ new = [row EXCEPT !.host = h, !.by = "rename", !.status = "pending"]
  PROVE  new \in DomainRow /\ new.record = row.record /\ NamedIn(K, new)
  <1>1. new \in DomainRow  BY DEF DomainRow
  <1>2. new.record = row.record  BY DEF DomainRow
  <1>3. new.by = "generated" \/ new.status = "pending"  BY DEF DomainRow
  <1> QED BY <1>1, <1>2, <1>3 DEF NamedIn

LEMMA DomainCallStarts ==
  ASSUME DomainInv, NEW d \in DomainCalls, NEW p \in Projects,
         EnsureManagedDomain(d, p) \/ Regenerate(d, p) \/ Rename(d, p)
  PROVE  DomainInv'
  <1>1. CASE HasRow(rowOf, p) /\ BeginCall(d, p, rowOf[p][1])
    <2>1. rowOf[p][1] \in DomainRow  BY <1>1 DEF DomainInv, DomainTyped
    <2> QED BY <1>1, <2>1, CallBegins
  <1>2. CASE ~HasRow(rowOf, p) /\ \E h \in Hosts : BeginCall(d, p,
              [host |-> h, status |-> "pending", ip |-> "none", record |-> 0, by |-> "generated"])
    <2>1. PICK h \in Hosts : BeginCall(d, p,
              [host |-> h, status |-> "pending", ip |-> "none", record |-> 0, by |-> "generated"])
      BY <1>2, Zenon
    <2>2. PICK new : new = [host |-> h, status |-> "pending", ip |-> "none", record |-> 0, by |-> "generated"]
      OBVIOUS
    <2>3. new \in DomainRow /\ new.record = 0 /\ new.by = "generated"  BY <2>2 DEF DomainRow
    <2>4. NamedIn(records, new)  BY <2>3 DEF NamedIn
    <2>5. BeginCall(d, p, new)  BY <2>1, <2>2
    <2> QED BY <1>2, <2>3, <2>4, <2>5, CallBegins
  <1>3. CASE HasRow(rowOf, p) /\ \E h \in Hosts :
              (\/ BeginCall(d, p, [rowOf[p][1] EXCEPT !.host = h, !.by = "generated"])
               \/ BeginCall(d, p, [rowOf[p][1] EXCEPT !.host = h, !.by = "rename", !.status = "pending"]))
    <2>1. PICK h \in Hosts :
              (\/ BeginCall(d, p, [rowOf[p][1] EXCEPT !.host = h, !.by = "generated"])
               \/ BeginCall(d, p, [rowOf[p][1] EXCEPT !.host = h, !.by = "rename", !.status = "pending"]))
      BY <1>3, Zenon
    <2>2. PICK new : /\ \/ new = [rowOf[p][1] EXCEPT !.host = h, !.by = "generated"]
                        \/ new = [rowOf[p][1] EXCEPT !.host = h, !.by = "rename", !.status = "pending"]
                     /\ BeginCall(d, p, new)
      BY <2>1, Zenon
    <2>3. PICK row : row = rowOf[p][1]  OBVIOUS
    <2>4. row \in DomainRow  BY <1>3, <2>3 DEF DomainInv, DomainTyped
    <2>5. \/ new = [row EXCEPT !.host = h, !.by = "generated"]
          \/ new = [row EXCEPT !.host = h, !.by = "rename", !.status = "pending"]
      BY <2>2, <2>3
    <2>6. new \in DomainRow /\ new.record = row.record /\ NamedIn(records, new)
      BY ONLY <2>4, <2>5, h \in Hosts, Renames
    <2>7. BeginCall(d, p, new)  BY <2>2
    <2> QED BY <1>3, <2>3, <2>6, <2>7, CallBegins
  <1>4. EnsureManagedDomain(d, p) => <1>1!1 \/ <1>2!1
    BY Zenon DEF EnsureManagedDomain, HasRow
  <1>5. Regenerate(d, p) => <1>3!1
    BY Zenon DEF Regenerate, HasRow
  <1>6. Rename(d, p) => <1>3!1
    BY Zenon DEF Rename, HasRow
  <1> QED BY <1>1, <1>2, <1>3, <1>4, <1>5, <1>6

\* The provider has been asked: the call holds another row, whose record is its
\* project's alone, and no other project's record has changed.
LEMMA AnswerHeld ==
  ASSUME DomainInv, NEW d \in DomainCalls, NEW c \in DomainCall, c = domainCalls[d], c.pc = "sync",
         NEW n \in DomainCall, n.pc = "store", n.p = c.p, n.alone = c.alone,
         domainCalls' = [domainCalls EXCEPT ![d] = n],
         UNCHANGED <<rowOf, addressOf, domainTorn>>,
         records' \in Seq(ARecord), Len(records') >= Len(records), n.row.record \in 0..Len(records'),
         \A q \in Projects : q # c.p => n.row.record \notin HeldIn(rowOf, domainCalls, q),
         ~n.wrote => records' = records,
         n.wrote \/ NamedIn(records, c.row) => NamedIn(records', n.row),
         \A q \in Projects, i \in Nat : q # c.p /\ i \in HeldIn(rowOf, domainCalls, q) =>
            i \in DOMAIN records' /\ records'[i] = records[i]
  PROVE  DomainInv'
  <1>1. DOMAIN domainCalls = DomainCalls  BY DEF DomainInv, DomainTyped
  <1>2. /\ DOMAIN domainCalls' = DomainCalls /\ domainCalls'[d] = n
        /\ \A e \in DomainCalls : e # d => domainCalls'[e] = domainCalls[e]
    BY ONLY <1>1, d \in DomainCalls, domainCalls' = [domainCalls EXCEPT ![d] = n]
  <1>3. \A b \in DomainCall : b # IdleDomainCall
    <2> TAKE b \in DomainCall
    <2>1. b.pc # IdleDomainCall.pc  BY DEF IdleDomainCall, DomainCall
    <2> QED BY <2>1
  <1>4. Calling(domainCalls, d) /\ Calling(domainCalls', d)  BY <1>2, <1>3 DEF Calling
  <1>5. \A e \in DomainCalls : e # d => (Calling(domainCalls', e) <=> Calling(domainCalls, e))
    BY <1>2 DEF Calling
  <1>6. PICK l, m \in Nat : l = Len(records) /\ m = Len(records') /\ m >= l
    BY LenProperties DEF DomainInv, DomainTyped
  <1>7. DOMAIN records = 1..l /\ DOMAIN records' = 1..m
    BY <1>6, LenProperties DEF DomainInv, DomainTyped
  <1>8. c.p \in Projects /\ n.p \in Projects /\ n.row \in DomainRow /\ c.row \in DomainRow  BY DEF DomainCall
  <1>9. \A q \in Projects : HeldIn(rowOf, domainCalls, q) \subseteq 1..l
    BY <1>6 DEF DomainInv, RecordsApart
  <1>10. ASSUME NEW q \in Projects, NEW k \in HeldIn(rowOf, domainCalls, q)'
         PROVE  k \in HeldIn(rowOf, domainCalls, q) \/ (q = c.p /\ k = n.row.record /\ k # 0)
    <2>1. k \in Nat \ {0}  BY <1>10 DEF HeldIn
    <2>2. CASE HasRow(rowOf, q) /\ k = rowOf[q][1].record  BY <2>1, <2>2 DEF HeldIn
    <2>3. CASE \E e \in DomainCalls : Calling(domainCalls', e) /\ domainCalls'[e].p = q /\ k = domainCalls'[e].row.record
      <3>1. PICK e \in DomainCalls : Calling(domainCalls', e) /\ domainCalls'[e].p = q /\ k = domainCalls'[e].row.record
        BY <2>3
      <3>2. CASE e = d  BY <1>2, <2>1, <3>1, <3>2
      <3>3. CASE e # d  BY <1>2, <1>5, <2>1, <3>1, <3>3 DEF HeldIn
      <3> QED BY <3>2, <3>3
    <2> QED BY <1>10, <2>2, <2>3 DEF HeldIn, HasRow
  <1>11. DomainTyped(rowOf, records, addressOf, domainCalls)'
    BY <1>2, <1>5 DEF DomainInv, DomainTyped, HasRow
  <1>12. RecordsApart(rowOf, records, domainCalls)'
    <2>1. ASSUME NEW q \in Projects, NEW k \in HeldIn(rowOf, domainCalls, q)' PROVE k \in 1..Len(records')
      <3>1. k \in 1..l \/ (k = n.row.record /\ k # 0)  BY <1>9, <1>10, <2>1
      <3>2. n.row.record \in 0..m  BY <1>6
      <3>3. k \in 1..m  BY ONLY <1>6, <3>1, <3>2, l \in Nat, m \in Nat
      <3> QED BY <1>6, <3>3
    <2>2. ASSUME NEW a \in Projects, NEW b \in Projects, a # b,
                 NEW k \in HeldIn(rowOf, domainCalls, a)', k \in HeldIn(rowOf, domainCalls, b)'
          PROVE  FALSE
      <3>1. k \in HeldIn(rowOf, domainCalls, a) \/ (a = c.p /\ k = n.row.record)  BY <1>10, <2>2
      <3>2. k \in HeldIn(rowOf, domainCalls, b) \/ (b = c.p /\ k = n.row.record)  BY <1>10, <2>2
      <3>3. HeldIn(rowOf, domainCalls, a) \cap HeldIn(rowOf, domainCalls, b) = {}
        BY <2>2 DEF DomainInv, RecordsApart
      <3> QED BY <2>2, <3>1, <3>2, <3>3
    <2> QED BY <2>1, <2>2 DEF RecordsApart
  <1>13. ~c.wrote  BY <1>4 DEF DomainInv, CallsApart
  <1>14. CallsApart(domainCalls, domainTorn)'
    <2>1. ASSUME NEW a \in DomainCalls, NEW b \in DomainCalls, Calling(domainCalls', a), Calling(domainCalls', b),
                 a # b, domainCalls'[a].p = domainCalls'[b].p
          PROVE  ~domainCalls'[a].alone
      <3>1. /\ Calling(domainCalls, a) /\ Calling(domainCalls, b) /\ domainCalls[a].p = domainCalls[b].p
            /\ domainCalls'[a].alone = domainCalls[a].alone
        BY <1>2, <1>4, <1>5, <2>1
      <3> QED BY <2>1, <3>1 DEF DomainInv, CallsApart
    <2>2. ASSUME NEW a \in DomainCalls, Calling(domainCalls', a), domainCalls'[a].p \notin domainTorn
          PROVE  domainCalls'[a].alone
      BY <1>2, <1>4, <1>5, <2>2 DEF DomainInv, CallsApart
    <2>3. ASSUME NEW a \in DomainCalls, Calling(domainCalls', a), domainCalls'[a].pc = "sync"
          PROVE  ~domainCalls'[a].wrote
      BY <1>2, <1>4, <1>5, <2>3 DEF DomainInv, CallsApart
    <2> QED BY <2>1, <2>2, <2>3 DEF CallsApart
  \* A row of another project is named by the record it held.
  <1>15. ASSUME NEW q \in Projects, q # c.p, NEW row \in DomainRow, NamedIn(records, row),
                row.record = 0 \/ row.record \in HeldIn(rowOf, domainCalls, q)
         PROVE  NamedIn(records', row)
    <2>1. row.record \in Nat  BY DEF DomainRow
    <2>2. row.record \in DOMAIN records => row.record # 0
      BY ONLY <1>7, <2>1, l \in Nat
    <2> QED BY <1>15, <2>1, <2>2 DEF NamedIn
  <1>16. RowsNamed(rowOf, records, domainCalls, domainTorn)'
    <2>1. ASSUME NEW q \in Projects \ domainTorn, HasRow(rowOf, q),
                 \A e \in DomainCalls : Calling(domainCalls', e) /\ domainCalls'[e].p = q => ~domainCalls'[e].wrote
          PROVE  NamedIn(records', rowOf[q][1])
      <3>1. \A e \in DomainCalls : Calling(domainCalls, e) /\ domainCalls[e].p = q => ~domainCalls[e].wrote
        BY <1>2, <1>5, <1>13, <2>1
      <3>2. NamedIn(records, rowOf[q][1])  BY <2>1, <3>1 DEF DomainInv, RowsNamed
      <3>3. CASE q = c.p
        <4>1. ~n.wrote  BY <1>2, <1>4, <2>1, <3>3
        <4> QED BY <3>2, <4>1
      <3>4. CASE q # c.p
        <4>1. rowOf[q][1] \in DomainRow  BY <2>1 DEF DomainInv, DomainTyped
        <4>2. rowOf[q][1].record = 0 \/ rowOf[q][1].record \in HeldIn(rowOf, domainCalls, q)
          BY <2>1, <4>1 DEF HeldIn, DomainRow
        <4> QED BY <1>15, <3>2, <3>4, <4>1, <4>2
      <3> QED BY <3>3, <3>4
    <2> QED BY <2>1 DEF RowsNamed, HasRow
  <1>17. CallsNamed(records, domainCalls, domainTorn)'
    <2>1. ASSUME NEW e \in DomainCalls, Calling(domainCalls', e), domainCalls'[e].alone,
                 domainCalls'[e].p \notin domainTorn \/ domainCalls'[e].wrote
          PROVE  NamedIn(records', domainCalls'[e].row)
      <3>1. CASE e = d
        <4>1. n.wrote \/ c.p \notin domainTorn  BY <1>2, <2>1, <3>1
        <4>2. c.p \notin domainTorn => NamedIn(records, c.row)
          BY <1>2, <1>4, <2>1, <3>1 DEF DomainInv, CallsNamed
        <4> QED BY <1>2, <3>1, <4>1, <4>2
      <3>2. CASE e # d
        <4>1. Calling(domainCalls, e) /\ domainCalls'[e] = domainCalls[e]  BY <1>2, <1>5, <2>1, <3>2
        <4>2. NamedIn(records, domainCalls[e].row)  BY <2>1, <4>1 DEF DomainInv, CallsNamed
        <4>3. domainCalls[e].p # c.p  BY <1>4, <2>1, <3>2, <4>1 DEF DomainInv, CallsApart
        <4>4. domainCalls[e] \in DomainCall  BY <4>1 DEF DomainInv, DomainTyped
        <4>5. domainCalls[e].p \in Projects /\ domainCalls[e].row \in DomainRow  BY <4>4 DEF DomainCall
        <4>6. domainCalls[e].row.record = 0 \/ domainCalls[e].row.record \in HeldIn(rowOf, domainCalls, domainCalls[e].p)
          BY <4>1, <4>5 DEF HeldIn, DomainRow
        <4> QED BY <1>15, <4>1, <4>2, <4>3, <4>5, <4>6
      <3> QED BY <3>1, <3>2
    <2> QED BY <2>1 DEF CallsNamed
  <1> QED BY <1>11, <1>12, <1>14, <1>16, <1>17 DEF DomainInv

LEMMA SyncKeeps ==
  ASSUME DomainInv, NEW d \in DomainCalls, syncManagedDomain(d)
  PROVE  DomainInv'
  <1>1. domainCalls[d].pc = "sync" /\ UNCHANGED <<rowOf, addressOf, domainTorn>>
    BY Zenon DEF syncManagedDomain
  <1>2. Calling(domainCalls, d)
    <2>1. domainCalls[d].pc # IdleDomainCall.pc  BY <1>1 DEF IdleDomainCall
    <2> QED BY <2>1 DEF Calling
  <1>3. PICK c \in DomainCall : c = domainCalls[d]  BY <1>2 DEF DomainInv, DomainTyped
  <1>4. PICK row \in DomainRow : row = c.row  BY DEF DomainCall
  <1>5. PICK ip \in Addresses \cup {"none"} : ip = c.ip  BY DEF DomainCall
  <1>6. PICK l \in Nat : l = Len(records)  BY LenProperties DEF DomainInv, DomainTyped
  <1>7. records \in Seq(ARecord) /\ DOMAIN domainCalls = DomainCalls  BY DEF DomainInv, DomainTyped
  <1>8. PICK store, wrote :
           /\ domainCalls' = [domainCalls EXCEPT ![d] = [@ EXCEPT !.pc = "store", !.row = store, !.wrote = wrote]]
           /\ \/ /\ records' = records /\ wrote = FALSE
                 /\ \/ store = [row EXCEPT !.status = "pending", !.ip = "none"]
                    \/ store = row
                    \/ store = [row EXCEPT !.status = "error"]
              \/ /\ records' = UpsertARecord(row, ip) /\ wrote = TRUE
                 /\ \/ store = [row EXCEPT !.status = "error"]
                    \/ store = [row EXCEPT !.status = "active", !.ip = ip,
                                   !.record = IF @ = 0 THEN l + 1 ELSE @]
    BY <1>3, <1>4, <1>5, <1>6, Zenon DEF syncManagedDomain
  <1>9. PICK n : n = [c EXCEPT !.pc = "store", !.row = store, !.wrote = wrote]  OBVIOUS
  <1>10. domainCalls' = [domainCalls EXCEPT ![d] = n]
    <2>1. domainCalls' = [domainCalls EXCEPT ![d] = [domainCalls[d] EXCEPT !.pc = "store", !.row = store, !.wrote = wrote]]
      BY <1>7, <1>8
    <2> QED BY <1>3, <1>9, <2>1, Zenon
  <1>11. ASSUME store \in DomainRow
         PROVE  /\ n \in DomainCall /\ n.pc = "store" /\ n.p = c.p /\ n.alone = c.alone /\ n.row = store
                /\ n.wrote = wrote
    <2>1. wrote \in BOOLEAN  BY ONLY <1>8
    <2> QED BY ONLY <1>9, <1>11, <2>1, c \in DomainCall DEF DomainCall
  <1>12. /\ row.record \in Nat
         /\ row.record # 0 => row.record \in 1..l
         /\ c.p \in Projects
    <2>1. row.record \in Nat /\ c.p \in Projects  BY DEF DomainRow, DomainCall
    <2>2. row.record # 0 => row.record \in HeldIn(rowOf, domainCalls, c.p)
      BY <1>2, <1>3, <1>4, <2>1 DEF HeldIn
    <2> QED BY <1>6, <2>1, <2>2 DEF DomainInv, RecordsApart
  <1>13. \A q \in Projects : q # c.p => row.record \notin HeldIn(rowOf, domainCalls, q)
    <2> SUFFICES ASSUME NEW q \in Projects, q # c.p, row.record \in HeldIn(rowOf, domainCalls, q) PROVE FALSE
      OBVIOUS
    <2>1. row.record \in Nat \ {0}  BY DEF HeldIn
    <2>2. row.record \in HeldIn(rowOf, domainCalls, c.p)  BY <1>2, <1>3, <1>4, <2>1 DEF HeldIn
    <2> QED BY <1>12, <2>2 DEF DomainInv, RecordsApart
  <1>14. \A q \in Projects : HeldIn(rowOf, domainCalls, q) \subseteq 1..l
    BY <1>6 DEF DomainInv, RecordsApart
  <1>15. DOMAIN records = 1..l  BY <1>6, <1>7, LenProperties
  <1>16. CASE /\ records' = records /\ wrote = FALSE
              /\ \/ store = [row EXCEPT !.status = "pending", !.ip = "none"]
                 \/ store = row
                 \/ store = [row EXCEPT !.status = "error"]
    <2>1. store \in DomainRow /\ store.record = row.record /\ (store = row \/ store.status # "active")
      BY <1>16 DEF DomainRow
    <2>2. NamedIn(records, row) => NamedIn(records, store)  BY <2>1 DEF NamedIn
    <2>3. n.row.record \in 0..Len(records')
      BY ONLY <1>6, <1>11, <1>12, <1>16, <2>1, l \in Nat
    <2>4. Len(records') >= Len(records)  BY <1>6, <1>16
    <2>5. \A q \in Projects, i \in Nat : q # c.p /\ i \in HeldIn(rowOf, domainCalls, q) =>
            i \in DOMAIN records' /\ records'[i] = records[i]
      BY <1>14, <1>15, <1>16
    <2>6. /\ n \in DomainCall /\ n.pc = "store" /\ n.p = c.p /\ n.alone = c.alone /\ n.row = store
          /\ n.wrote = FALSE
      BY <1>11, <1>16, <2>1
    <2>7. records' = records /\ records' \in Seq(ARecord)  BY <1>7, <1>16
    <2>8. \A q \in Projects : q # c.p => n.row.record \notin HeldIn(rowOf, domainCalls, q)
      BY <1>13, <2>1, <2>6
    <2>9. n.wrote \/ NamedIn(records, c.row) => NamedIn(records', n.row)  BY <1>4, <2>2, <2>6, <2>7
    <2> QED BY ONLY DomainInv, d \in DomainCalls, c \in DomainCall, <1>1, <1>3, <1>10, <2>3, <2>4, <2>5, <2>6, <2>7, <2>8, <2>9, AnswerHeld
  <1>17. CASE /\ records' = UpsertARecord(row, ip) /\ wrote = TRUE
              /\ \/ store = [row EXCEPT !.status = "error"]
                 \/ store = [row EXCEPT !.status = "active", !.ip = ip,
                                !.record = IF @ = 0 THEN l + 1 ELSE @]
    <2>1. PICK new \in ARecord : new = [host |-> row.host, ip |-> ip]  BY DEF ARecord, DomainRow
    <2>2. PICK r \in Nat : r = row.record  BY <1>12
    <2>3. PICK k \in Nat : k = IF r = 0 THEN l + 1 ELSE r  OBVIOUS
    <2>4. store = [row EXCEPT !.status = "error"]
          \/ store = [row EXCEPT !.status = "active", !.ip = ip, !.record = k]
      BY <1>17, <2>2, <2>3
    <2>5. /\ store \in DomainRow /\ store.host = row.host /\ (store.record = k \/ store.record = r)
          /\ store.status = "active" => store.ip = ip /\ store.record = k
      BY ONLY <2>2, <2>4, row \in DomainRow, ip \in Addresses \cup {"none"}, k \in Nat DEF DomainRow
    <2>6. records' = IF r # 0 THEN [records EXCEPT ![r] = new] ELSE Append(records, new)
      BY <1>17, <2>1, <2>2 DEF UpsertARecord
    <2>7. r # 0 => r \in 1..l  BY <1>12, <2>2
    <2>8. PICK m \in Nat : /\ records' \in Seq(ARecord) /\ m = Len(records') /\ m >= l
                           /\ k \in 1..m /\ records'[k] = new
      <3>1. CASE r = 0
        <4>1. records' = Append(records, new) /\ k = l + 1  BY <2>3, <2>6, <3>1
        <4>2. Len(records') = l + 1 /\ records'[l + 1] = new /\ records' \in Seq(ARecord)
          BY <1>6, <1>7, <4>1, AppendProperties
        <4> QED BY ONLY <1>6, <4>1, <4>2, l \in Nat
      <3>2. CASE r # 0
        <4>1. records' = [records EXCEPT ![r] = new] /\ k = r  BY <2>3, <2>6, <3>2
        <4>2. r \in 1..l  BY <2>7, <3>2
        <4>3. records' \in Seq(ARecord) /\ Len(records') = l /\ records'[r] = new
          BY ONLY <1>6, <1>7, <4>1, <4>2, new \in ARecord, ExceptSeq
        <4> QED BY ONLY <1>6, <4>1, <4>2, <4>3, l \in Nat
      <3> QED BY <3>1, <3>2
    <2>9. DOMAIN records' = 1..m  BY <2>8, LenProperties
    <2>10. ASSUME NEW q \in Projects, q # c.p PROVE k \notin HeldIn(rowOf, domainCalls, q)
      <3>1. CASE r = 0
        <4>1. k = l + 1  BY <2>3, <3>1
        <4>2. k \notin 1..l  BY ONLY <4>1, l \in Nat
        <4> QED BY <1>14, <2>10, <4>2
      <3>2. CASE r # 0
        <4>1. k = r  BY <2>3, <3>2
        <4> QED BY <1>13, <2>2, <2>10, <4>1
      <3> QED BY <3>1, <3>2
    <2>11. \A i \in 1..l : i # k => i \in DOMAIN records' /\ records'[i] = records[i]
      <3>1. CASE r = 0
        <4>1. records' = Append(records, new)  BY <2>6, <3>1
        <4>2. \A i \in 1..l : records'[i] = records[i]  BY <1>6, <1>7, <4>1, AppendProperties
        <4> QED BY ONLY <2>8, <2>9, <4>2, l \in Nat, m \in Nat
      <3>2. CASE r # 0
        <4>1. records' = [records EXCEPT ![r] = new] /\ k = r  BY <2>3, <2>6, <3>2
        <4> QED BY <1>15, <4>1
      <3> QED BY <3>1, <3>2
    <2>12. \A q \in Projects, i \in Nat : q # c.p /\ i \in HeldIn(rowOf, domainCalls, q) =>
             i \in DOMAIN records' /\ records'[i] = records[i]
      BY <1>14, <2>10, <2>11
    <2>13. /\ n \in DomainCall /\ n.pc = "store" /\ n.p = c.p /\ n.alone = c.alone /\ n.row = store
           /\ n.wrote = TRUE
      BY <1>11, <1>17, <2>5
    <2>14. \A q \in Projects : q # c.p => n.row.record \notin HeldIn(rowOf, domainCalls, q)
      BY <1>13, <2>2, <2>5, <2>10, <2>13
    <2>15. NamedIn(records', n.row)
      <3>1. store.status = "active" => store.record \in DOMAIN records' /\ records'[store.record] = [host |-> store.host, ip |-> store.ip]
        BY <2>1, <2>5, <2>8, <2>9
      <3> QED BY <2>13, <3>1 DEF NamedIn
    <2>16. n.row.record \in 0..Len(records')
      <3>1. store.record = k \/ store.record = r  BY <2>5
      <3>2. r \in 0..m /\ k \in 0..m  BY ONLY <2>7, <2>8, l \in Nat, m \in Nat, r \in Nat
      <3> QED BY <2>8, <2>13, <3>1, <3>2
    <2>17. Len(records') >= Len(records)  BY <1>6, <2>8
    <2> QED BY ONLY DomainInv, d \in DomainCalls, c \in DomainCall, <1>1, <1>3, <1>10, <2>8, <2>12, <2>13, <2>14, <2>15, <2>16, <2>17, AnswerHeld
  <1> QED BY <1>8, <1>16, <1>17

LEMMA StoreKeeps ==
  ASSUME DomainInv, NEW d \in DomainCalls, StoreRow(d)
  PROVE  DomainInv'
  <1>1. domainCalls[d].pc = "store" /\ UNCHANGED <<records, addressOf>>
    BY Zenon DEF StoreRow
  <1>2. Calling(domainCalls, d)
    <2>1. domainCalls[d].pc # IdleDomainCall.pc  BY <1>1 DEF IdleDomainCall
    <2> QED BY <2>1 DEF Calling
  <1>3. PICK c \in DomainCall : c = domainCalls[d]  BY <1>2 DEF DomainInv, DomainTyped
  <1>4. PICK row \in DomainRow, p \in Projects : row = c.row /\ p = c.p  BY DEF DomainCall
  <1>5. /\ domainCalls' = [domainCalls EXCEPT ![d] = IdleDomainCall]
        /\ \/ /\ rowOf' = [rowOf EXCEPT ![p] = <<row>>]
              /\ domainTorn' = IF c.wrote /\ c.alone THEN domainTorn \ {p} ELSE domainTorn
           \/ /\ domainTorn' = IF c.wrote THEN domainTorn \cup {p} ELSE domainTorn
              /\ rowOf' = rowOf
    BY <1>3, <1>4, Zenon DEF StoreRow
  <1>6. DOMAIN domainCalls = DomainCalls /\ rowOf \in [Projects -> Seq(DomainRow)]
    BY DEF DomainInv, DomainTyped
  <1>7. /\ DOMAIN domainCalls' = DomainCalls /\ ~Calling(domainCalls', d)
        /\ \A e \in DomainCalls : e # d => domainCalls'[e] = domainCalls[e]
    BY <1>5, <1>6 DEF Calling
  <1>8. \A e \in DomainCalls : Calling(domainCalls', e) =>
           e # d /\ Calling(domainCalls, e) /\ domainCalls'[e] = domainCalls[e]
    BY <1>7 DEF Calling
  <1>9. <<row>> \in Seq(DomainRow) /\ <<row>> # <<>> /\ <<row>>[1] = row
    BY LenProperties
  <1>10. /\ rowOf' \in [Projects -> Seq(DomainRow)]
         /\ \A q \in Projects : q # p => rowOf'[q] = rowOf[q]
         /\ rowOf'[p] = <<row>> \/ rowOf'[p] = rowOf[p]
    <2>1. CASE rowOf' = rowOf  BY <1>6, <2>1
    <2>2. CASE rowOf' = [rowOf EXCEPT ![p] = <<row>>]  BY ONLY <1>6, <1>9, <2>2, p \in Projects
    <2> QED BY <1>5, <2>1, <2>2
  <1>11. \A q \in Projects : q # p => (HasRow(rowOf', q) <=> HasRow(rowOf, q)) /\ rowOf'[q][1] = rowOf[q][1]
    BY <1>10 DEF HasRow
  <1>12. DomainTyped(rowOf, records, addressOf, domainCalls)'
    <2>1. ASSUME NEW q \in Projects, HasRow(rowOf', q) PROVE rowOf'[q][1] \in DomainRow
      BY <1>9, <1>10, <2>1 DEF DomainInv, DomainTyped, HasRow
    <2>2. ASSUME NEW e \in DomainCalls, Calling(domainCalls', e) PROVE domainCalls'[e] \in DomainCall
      BY <1>8, <2>2 DEF DomainInv, DomainTyped
    <2> QED BY <1>1, <1>7, <1>10, <2>1, <2>2 DEF DomainInv, DomainTyped, HasRow
  <1>13. ASSUME NEW q \in Projects, NEW k \in HeldIn(rowOf, domainCalls, q)'
         PROVE  k \in HeldIn(rowOf, domainCalls, q)
    <2>1. k \in Nat \ {0}  BY <1>13 DEF HeldIn
    <2>2. CASE HasRow(rowOf', q) /\ k = rowOf'[q][1].record
      <3>1. CASE q = p /\ rowOf'[p] = <<row>>
        <4>1. k = domainCalls[d].row.record /\ domainCalls[d].p = q  BY <1>3, <1>4, <1>9, <2>2, <3>1
        <4> QED BY <1>2, <2>1, <4>1 DEF HeldIn
      <3>2. CASE rowOf'[q] = rowOf[q]  BY <2>1, <2>2, <3>2 DEF HeldIn, HasRow
      <3> QED BY <1>10, <3>1, <3>2
    <2>3. CASE \E e \in DomainCalls : Calling(domainCalls', e) /\ domainCalls'[e].p = q /\ k = domainCalls'[e].row.record
      BY <1>8, <2>1, <2>3 DEF HeldIn
    <2> QED BY <1>13, <2>2, <2>3 DEF HeldIn, HasRow
  <1>14. RecordsApart(rowOf, records, domainCalls)'
    <2>1. \A q \in Projects : HeldIn(rowOf, domainCalls, q)' \subseteq HeldIn(rowOf, domainCalls, q)
      BY <1>13
    <2> QED BY <1>1, <2>1 DEF DomainInv, RecordsApart
  <1>15. \A q \in Projects : q \notin domainTorn' /\ q \in domainTorn => q = p /\ c.wrote /\ c.alone
    BY <1>5
  <1>16. c.alone => \A e \in DomainCalls : Calling(domainCalls', e) => domainCalls[e].p # p
    BY <1>2, <1>3, <1>4, <1>8 DEF DomainInv, CallsApart
  <1>17. CallsApart(domainCalls, domainTorn)'
    <2>1. ASSUME NEW a \in DomainCalls, NEW b \in DomainCalls, Calling(domainCalls', a), Calling(domainCalls', b),
                 a # b, domainCalls'[a].p = domainCalls'[b].p
          PROVE  ~domainCalls'[a].alone
      BY <1>8, <2>1 DEF DomainInv, CallsApart
    <2>2. ASSUME NEW a \in DomainCalls, Calling(domainCalls', a), domainCalls'[a].p \notin domainTorn'
          PROVE  domainCalls'[a].alone
      <3>1. Calling(domainCalls, a) /\ domainCalls'[a] = domainCalls[a] /\ domainCalls[a] \in DomainCall
        BY <1>8, <2>2 DEF DomainInv, DomainTyped
      <3>2. domainCalls[a].p \in Projects  BY <3>1 DEF DomainCall
      <3>3. domainCalls[a].p \notin domainTorn  BY <1>15, <1>16, <2>2, <3>1, <3>2
      <3> QED BY <3>1, <3>3 DEF DomainInv, CallsApart
    <2>3. ASSUME NEW a \in DomainCalls, Calling(domainCalls', a), domainCalls'[a].pc = "sync"
          PROVE  ~domainCalls'[a].wrote
      BY <1>8, <2>3 DEF DomainInv, CallsApart
    <2> QED BY <2>1, <2>2, <2>3 DEF CallsApart
  <1>18. RowsNamed(rowOf, records, domainCalls, domainTorn)'
    <2>1. ASSUME NEW q \in Projects \ domainTorn', HasRow(rowOf', q),
                 \A e \in DomainCalls : Calling(domainCalls', e) /\ domainCalls'[e].p = q => ~domainCalls'[e].wrote
          PROVE  NamedIn(records, rowOf'[q][1])
      \* Its calls but this one have not written.
      <3>1. \A e \in DomainCalls : e # d /\ Calling(domainCalls, e) /\ domainCalls[e].p = q => ~domainCalls[e].wrote
        BY <1>7, <2>1 DEF Calling
      <3>2. CASE q # p
        <4>1. q \notin domainTorn /\ HasRow(rowOf, q)  BY <1>11, <1>15, <2>1, <3>2
        <4>2. \A e \in DomainCalls : Calling(domainCalls, e) /\ domainCalls[e].p = q => ~domainCalls[e].wrote
          BY <1>3, <1>4, <3>1, <3>2
        <4>3. NamedIn(records, rowOf[q][1])  BY <4>1, <4>2 DEF DomainInv, RowsNamed
        <4> QED BY <1>11, <3>2, <4>3
      <3>3. CASE q = p /\ rowOf' = rowOf
        <4>1. ~c.wrote \/ rowOf' = [rowOf EXCEPT ![p] = <<row>>]  BY <1>5, <2>1, <3>3
        <4>2. CASE ~c.wrote
          <5>1. q \notin domainTorn  BY <1>15, <2>1, <4>2
          <5>2. \A e \in DomainCalls : Calling(domainCalls, e) /\ domainCalls[e].p = q => ~domainCalls[e].wrote
            BY <1>3, <3>1, <4>2
          <5>3. HasRow(rowOf, q)  BY <2>1, <3>3
          <5> QED BY <3>3, <5>1, <5>2, <5>3 DEF DomainInv, RowsNamed
        <4>3. CASE rowOf' = [rowOf EXCEPT ![p] = <<row>>] /\ c.wrote
          <5>1. rowOf[p] = <<row>>
            <6>1. rowOf'[p] = <<row>>  BY ONLY <1>6, <4>3, p \in Projects
            <6> QED BY <3>3, <6>1
          <5>2. c.alone
            <6>1. p \in domainTorn => c.alone  BY <1>4, <1>15, <2>1, <3>3
            <6>2. p \notin domainTorn => c.alone  BY <1>2, <1>3, <1>4 DEF DomainInv, CallsApart
            <6> QED BY <6>1, <6>2
          <5>3. NamedIn(records, row)  BY <1>2, <1>3, <1>4, <4>3, <5>2 DEF DomainInv, CallsNamed
          <5> QED BY <1>9, <3>3, <5>1, <5>3
        <4> QED BY <4>1, <4>2, <4>3
      <3>4. CASE q = p /\ rowOf' = [rowOf EXCEPT ![p] = <<row>>] /\ rowOf' # rowOf
        <4>1. domainTorn' = IF c.wrote /\ c.alone THEN domainTorn \ {p} ELSE domainTorn  BY <1>5, <3>4
        <4>2. rowOf'[q] = <<row>>  BY ONLY <1>6, <3>4, p \in Projects
        <4>3. p \notin domainTorn \/ (c.wrote /\ c.alone)  BY <2>1, <3>4, <4>1
        <4>4. p \notin domainTorn => c.alone  BY <1>2, <1>3, <1>4 DEF DomainInv, CallsApart
        <4>5. NamedIn(records, row)  BY <1>2, <1>3, <1>4, <4>3, <4>4 DEF DomainInv, CallsNamed
        <4> QED BY <1>9, <4>2, <4>5
      <3> QED BY <1>5, <3>2, <3>3, <3>4
    <2> QED BY <1>1, <2>1 DEF RowsNamed, HasRow
  <1>19. CallsNamed(records, domainCalls, domainTorn)'
    <2>1. ASSUME NEW e \in DomainCalls, Calling(domainCalls', e), domainCalls'[e].alone,
                 domainCalls'[e].p \notin domainTorn' \/ domainCalls'[e].wrote
          PROVE  NamedIn(records, domainCalls'[e].row)
      <3>1. Calling(domainCalls, e) /\ domainCalls'[e] = domainCalls[e] /\ domainCalls[e] \in DomainCall
        BY <1>8, <2>1 DEF DomainInv, DomainTyped
      <3>2. domainCalls[e].p \in Projects  BY <3>1 DEF DomainCall
      <3>3. domainCalls[e].p \notin domainTorn' => domainCalls[e].p \notin domainTorn
        BY <1>15, <1>16, <2>1, <3>2
      <3> QED BY <2>1, <3>1, <3>3 DEF DomainInv, CallsNamed
    <2> QED BY <1>1, <2>1 DEF CallsNamed
  <1> QED BY <1>12, <1>14, <1>17, <1>18, <1>19 DEF DomainInv

LEMMA DomainInvInit == DomainInit => DomainInv
  <1> SUFFICES ASSUME DomainInit PROVE DomainInv
    OBVIOUS
  <1>1. \A p \in Projects : ~HasRow(rowOf, p)  BY DEF DomainInit, HasRow
  <1>2. \A d \in DomainCalls : ~Calling(domainCalls, d)  BY DEF DomainInit, Calling
  <1>3. <<>> \in Seq(DomainRow) /\ <<>> \in Seq(ARecord)  BY EmptySeq
  <1>4. DomainTyped(rowOf, records, addressOf, domainCalls)
    BY <1>1, <1>2, <1>3 DEF DomainTyped, DomainInit
  <1>5. \A p \in Projects : HeldIn(rowOf, domainCalls, p) = {}  BY <1>1, <1>2 DEF HeldIn
  <1> QED BY <1>1, <1>2, <1>4, <1>5 DEF DomainInv, RecordsApart, CallsApart, RowsNamed, CallsNamed

LEMMA DomainInvNext == DomainInv /\ [DomainNext]_domainVars => DomainInv'
  <1> SUFFICES ASSUME DomainInv, [DomainNext]_domainVars PROVE DomainInv'
    OBVIOUS
  <1>1. CASE \E p \in Projects : TargetMoves(p)
    <2>1. PICK p \in Projects, a \in Addresses \cup {"none"} :
            /\ addressOf' = [addressOf EXCEPT ![p] = a]
            /\ UNCHANGED <<rowOf, records, domainCalls, domainTorn>>
      BY <1>1, Zenon DEF TargetMoves
    <2>2. addressOf' \in [Projects -> Addresses \cup {"none"}]  BY <2>1 DEF DomainInv, DomainTyped
    <2>3. DomainTyped(rowOf, records, addressOf, domainCalls)'
      BY <2>1, <2>2 DEF DomainInv, DomainTyped, HasRow, Calling
    <2> QED BY <2>1, <2>3 DEF DomainInv, RecordsApart, HeldIn, CallsApart, RowsNamed, CallsNamed, HasRow, Calling
  <1>2. CASE UNCHANGED domainVars
    BY <1>2 DEF domainVars, DomainInv, DomainTyped, RecordsApart, HeldIn, CallsApart, RowsNamed, CallsNamed,
                HasRow, Calling
  <1> QED BY <1>1, <1>2, DomainCallStarts, SyncKeeps, StoreKeeps DEF DomainNext

LEMMA DomainInvRenamed == DomainInv => RenamedIsPublished
  <1> SUFFICES ASSUME DomainInv, NEW p \in Projects \ domainTorn, rowOf[p] # <<>>, ~Storing(p),
                      rowOf[p][1].by = "rename", rowOf[p][1].status = "active"
               PROVE  /\ Published(rowOf[p][1])
                      /\ \A q \in Projects \ {p} : rowOf[q] # <<>> => rowOf[q][1].record # rowOf[p][1].record
    BY DEF RenamedIsPublished
  <1>1. HasRow(rowOf, p)  BY DEF HasRow
  <1>2. ASSUME NEW d \in DomainCalls, Calling(domainCalls, d), domainCalls[d].p = p PROVE ~domainCalls[d].wrote
    <2>1. domainCalls[d].pc # "store"  BY <1>2 DEF Storing, UnderWay, Calling
    <2>2. domainCalls[d].pc \in {"sync", "store"}  BY <1>2 DEF DomainInv, DomainTyped, DomainCall
    <2> QED BY <1>2, <2>1, <2>2 DEF DomainInv, CallsApart
  <1>3. NamedIn(records, rowOf[p][1])  BY <1>1, <1>2 DEF DomainInv, RowsNamed
  <1>4. Published(rowOf[p][1])  BY <1>3 DEF NamedIn, Published
  <1>5. PICK l \in Nat : l = Len(records) /\ DOMAIN records = 1..l
    BY LenProperties DEF DomainInv, DomainTyped
  <1>6. rowOf[p][1].record \in 1..l  BY <1>4, <1>5 DEF Published
  <1>7. rowOf[p][1].record \in HeldIn(rowOf, domainCalls, p)
    <2>1. rowOf[p][1].record \in Nat \ {0}  BY ONLY <1>6, l \in Nat
    <2> QED BY <1>1, <2>1 DEF HeldIn
  <1>8. ASSUME NEW q \in Projects \ {p}, rowOf[q] # <<>>, rowOf[q][1].record = rowOf[p][1].record PROVE FALSE
    <2>1. rowOf[q][1].record \in HeldIn(rowOf, domainCalls, q)  BY <1>7, <1>8 DEF HeldIn, HasRow
    <2> QED BY <1>7, <1>8, <2>1 DEF DomainInv, RecordsApart
  <1> QED BY <1>4, <1>8

(* A hostname the owner gave, once shown as active, is the name of the     *)
(* project's own record with the address it was last synced to, for any    *)
(* number of projects, of calls under way at the same time and of failures *)
(* of the provider or of the store, unless the record was last written by  *)
(* a call that overlapped another call of the project, or whose row could  *)
(* not be stored (RenameManagedDomain, EnsureManagedDomain).               *)
THEOREM RenamesPublished == DomainSpec => []RenamedIsPublished
  <1> QED BY DomainInvInit, DomainInvNext, DomainInvRenamed, PTL DEF DomainSpec

-----------------------------------------------------------------------------
(* Hosts: the nodes of a cluster, then the tunnels.                        *)

JoinCall == [pc : {"ssh", "label", "topology"}, host : Machines]

\* A host whose row is about to be written, or is written, is joined and labelled.
NodesInv ==
    /\ DOMAIN joinCalls = JoinCalls /\ DOMAIN label = Machines /\ DOMAIN topology = Machines
    /\ \A c \in JoinCalls : joinCalls[c] # NoJoin => joinCalls[c] \in JoinCall
    /\ \A c \in JoinCalls : joinCalls[c].pc = "topology" =>
          joinCalls[c].host \in joined /\ label[joinCalls[c].host] = joinCalls[c].host
    /\ \A h \in Machines \ {ControlPlane} : topology[h] # <<>> => h \in joined /\ label[h] = h

LEMMA NodesStart == NodesInit => NodesInv
  BY DEF NodesInit, NodesInv, NoJoin, Machines

LEMMA JoinMoves ==
  ASSUME NodesInv, NEW c \in JoinCalls, NEW n, n = NoJoin \/ n \in JoinCall,
         joinCalls' = [joinCalls EXCEPT ![c] = n],
         n.pc = "topology" => n.host \in joined' /\ label'[n.host] = n.host,
         joined \subseteq joined', DOMAIN label' = Machines,
         \A h \in Machines : label[h] = h => label'[h] = h,
         UNCHANGED topology
  PROVE  NodesInv'
  <1>1. DOMAIN joinCalls' = JoinCalls /\ joinCalls'[c] = n
        /\ \A d \in JoinCalls \ {c} : joinCalls'[d] = joinCalls[d]
    BY DEF NodesInv
  <1>2. \A d \in JoinCalls : joinCalls'[d] # NoJoin => joinCalls'[d] \in JoinCall
    BY <1>1 DEF NodesInv
  <1>3. ASSUME NEW d \in JoinCalls, joinCalls'[d].pc = "topology"
        PROVE  joinCalls'[d].host \in joined' /\ label'[joinCalls'[d].host] = joinCalls'[d].host
    <2>1. CASE d = c  BY <1>1, <1>3, <2>1
    <2>2. CASE d # c
      <3>1. joinCalls[d].pc = "topology" /\ joinCalls'[d] = joinCalls[d]  BY <1>1, <1>3, <2>2
      <3>2. joinCalls[d] \in JoinCall  BY <3>1 DEF NodesInv, NoJoin
      <3>3. joinCalls[d].host \in Machines  BY <3>2 DEF JoinCall
      <3> QED BY <3>1, <3>3 DEF NodesInv
    <2> QED BY <2>1, <2>2
  <1> QED BY <1>1, <1>2, <1>3 DEF NodesInv

LEMMA NodesStep == NodesInv /\ NodesNext => NodesInv'
  <1> SUFFICES ASSUME NodesInv, NodesNext PROVE NodesInv'
    OBVIOUS
  <1>0. NoJoin.pc = "idle"  BY DEF NoJoin
  <1>1. ASSUME NEW c \in JoinCalls, NEW h \in Machines, resolveOrCreateSSHInstance(c, h)
        PROVE  NodesInv'
    <2>1. PICK n : n = [pc |-> "ssh", host |-> h]  OBVIOUS
    <2>2. n \in JoinCall /\ n.pc = "ssh"  BY <2>1 DEF JoinCall
    <2>3. joinCalls' = [joinCalls EXCEPT ![c] = n] /\ UNCHANGED <<joined, label, topology>>
      BY <1>1, <2>1, Zenon DEF resolveOrCreateSSHInstance
    <2> QED BY <2>2, <2>3, JoinMoves DEF NodesInv
  <1>2. ASSUME NEW c \in JoinCalls, JoinClusterNode(c) PROVE NodesInv'
    <2>1. PICK ok \in BOOLEAN, works \in BOOLEAN :
            /\ joinCalls[c].pc = "ssh"
            /\ joined' = IF works THEN joined \cup {joinCalls[c].host} ELSE joined
            /\ joinCalls' = [joinCalls EXCEPT ![c] = IF ok THEN [@ EXCEPT !.pc = "label"] ELSE NoJoin]
            /\ UNCHANGED <<label, topology>>
      BY <1>2, Zenon DEF JoinClusterNode
    <2>0. joinCalls[c].pc = "ssh"  BY <2>1, Zenon
    <2>2. PICK k \in JoinCall : k = joinCalls[c]  BY <1>0, <2>0, "ssh" # "idle" DEF NodesInv
    <2>3. PICK m : m = [k EXCEPT !.pc = "label"]  OBVIOUS
    <2>4. m \in JoinCall /\ m.pc = "label"  BY ONLY <2>3, k \in JoinCall DEF JoinCall
    <2>5. PICK n : n = IF ok THEN m ELSE NoJoin  OBVIOUS
    <2>6. joinCalls' = [joinCalls EXCEPT ![c] = n]
      BY <2>1, <2>2, <2>3, <2>5 DEF NodesInv
    <2>7. (n = NoJoin \/ n \in JoinCall) /\ n.pc # "topology"  BY <1>0, <2>4, <2>5
    <2>8. joined \subseteq joined' /\ UNCHANGED <<label, topology>>  BY <2>1
    <2>9. DOMAIN label' = Machines /\ \A x \in Machines : label[x] = x => label'[x] = x
      BY <2>8 DEF NodesInv
    <2> QED BY <2>6, <2>7, <2>8, <2>9, JoinMoves
  <1>3. ASSUME NEW c \in JoinCalls, labelJoinedNode(c) PROVE NodesInv'
    <2>1. PICK done \in BOOLEAN, answered \in BOOLEAN :
            /\ joinCalls[c].pc = "label"
            /\ answered => done
            /\ done => joinCalls[c].host \in joined
            /\ label' = IF done THEN [label EXCEPT ![joinCalls[c].host] = joinCalls[c].host] ELSE label
            /\ joinCalls' = [joinCalls EXCEPT ![c] = IF answered THEN [@ EXCEPT !.pc = "topology"] ELSE NoJoin]
            /\ UNCHANGED <<joined, topology>>
      BY <1>3, Zenon DEF labelJoinedNode
    <2>0. joinCalls[c].pc = "label"  BY <2>1, Zenon
    <2>2. PICK k \in JoinCall : k = joinCalls[c]  BY <1>0, <2>0, "label" # "idle" DEF NodesInv
    <2>3. PICK h \in Machines : h = k.host  BY DEF JoinCall
    <2>4. PICK m : m = [k EXCEPT !.pc = "topology"]  OBVIOUS
    <2>5. m \in JoinCall /\ m.host = h  BY ONLY <2>3, <2>4, k \in JoinCall DEF JoinCall
    <2>6. PICK n : n = IF answered THEN m ELSE NoJoin  OBVIOUS
    <2>7. joinCalls' = [joinCalls EXCEPT ![c] = n]
      BY <2>1, <2>2, <2>4, <2>6 DEF NodesInv
    <2>8. (n = NoJoin \/ n \in JoinCall) /\ (n.pc = "topology" => answered /\ n.host = h)
      BY <1>0, <2>5, <2>6
    <2>9. /\ DOMAIN label' = Machines
          /\ done => (label'[h] = h /\ h \in joined)
          /\ \A x \in Machines : label[x] = x => label'[x] = x
      BY <2>1, <2>2, <2>3 DEF NodesInv
    <2>10. UNCHANGED <<joined, topology>> /\ (answered => done)  BY <2>1, Zenon
    <2>11. n.pc = "topology" => n.host \in joined' /\ label'[n.host] = n.host  BY <2>8, <2>9, <2>10
    <2> QED BY <2>7, <2>8, <2>9, <2>10, <2>11, JoinMoves
  <1>4. ASSUME NEW c \in JoinCalls, UpsertJoined(c) PROVE NodesInv'
    <2>1. PICK row : /\ joinCalls[c].pc = "topology"
                     /\ topology' = [topology EXCEPT ![joinCalls[c].host] = <<row>>]
                     /\ joinCalls' = [joinCalls EXCEPT ![c] = NoJoin]
                     /\ UNCHANGED <<joined, label>>
      BY <1>4, Zenon DEF UpsertJoined, Upsert
    <2>2. joinCalls[c].host \in joined /\ label[joinCalls[c].host] = joinCalls[c].host
      BY <2>1 DEF NodesInv
    <2>3. DOMAIN topology' = Machines /\ DOMAIN joinCalls' = JoinCalls  BY <2>1 DEF NodesInv
    <2>4. \A d \in JoinCalls : joinCalls'[d] = IF d = c THEN NoJoin ELSE joinCalls[d]
      BY <2>1 DEF NodesInv
    <2>5. \A h \in Machines : h # joinCalls[c].host => topology'[h] = topology[h]
      BY <2>1 DEF NodesInv
    <2>6. ASSUME NEW h \in Machines \ {ControlPlane}, topology'[h] # <<>>
          PROVE  h \in joined' /\ label'[h] = h
      <3>1. CASE h = joinCalls[c].host  BY <2>1, <2>2, <3>1
      <3>2. CASE h # joinCalls[c].host  BY <2>1, <2>5, <2>6, <3>2 DEF NodesInv
      <3> QED BY <3>1, <3>2
    <2>7. \A d \in JoinCalls : /\ joinCalls'[d] # NoJoin => joinCalls'[d] \in JoinCall
                               /\ joinCalls'[d].pc = "topology" =>
                                    /\ joinCalls'[d].host \in joined
                                    /\ label[joinCalls'[d].host] = joinCalls'[d].host
      BY <1>0, <2>4 DEF NodesInv
    <2> QED BY <2>1, <2>3, <2>6, <2>7 DEF NodesInv
  <1>5. CASE buildClusterTopologyState \/ IngestTopologyState
    <2>1. PICK row : topology' = [topology EXCEPT ![ControlPlane] = <<row>>]
      BY <1>5, Zenon DEF buildClusterTopologyState, IngestTopologyState, Upsert
    <2>2. UNCHANGED <<joined, label, joinCalls>>
      BY <1>5, Zenon DEF buildClusterTopologyState, IngestTopologyState
    <2>3. DOMAIN topology' = Machines
          /\ \A h \in Machines \ {ControlPlane} : topology'[h] = topology[h]
      BY <2>1 DEF NodesInv
    <2> QED BY <2>2, <2>3 DEF NodesInv
  <1> QED BY <1>1, <1>2, <1>3, <1>4, <1>5 DEF NodesNext

LEMMA NodesKept == NodesInv /\ UNCHANGED nodesVars => NodesInv'
  BY DEF NodesInv, nodesVars

LEMMA NodesAgree == NodesInv => JoinedNodesLabelled
  BY DEF NodesInv, JoinedNodesLabelled, ListPlacementNodes, ListClusterNodes, ListActiveByMesh, Machines

-----------------------------------------------------------------------------
(* Tunnels. *)

TunnelSession == [port : LocalPorts, expires : Nat, status : {"active", "closed"}, seen : Nat]

\* A session that was listed and not there is not there when it is stored: what a call
\* has seen of its port is closed or over.
TunnelInv ==
    /\ sessions \in Seq(TunnelSession) /\ now \in Nat
    /\ DOMAIN tunnelCalls = TunnelCalls
    /\ \A c \in TunnelCalls :
          /\ tunnelCalls[c].pc = "list" => tunnelCalls[c].port \in LocalPorts /\ tunnelCalls[c].ttl \in Nat
          /\ tunnelCalls[c].pc = "create" =>
                /\ tunnelCalls[c].port \in LocalPorts /\ tunnelCalls[c].expires \in Nat
                /\ tunnelCalls[c].seen \in 0..Len(sessions)
                /\ \A i \in 1..tunnelCalls[c].seen :
                      sessions[i].port = tunnelCalls[c].port => ~Live(sessions[i])
    /\ SharedPortOverlapped

LEMMA TunnelStart == TunnelInit => TunnelInv
  <1> SUFFICES ASSUME TunnelInit PROVE TunnelInv
    OBVIOUS
  <1>1. sessions \in Seq(TunnelSession) /\ DOMAIN sessions = {}  BY EmptySeq DEF TunnelInit
  <1> QED BY <1>1 DEF TunnelInit, TunnelInv, NoTunnelCall, SharedPortOverlapped

\* Sessions are closed and expire, the clock goes on.
LEMMA SessionsEnd ==
  ASSUME TunnelInv, now' \in Nat, sessions' \in Seq(TunnelSession), Len(sessions') = Len(sessions),
         \A i \in DOMAIN sessions : /\ sessions'[i].port = sessions[i].port
                                    /\ sessions'[i].seen = sessions[i].seen
                                    /\ Live(sessions[i])' => Live(sessions[i]),
         DOMAIN tunnelCalls' = TunnelCalls,
         \A c \in TunnelCalls : tunnelCalls'[c] = tunnelCalls[c] \/ 
            (/\ tunnelCalls'[c].pc = "list" => tunnelCalls'[c].port \in LocalPorts /\ tunnelCalls'[c].ttl \in Nat
             /\ tunnelCalls'[c].pc = "create" =>
                /\ tunnelCalls'[c].port \in LocalPorts /\ tunnelCalls'[c].expires \in Nat
                /\ tunnelCalls'[c].seen \in 0..Len(sessions)
                /\ \A i \in 1..tunnelCalls'[c].seen :
                      sessions'[i].port = tunnelCalls'[c].port => ~Live(sessions[i])')
  PROVE  TunnelInv'
  <1>1. PICK l \in Nat : l = Len(sessions) /\ DOMAIN sessions = 1..l /\ DOMAIN sessions' = 1..l
    BY LenProperties DEF TunnelInv
  <1>2. SharedPortOverlapped'
    BY <1>1 DEF TunnelInv, SharedPortOverlapped
  <1>3. ASSUME NEW c \in TunnelCalls, tunnelCalls'[c] = tunnelCalls[c], tunnelCalls'[c].pc = "create"
        PROVE  /\ tunnelCalls'[c].seen \in 0..Len(sessions')
               /\ \A i \in 1..tunnelCalls'[c].seen :
                      sessions'[i].port = tunnelCalls'[c].port => ~Live(sessions[i])'
    <2>1. PICK s : s = tunnelCalls[c].seen  OBVIOUS
    <2>2. s \in 0..l /\ \A i \in 1..s : sessions[i].port = tunnelCalls[c].port => ~Live(sessions[i])
      BY <1>1, <1>3, <2>1 DEF TunnelInv
    <2>3. \A i \in 1..s : i \in 1..l  BY ONLY <2>2, l \in Nat
    <2> QED BY <1>1, <1>3, <2>1, <2>2, <2>3
  <1>4. \A c \in TunnelCalls :
          /\ tunnelCalls'[c].pc = "list" => tunnelCalls'[c].port \in LocalPorts /\ tunnelCalls'[c].ttl \in Nat
          /\ tunnelCalls'[c].pc = "create" => tunnelCalls'[c].port \in LocalPorts /\ tunnelCalls'[c].expires \in Nat
    BY Zenon DEF TunnelInv
  <1> QED BY <1>1, <1>2, <1>3, <1>4, Zenon DEF TunnelInv

LEMMA Asked ==
  ASSUME TunnelInv, NEW c \in TunnelCalls, NEW port \in LocalPorts, NEW ttl \in Timeouts,
         runTunnel(c, port, ttl)
  PROVE  TunnelInv'
  <1>1. PICK n : n = [pc |-> "list", port |-> port, ttl |-> ttl]  OBVIOUS
  <1>2. n.pc = "list" /\ n.port \in LocalPorts /\ n.ttl \in Nat  BY <1>1 DEF Timeouts
  <1>3. tunnelCalls' = [tunnelCalls EXCEPT ![c] = n] /\ UNCHANGED <<sessions, now>>
    BY <1>1, Zenon DEF runTunnel
  <1>4. DOMAIN tunnelCalls' = TunnelCalls
        /\ \A d \in TunnelCalls : tunnelCalls'[d] = IF d = c THEN n ELSE tunnelCalls[d]
    BY <1>3 DEF TunnelInv
  <1>5. now' \in Nat /\ sessions' \in Seq(TunnelSession) /\ Len(sessions') = Len(sessions)
    BY <1>3 DEF TunnelInv
  <1>6. \A i \in DOMAIN sessions : sessions'[i] = sessions[i] /\ (Live(sessions[i])' => Live(sessions[i]))
    BY <1>3 DEF Live
  <1> QED BY <1>2, <1>4, <1>5, <1>6, SessionsEnd

\* What closing expired rows of a port leaves.
LEMMA ExpiredClosed ==
  ASSUME TunnelInv, now' = now, NEW port,
         sessions' = [i \in DOMAIN sessions |->
                         IF closesExpired(sessions[i], port)
                         THEN [sessions[i] EXCEPT !.status = "closed"] ELSE sessions[i]]
  PROVE  /\ sessions' \in Seq(TunnelSession) /\ Len(sessions') = Len(sessions)
         /\ \A i \in DOMAIN sessions : /\ sessions'[i].port = sessions[i].port
                                       /\ sessions'[i].seen = sessions[i].seen
                                       /\ Live(sessions[i])' => Live(sessions[i])
  <1>1. PICK l \in Nat : l = Len(sessions) /\ DOMAIN sessions = 1..l
    BY LenProperties DEF TunnelInv
  <1>2. ASSUME NEW i \in DOMAIN sessions
        PROVE  /\ sessions'[i] \in TunnelSession
               /\ sessions'[i].port = sessions[i].port
               /\ sessions'[i].seen = sessions[i].seen
               /\ Live(sessions[i])' => Live(sessions[i])
    <2>1. PICK s \in TunnelSession : s = sessions[i]  BY ElementOfSeq, <1>1 DEF TunnelInv
    <2>2. PICK t : t = [s EXCEPT !.status = "closed"]  OBVIOUS
    <2>3. t \in TunnelSession /\ t.port = s.port /\ t.seen = s.seen /\ t.status = "closed"
      BY ONLY <2>2, s \in TunnelSession DEF TunnelSession
    <2>4. sessions'[i] = t \/ sessions'[i] = s  BY <2>1, <2>2
    <2>5. CASE sessions'[i] = t  BY <2>1, <2>3, <2>5 DEF Live
    <2>6. CASE sessions'[i] = s  BY <2>1, <2>6 DEF Live
    <2> QED BY <2>4, <2>5, <2>6
  <1>3. sessions' \in [1..l -> TunnelSession]  BY <1>1, <1>2
  <1>4. sessions' \in Seq(TunnelSession) /\ Len(sessions') = l
    <2>1. sessions' \in Seq(TunnelSession)  BY ONLY <1>3, l \in Nat, SeqDef
    <2>2. DOMAIN sessions' = 1..l  BY ONLY <1>3
    <2> QED BY ONLY <2>1, <2>2, l \in Nat, LenProperties
  <1> QED BY <1>1, <1>2, <1>4

LEMMA Listed == ASSUME TunnelInv, NEW c \in TunnelCalls, ListByTarget(c) PROVE TunnelInv'
  <1>1. tunnelCalls[c].pc = "list" /\ UNCHANGED now  BY Zenon DEF ListByTarget
  <1>2. PICK port \in LocalPorts : port = tunnelCalls[c].port  BY <1>1 DEF TunnelInv
  <1>3. PICK ttl \in Nat : ttl = tunnelCalls[c].ttl  BY <1>1 DEF TunnelInv
  <1>4. PICK l \in Nat : l = Len(sessions) /\ DOMAIN sessions = 1..l
    BY LenProperties DEF TunnelInv
  <1>5. now \in Nat /\ now' \in Nat  BY <1>1 DEF TunnelInv
  <1>6. CASE tunnelCalls' = [tunnelCalls EXCEPT ![c] = NoTunnelCall] /\ UNCHANGED sessions
    <2>1. NoTunnelCall.pc = "idle"  BY DEF NoTunnelCall
    <2>2. DOMAIN tunnelCalls' = TunnelCalls
          /\ \A d \in TunnelCalls : tunnelCalls'[d] = IF d = c THEN NoTunnelCall ELSE tunnelCalls[d]
      BY <1>6 DEF TunnelInv
    <2>3. sessions' \in Seq(TunnelSession) /\ Len(sessions') = Len(sessions)  BY <1>6 DEF TunnelInv
    <2>4. \A i \in DOMAIN sessions : sessions'[i] = sessions[i] /\ (Live(sessions[i])' => Live(sessions[i]))
      BY <1>1, <1>6 DEF Live
    <2> QED BY <1>5, <2>1, <2>2, <2>3, <2>4, SessionsEnd
  <1>7. CASE /\ ~ \E i \in DOMAIN sessions : sessions[i].port = port /\ Live(sessions[i])
             /\ sessions' = [i \in DOMAIN sessions |->
                       IF closesExpired(sessions[i], port)
                       THEN [sessions[i] EXCEPT !.status = "closed"] ELSE sessions[i]]
             /\ tunnelCalls' = [tunnelCalls EXCEPT ![c] =
                       [pc |-> "create", port |-> port, seen |-> Len(sessions),
                        expires |-> now + ttl]]
    <2>0. /\ ~ \E i \in DOMAIN sessions : sessions[i].port = port /\ Live(sessions[i])
          /\ sessions' = [i \in DOMAIN sessions |->
                       IF closesExpired(sessions[i], port)
                       THEN [sessions[i] EXCEPT !.status = "closed"] ELSE sessions[i]]
          /\ tunnelCalls' = [tunnelCalls EXCEPT ![c] =
                       [pc |-> "create", port |-> port, seen |-> Len(sessions),
                        expires |-> now + ttl]]
      BY <1>7
    <2>1. /\ sessions' \in Seq(TunnelSession) /\ Len(sessions') = Len(sessions)
          /\ \A i \in DOMAIN sessions : /\ sessions'[i].port = sessions[i].port
                                        /\ sessions'[i].seen = sessions[i].seen
                                        /\ Live(sessions[i])' => Live(sessions[i])
      BY <1>1, <2>0, ExpiredClosed
    <2>2. PICK n : n = [pc |-> "create", port |-> port, seen |-> l, expires |-> now + ttl]
      OBVIOUS
    <2>3. n.pc = "create" /\ n.port = port /\ n.seen = l /\ n.expires \in Nat
      BY <1>5, <2>2
    <2>4. tunnelCalls' = [tunnelCalls EXCEPT ![c] = n]  BY <1>4, <2>0, <2>2, Zenon
    <2>5. DOMAIN tunnelCalls' = TunnelCalls
          /\ \A d \in TunnelCalls : tunnelCalls'[d] = IF d = c THEN n ELSE tunnelCalls[d]
      BY <2>4 DEF TunnelInv
    <2>6. \A i \in 1..l : sessions'[i].port = port => ~Live(sessions[i])'
      BY ONLY <1>4, <2>0, <2>1
    <2> QED BY ONLY TunnelInv, <1>4, <1>5, <2>1, <2>3, <2>5, <2>6, port \in LocalPorts, SessionsEnd
  <1> QED BY <1>2, <1>3, <1>6, <1>7, Zenon DEF ListByTarget

LEMMA Stored == ASSUME TunnelInv, NEW c \in TunnelCalls, CreateTunnelSession(c) PROVE TunnelInv'
  <1>1. tunnelCalls[c].pc = "create" /\ UNCHANGED now /\ tunnelCalls' = [tunnelCalls EXCEPT ![c] = NoTunnelCall]
    BY Zenon DEF CreateTunnelSession
  <1>2. PICK port \in LocalPorts : port = tunnelCalls[c].port  BY <1>1 DEF TunnelInv
  <1>3. PICK expires \in Nat : expires = tunnelCalls[c].expires  BY <1>1 DEF TunnelInv
  <1>4. PICK l \in Nat : l = Len(sessions) /\ DOMAIN sessions = 1..l
    BY LenProperties DEF TunnelInv
  <1>5. PICK seen \in 0..l : seen = tunnelCalls[c].seen  BY <1>1, <1>4 DEF TunnelInv
  <1>6. \A i \in 1..seen : sessions[i].port = port => ~Live(sessions[i])
    BY <1>1, <1>2, <1>5 DEF TunnelInv
  <1>7. PICK n : n = [port |-> port, expires |-> expires, status |-> "active", seen |-> seen]
    OBVIOUS
  <1>8. n \in TunnelSession /\ n.port = port /\ n.seen = seen  BY <1>4, <1>7 DEF TunnelSession
  <1>9. sessions' = Append(sessions, n)
    BY <1>2, <1>3, <1>5, <1>7, Zenon DEF CreateTunnelSession
  <1>10. /\ sessions' \in Seq(TunnelSession) /\ Len(sessions') = l + 1 /\ DOMAIN sessions' = 1..l + 1
         /\ sessions'[l + 1] = n /\ \A i \in 1..l : sessions'[i] = sessions[i]
    <2>1. sessions \in Seq(TunnelSession)  BY DEF TunnelInv
    <2> QED BY ONLY <1>4, <1>8, <1>9, <2>1, AppendProperties
  <1>11. \A i \in 1..l : Live(sessions[i])' = Live(sessions[i])  BY <1>1, <1>10 DEF Live
  <1>12. SharedPortOverlapped'
    <2>1. ASSUME NEW i \in 1..l + 1, NEW j \in 1..l + 1, i < j,
                 sessions'[i].port = sessions'[j].port, Live(sessions[i])', Live(sessions[j])'
          PROVE  sessions'[j].seen < i
      <3>1. i \in 1..l  BY <2>1
      <3>2. CASE j = l + 1
        <4>1. sessions[i].port = port /\ Live(sessions[i])  BY <1>8, <1>10, <1>11, <2>1, <3>1, <3>2
        <4>2. i \notin 1..seen  BY <1>6, <4>1
        <4> QED BY <1>8, <1>10, <3>1, <3>2, <4>2
      <3>3. CASE j \in 1..l
        <4>1. sessions[i].port = sessions[j].port /\ Live(sessions[i]) /\ Live(sessions[j])
          BY <1>10, <1>11, <2>1, <3>1, <3>3
        <4> QED BY <1>4, <1>10, <2>1, <3>1, <3>3, <4>1 DEF TunnelInv, SharedPortOverlapped
      <3> QED BY <3>2, <3>3
    <2> QED BY <1>10, <2>1 DEF SharedPortOverlapped
  <1>13. DOMAIN tunnelCalls' = TunnelCalls
         /\ \A d \in TunnelCalls : tunnelCalls'[d] = IF d = c THEN NoTunnelCall ELSE tunnelCalls[d]
    BY <1>1 DEF TunnelInv
  <1>14. ASSUME NEW d \in TunnelCalls
         PROVE  /\ tunnelCalls'[d].pc = "list" => tunnelCalls'[d].port \in LocalPorts /\ tunnelCalls'[d].ttl \in Nat
                /\ tunnelCalls'[d].pc = "create" =>
                      /\ tunnelCalls'[d].port \in LocalPorts /\ tunnelCalls'[d].expires \in Nat
                      /\ tunnelCalls'[d].seen \in 0..Len(sessions')
                      /\ \A i \in 1..tunnelCalls'[d].seen :
                            sessions'[i].port = tunnelCalls'[d].port => ~Live(sessions[i])'
    <2>1. CASE d = c  BY <1>13, <2>1 DEF NoTunnelCall
    <2>2. CASE d # c /\ tunnelCalls[d].pc = "create"
      <3>1. PICK s \in 0..l : s = tunnelCalls[d].seen  BY <1>4, <2>2 DEF TunnelInv
      <3>2. \A i \in 1..s : i \in 1..l  OBVIOUS
      <3>3. tunnelCalls'[d] = tunnelCalls[d]  BY <1>13, <2>2
      <3>4. \A i \in 1..s : sessions[i].port = tunnelCalls[d].port => ~Live(sessions[i])
        BY <2>2, <3>1 DEF TunnelInv
      <3>5. \A i \in 1..s : sessions'[i].port = tunnelCalls[d].port => ~Live(sessions[i])'
        BY <1>10, <1>11, <3>2, <3>4
      <3>6. tunnelCalls[d].port \in LocalPorts /\ tunnelCalls[d].expires \in Nat
        BY <2>2 DEF TunnelInv
      <3>7. s \in 0..Len(sessions')  BY ONLY <1>10, s \in 0..l, l \in Nat
      <3> QED BY ONLY <2>2, <3>1, <3>3, <3>5, <3>6, <3>7
    <2>3. CASE d # c /\ tunnelCalls[d].pc # "create"  BY <1>13, <2>3 DEF TunnelInv
    <2> QED BY <2>1, <2>2, <2>3
  <1>15. now' \in Nat  BY <1>1 DEF TunnelInv
  <1> QED BY <1>10, <1>12, <1>13, <1>14, <1>15, Zenon DEF TunnelInv

\* Steps that leave the calls alone.
LEMMA Around ==
  ASSUME TunnelInv, CloseTunnelSession \/ TunnelTick \/ PortChanges \/ TargetReports
  PROVE  TunnelInv'
  <1>1. CASE CloseTunnelSession
    <2>1. PICK i \in DOMAIN sessions : /\ sessions' = [sessions EXCEPT ![i].status = "closed"]
                                       /\ UNCHANGED <<tunnelCalls, now>>
      BY <1>1, Zenon DEF CloseTunnelSession
    <2>2. PICK l \in Nat : l = Len(sessions) /\ DOMAIN sessions = 1..l
      BY LenProperties DEF TunnelInv
    <2>3. PICK s \in TunnelSession : s = sessions[i]  BY ElementOfSeq, <2>2 DEF TunnelInv
    <2>4. PICK t : t = [s EXCEPT !.status = "closed"]  OBVIOUS
    <2>5. t \in TunnelSession /\ t.port = s.port /\ t.seen = s.seen /\ t.status = "closed"
      BY ONLY <2>4, s \in TunnelSession DEF TunnelSession
    <2>6. sessions' = [sessions EXCEPT ![i] = t]  BY <2>1, <2>3, <2>4, Zenon
    <2>7. sessions' \in Seq(TunnelSession) /\ Len(sessions') = Len(sessions)
          /\ \A j \in DOMAIN sessions : sessions'[j] = IF j = i THEN t ELSE sessions[j]
      <3>1. sessions \in Seq(TunnelSession) /\ i \in 1..Len(sessions)  BY <2>2 DEF TunnelInv
      <3> QED BY <2>2, <2>5, <2>6, <3>1, ExceptSeq
    <2>8. \A j \in DOMAIN sessions : /\ sessions'[j].port = sessions[j].port
                                     /\ sessions'[j].seen = sessions[j].seen
                                     /\ Live(sessions[j])' => Live(sessions[j])
      <3>1. UNCHANGED now  BY <2>1
      <3> QED BY ONLY <2>3, <2>5, <2>7, <3>1 DEF Live
    <2>9. now' \in Nat /\ DOMAIN tunnelCalls' = TunnelCalls /\ tunnelCalls' = tunnelCalls
      BY <2>1, Zenon DEF TunnelInv
    <2> QED BY ONLY TunnelInv, <2>7, <2>8, <2>9, SessionsEnd
  <1>2. CASE TunnelTick \/ PortChanges \/ TargetReports
    <2>1. UNCHANGED <<sessions, tunnelCalls>> /\ now' \in Nat /\ (now' = now \/ now' = now + 1)
      BY <1>2 DEF TunnelTick, PortChanges, TargetReports, TunnelInv
    <2>2. \A j \in DOMAIN sessions : Live(sessions[j])' => Live(sessions[j])
      <3> SUFFICES ASSUME NEW j \in DOMAIN sessions, Live(sessions[j])' PROVE Live(sessions[j])
        OBVIOUS
      <3>1. PICK s \in TunnelSession : s = sessions[j]
        BY ElementOfSeq, LenProperties DEF TunnelInv
      <3>2. PICK e \in Nat : e = s.expires  BY DEF TunnelSession
      <3>3. s.status = "active" /\ e > now'  BY <2>1, <3>1, <3>2 DEF Live
      <3>4. e > now  BY <2>1, <3>3 DEF TunnelInv
      <3> QED BY <3>1, <3>2, <3>3, <3>4 DEF Live
    <2>3. sessions' \in Seq(TunnelSession) /\ DOMAIN tunnelCalls' = TunnelCalls
      BY <2>1 DEF TunnelInv
    <2> QED BY <2>1, <2>2, <2>3, SessionsEnd
  <1> QED BY <1>1, <1>2

LEMMA TunnelStep == TunnelInv /\ TunnelNext => TunnelInv'
  BY Asked, Listed, Stored, Around, Zenon DEF TunnelNext

LEMMA TunnelKept == TunnelInv /\ UNCHANGED tunnelVars => TunnelInv'
  BY DEF TunnelInv, tunnelVars, SharedPortOverlapped, Live

-----------------------------------------------------------------------------
(* A joined node that is offered for pinned placement has the label a      *)
(* pinned service selects it by, and two live tunnels share a local port   *)
(* only when their calls overlapped, for any number of hosts, joins, ports *)
(* and tunnel commands (labelJoinedNode, CreateTunnelSession).             *)
THEOREM HostsRecorded == MCSpec => []HostsAsRecorded
  <1> DEFINE Inv == NodesInv /\ TunnelInv
  <1>1. MCInit => Inv  BY NodesStart, TunnelStart DEF MCInit
  <1>2. Inv /\ [MCNext]_mcVars => Inv'
    <2> SUFFICES ASSUME Inv, [MCNext]_mcVars PROVE Inv'
      OBVIOUS
    <2>1. CASE UNCHANGED nodesVars /\ UNCHANGED tunnelVars  BY <2>1, NodesKept, TunnelKept
    <2>2. CASE NodesPart  BY <2>2, NodesStep, TunnelKept DEF NodesPart
    <2>3. CASE TunnelsPart  BY <2>3, NodesKept, TunnelStep DEF TunnelsPart
    <2>4. CASE BootstrapPart \/ InventoryPart \/ ManifestsPart \/ DomainsPart
      BY <2>1, <2>4, Zenon DEF BootstrapPart, InventoryPart, ManifestsPart, DomainsPart
    <2>5. CASE UNCHANGED mcVars  BY <2>1, <2>5 DEF mcVars, parts
    <2> QED BY <2>2, <2>3, <2>4, <2>5, Zenon DEF MCNext
  <1>3. Inv => HostsAsRecorded  BY NodesAgree DEF HostsAsRecorded, TunnelInv
  <1> QED BY <1>1, <1>2, <1>3, PTL DEF MCSpec

-----------------------------------------------------------------------------
(* Services.  A deployment is closed under dependencies, and saving the     *)
(* services of a repository keeps the internal ones.                       *)

(* The services a selection reaches, one round of dependencies at a time.  *)
GrownUpTo(all, selected, f) ==
    f = [n \in 0..Cardinality(all) |->
            IF n = 0 THEN {r \in all : r.id \in selected}
            ELSE f[n - 1] \cup DependsOn(all, f[n - 1])]

LEMMA GrownExists ==
    ASSUME NEW all, IsFiniteSet(all), NEW selected
    PROVE  \E f : GrownUpTo(all, selected, f)
<1>1. PICK N \in Nat : N = Cardinality(all) BY FS_CardinalityType
<1>2. PICK asked \in SUBSET all : asked = {r \in all : r.id \in selected} OBVIOUS
<1> DEFINE F == [p \in (1..N) \X SUBSET all |-> p[2] \cup DependsOn(all, p[2])]
<1>3. F \in [(1..N) \X SUBSET all -> SUBSET all] BY DEF DependsOn, Internals
<1>4. PICK g : Iterates(g, N, SUBSET all, asked, F)
  <2> HIDE DEF F
  <2> QED BY <1>3, Recursion
<1>5. g \in [0..N -> SUBSET all] /\ g[0] = asked /\ \A i \in 1..N : g[i] = F[<<i, g[i - 1]>>]
  BY <1>4 DEF Iterates
<1>6. ASSUME NEW i \in 1..N PROVE g[i] = g[i - 1] \cup DependsOn(all, g[i - 1])
  <2>1. i - 1 \in 0..N OBVIOUS
  <2>2. PICK h \in SUBSET all : h = g[i - 1] BY <1>5, <2>1
  <2>3. <<i, h>> \in (1..N) \X SUBSET all OBVIOUS
  <2>4. F[<<i, h>>] = h \cup DependsOn(all, h) BY <2>3
  <2> HIDE DEF F
  <2> QED BY ONLY i \in 1..N, <1>5, <2>2, <2>4
<1>7. \A n \in 0..N : n = 0 \/ n \in 1..N OBVIOUS
<1>8. \A n \in 0..N : g[n] = IF n = 0 THEN asked ELSE g[n - 1] \cup DependsOn(all, g[n - 1])
  BY ONLY <1>5, <1>6, <1>7
<1>9. g = [n \in 0..N |-> IF n = 0 THEN asked ELSE g[n - 1] \cup DependsOn(all, g[n - 1])]
  BY ONLY <1>5, <1>8
<1> QED BY <1>1, <1>2, <1>9 DEF GrownUpTo

LEMMA GrownAre ==
    ASSUME NEW all, NEW selected
    PROVE  filterServicesForDeployment(all, selected) =
               IF selected = {} THEN all
               ELSE (CHOOSE f : GrownUpTo(all, selected, f))[Cardinality(all)]
BY DEF filterServicesForDeployment, GrownUpTo

(* What a deployment of the selected services contains.                    *)
ClosedChoice(all, selected, chosen) ==
    LET asked == {r \in all : selected = {} \/ r.id \in selected}
    IN  /\ asked \subseteq chosen /\ chosen \subseteq all
        /\ \A t \in DependsOn(all, chosen) : t \in chosen
        /\ \A t \in chosen \ asked : t \in DependsOn(all, chosen)

LEMMA DependsGrow ==
    ASSUME NEW all, NEW a, NEW b, a \subseteq b
    PROVE  DependsOn(all, a) \subseteq DependsOn(all, b) /\ DependsOn(all, a) \subseteq all
BY DEF DependsOn, Internals

LEMMA ChosenClosed ==
    ASSUME NEW all, IsFiniteSet(all), NEW selected
    PROVE  ClosedChoice(all, selected, filterServicesForDeployment(all, selected))
<1>1. CASE selected = {}
  <2>1. filterServicesForDeployment(all, selected) = all BY <1>1, GrownAre
  <2> QED BY <1>1, <2>1 DEF ClosedChoice, DependsOn, Internals
<1>2. CASE selected # {}
  <2>1. PICK f : f = CHOOSE g : GrownUpTo(all, selected, g) OBVIOUS
  <2>2. GrownUpTo(all, selected, f) BY <2>1, GrownExists
  <2>3. PICK N \in Nat : N = Cardinality(all) BY FS_CardinalityType
  <2>4. PICK asked : asked = {r \in all : selected = {} \/ r.id \in selected} OBVIOUS
  <2>5. asked = {r \in all : r.id \in selected} BY <1>2, <2>4
  <2>6. f[0] = asked /\ \A n \in 1..N : f[n] = f[n - 1] \cup DependsOn(all, f[n - 1])
    <3>1. PICK h : h = f OBVIOUS
    <3>2. f = [n \in 0..N |-> IF n = 0 THEN asked ELSE h[n - 1] \cup DependsOn(all, h[n - 1])]
      BY <2>2, <2>3, <2>5, <3>1, Zenon DEF GrownUpTo
    <3>3. f[0] = asked /\ \A n \in 1..N : f[n] = h[n - 1] \cup DependsOn(all, h[n - 1]) BY <3>2
    <3> QED BY <3>1, <3>3, Zenon
  (* What is in a round was asked for or reached in it. *)
  <2> DEFINE Sound(n) ==
          /\ asked \subseteq f[n] /\ f[n] \subseteq all
          /\ \A t \in f[n] \ asked : t \in DependsOn(all, f[n])
  <2>7. \A n \in 0..N : Sound(n)
    <3> DEFINE T == {n \in 0..N : ~Sound(n)}
    <3>1. T \in SUBSET Nat OBVIOUS
    <3> SUFFICES ASSUME T # {} PROVE FALSE OBVIOUS
    <3>2. PICK n \in T : \A m \in T : n <= m
      <4> HIDE DEF T
      <4> QED BY <3>1, LeastNat
    <3>3. n # 0
      <4>1. Sound(0) BY <2>5, <2>6
      <4> QED BY <4>1
    <3>4. n \in 1..N /\ n - 1 \in 0..N /\ n - 1 \notin T BY <3>2, <3>3
    <3>5. Sound(n - 1) BY <3>4
    <3>6. PICK before : before = f[n - 1] OBVIOUS
    <3>7. f[n] = before \cup DependsOn(all, before) BY <2>6, <3>4, <3>6
    <3>8. DependsOn(all, before) \subseteq DependsOn(all, f[n]) /\ DependsOn(all, before) \subseteq all
      BY <3>7, DependsGrow
    <3>9. Sound(n) BY <3>5, <3>6, <3>7, <3>8
    <3> QED BY <3>2, <3>9
  (* A round that adds nothing is the last one. *)
  <2> DEFINE Done(n) == DependsOn(all, f[n]) \subseteq f[n]
  <2>8. Done(N)
    <3> DEFINE T == {n \in 0..N : ~(Done(n) \/ (IsFiniteSet(f[n]) /\ Cardinality(f[n]) >= n))}
    <3>0. T \in SUBSET Nat OBVIOUS
    <3>1. T = {}
      <4> SUFFICES ASSUME T # {} PROVE FALSE OBVIOUS
      <4>1. PICK n \in T : \A m \in T : n <= m
        <5> HIDE DEF T
        <5> QED BY <3>0, LeastNat
      <4>2. f[n] \subseteq all /\ IsFiniteSet(f[n]) /\ Cardinality(f[n]) \in Nat
        BY <2>7, FS_Subset, FS_CardinalityType
      <4>3. n # 0 BY <4>2
      <4>4. n \in 1..N /\ n - 1 \in 0..N /\ n - 1 \notin T BY <4>1, <4>3
      <4>5. PICK before : before = f[n - 1] OBVIOUS
      <4>6. f[n] = before \cup DependsOn(all, before) BY <2>6, <4>4, <4>5
      <4>7. Done(n - 1) \/ (IsFiniteSet(before) /\ Cardinality(before) >= n - 1) BY <4>4, <4>5
      <4>8. CASE Done(n - 1)
        <5>1. f[n] = before BY <4>5, <4>6, <4>8
        <5> QED BY <4>5, <4>8, <5>1
      <4>9. CASE ~Done(n - 1)
        <5>1. before \subseteq f[n] /\ f[n] # before BY <4>5, <4>6, <4>9
        <5>2. IsFiniteSet(before) /\ Cardinality(before) <= Cardinality(f[n])
              /\ Cardinality(before) # Cardinality(f[n])
          BY <4>2, <5>1, FS_Subset
        <5>3. Cardinality(before) \in Nat BY <5>2, FS_CardinalityType
        <5>4. Cardinality(f[n]) >= n
          <6> HIDE DEF Done
          <6> QED BY <4>2, <4>4, <4>7, <4>9, <5>2, <5>3
        <5> QED BY <4>2, <5>4
      <4> QED BY <4>8, <4>9
    <3>2. N \in 0..N OBVIOUS
    <3>3. Done(N) \/ (IsFiniteSet(f[N]) /\ Cardinality(f[N]) >= N)
      <4> HIDE DEF Done
      <4> QED BY <3>1, <3>2
    <3>4. CASE IsFiniteSet(f[N]) /\ Cardinality(f[N]) >= N
      <4>1. f[N] \subseteq all BY <2>7, <3>2
      <4>2. Cardinality(f[N]) <= Cardinality(all) /\ Cardinality(f[N]) \in Nat
            /\ (Cardinality(all) = Cardinality(f[N]) => all = f[N])
        BY <3>4, <4>1, FS_Subset, FS_CardinalityType
      <4>3. f[N] = all BY <2>3, <3>4, <4>2
      <4> QED BY <4>3, DependsGrow
    <3> QED BY <3>3, <3>4
  <2>9. N \in 0..N OBVIOUS
  <2>10. Sound(N)
    <3> HIDE DEF Sound
    <3> QED BY <2>7, <2>9
  <2>11. filterServicesForDeployment(all, selected) = f[N]
    BY <1>2, <2>1, <2>3, GrownAre, Zenon
  <2> QED BY <2>4, <2>8, <2>10, <2>11 DEF ClosedChoice
<1> QED BY <1>1, <1>2

(* A deployment compiled from the rows by identifiers read earlier.        *)
CompiledSound(d) ==
    /\ ClosedChoice(d.from, d.asked, d.services)
    /\ d.bindings = buildDependencyBindings(d.services)

LEMMA CompiledClosed == CompiledSound(compiled) => DeploymentClosed
<1> SUFFICES ASSUME CompiledSound(compiled) PROVE DeploymentClosed OBVIOUS
<1>1. PICK d : d = compiled OBVIOUS
<1>2. ClosedChoice(d.from, d.asked, d.services) /\ d.bindings = buildDependencyBindings(d.services)
  BY <1>1 DEF CompiledSound
<1>3. PICK asked : asked = {r \in d.from : d.asked = {} \/ r.id \in d.asked} OBVIOUS
<1>4. /\ asked \subseteq d.services /\ d.services \subseteq d.from
      /\ \A t \in DependsOn(d.from, d.services) : t \in d.services
      /\ \A t \in d.services \ asked : t \in DependsOn(d.from, d.services)
  BY <1>2, <1>3 DEF ClosedChoice
<1>5. ASSUME NEW s \in d.services, NEW t \in Internals(d.from), t.name \in s.deps
      PROVE  t \in d.services /\ [from |-> s, to |-> t] \in d.bindings
  <2>1. t \in d.services BY <1>4, <1>5 DEF DependsOn
  <2>2. t \in Internals(d.services) BY <1>5, <2>1, Zenon DEF Internals
  <2>3. PICK b : b = [from |-> s, to |-> t] OBVIOUS
  <2>4. b \in [from : d.services, to : Internals(d.services)] /\ b.to = t /\ b.from = s BY <2>2, <2>3
  <2>5. b \in d.bindings BY <1>2, <1>5, <2>4, Zenon DEF buildDependencyBindings
  <2> QED BY <2>1, <2>3, <2>5
<1>6. ASSUME NEW t \in d.services \ asked
      PROVE  t.internal /\ \E s \in d.services : t.name \in s.deps
  <2>1. t \in DependsOn(d.from, d.services) BY <1>4
  <2> QED BY <2>1, Zenon DEF DependsOn, Internals
<1> QED BY <1>1, <1>3, <1>4, <1>5, <1>6, Zenon DEF DeploymentClosed

(* Calls under way: what a save will insert is finite, and one that says   *)
(* nothing of internal services brings the internal rows it read.          *)
Sane(call) ==
    call.pc \in {"delete", "insert"} =>
        IsFiniteSet(call.new) /\ (call.keep => Internals(call.new) = call.seen)

InvInv ==
    /\ IsFiniteSet(rows)
    /\ invCalls = [c \in InvCalls |-> invCalls[c]] /\ \A c \in InvCalls : Sane(invCalls[c])
    /\ CompiledSound(compiled)

LEMMA InternalsOf ==
    ASSUME NEW a, NEW b
    PROVE  Internals(a \cup b) = Internals(a) \cup Internals(b) /\ Internals(a) \subseteq a
BY DEF Internals

LEMMA CallTurns ==
    ASSUME InvInv, NEW c \in InvCalls, NEW call, Sane(call), invCalls' = [invCalls EXCEPT ![c] = call]
    PROVE  invCalls' = [d \in InvCalls |-> invCalls'[d]] /\ \A d \in InvCalls : Sane(invCalls'[d])
<1>1. invCalls = [d \in InvCalls |-> invCalls[d]] /\ \A d \in InvCalls : Sane(invCalls[d]) BY DEF InvInv
<1>2. invCalls' = [d \in InvCalls |-> IF d = c THEN call ELSE invCalls[d]] BY ONLY <1>1, invCalls' = [invCalls EXCEPT ![c] = call]
<1> QED BY ONLY <1>1, <1>2, Sane(call)

LEMMA InvInvInit == InvInit => InvInv
<1> SUFFICES ASSUME InvInit PROVE InvInv OBVIOUS
<1>1. IsFiniteSet(rows) BY FS_EmptySet DEF InvInit
<1>2. invCalls = [c \in InvCalls |-> IdleCall] BY DEF InvInit
<1>3. Sane(IdleCall) BY DEF Sane, IdleCall
<1>4. invCalls = [c \in InvCalls |-> invCalls[c]] /\ \A c \in InvCalls : Sane(invCalls[c])
  BY <1>2, <1>3, Zenon
<1>5. CompiledSound(compiled)
  BY DEF InvInit, CompiledSound, ClosedChoice, DependsOn, Internals, buildDependencyBindings
<1> QED BY <1>1, <1>4, <1>5 DEF InvInv

(* The rows made of a payload. *)
LEMMA RowsFinite ==
    ASSUME NEW payload \in SUBSET Offered, NEW save
    PROVE  /\ \A items \in buildConfiguredProjectServiceModels(payload, save) : IsFiniteSet(items)
           /\ IsFiniteSet(compileProjectServices(payload, save))
<1>1. IsFiniteSet(payload) BY OfferedAssumption, FS_Subset
<1> DEFINE f == [i \in payload |-> normalizeConfiguredProjectService(i, save)]
           g == [i \in payload |-> [name |-> i.name, internal |-> FALSE, deps |-> {}, port |-> 0,
                                    id |-> <<i.name, save>>, secret |-> 0]]
<1>2. IsFiniteSet({f[i] : i \in payload})
  <2>1. f = [i \in payload |-> f[i]] OBVIOUS
  <2> HIDE DEF f
  <2> QED BY <1>1, <2>1, ImageFinite
<1>3. IsFiniteSet({g[i] : i \in payload})
  <2>1. g = [i \in payload |-> g[i]] OBVIOUS
  <2> HIDE DEF g
  <2> QED BY <1>1, <2>1, ImageFinite
<1>4. {f[i] : i \in payload} = {normalizeConfiguredProjectService(i, save) : i \in payload} OBVIOUS
<1>5. {g[i] : i \in payload} = compileProjectServices(payload, save) BY DEF compileProjectServices
<1>6. \A items \in buildConfiguredProjectServiceModels(payload, save) :
          items = {normalizeConfiguredProjectService(i, save) : i \in payload}
  BY DEF buildConfiguredProjectServiceModels
<1> HIDE DEF f, g
<1> QED BY <1>2, <1>3, <1>4, <1>5, <1>6

LEMMA ManagedRowsFinite ==
    ASSUME NEW names \in SUBSET Managed, NEW save
    PROVE  IsFiniteSet({managedInternalServiceToService(n, save) : n \in names})
<1>1. IsFiniteSet(Managed)
  <2>1. IsFiniteSet({"lazyops-internal-postgres"}) BY FS_Singleton
  <2>2. IsFiniteSet({"lazyops-internal-postgres"} \cup {"lazyops-internal-redis"}) BY <2>1, FS_AddElement
  <2>3. Managed = {"lazyops-internal-postgres"} \cup {"lazyops-internal-redis"} BY DEF Managed
  <2> QED BY <2>2, <2>3
<1>2. IsFiniteSet(names) BY <1>1, FS_Subset
<1> DEFINE f == [n \in names |-> managedInternalServiceToService(n, save)]
<1>3. IsFiniteSet({f[n] : n \in names})
  <2>1. f = [n \in names |-> f[n]] OBVIOUS
  <2> HIDE DEF f
  <2> QED BY <1>2, <2>1, ImageFinite
<1> QED BY <1>3

(* A payload with internal services keeps none it did not name. *)
LEMMA SaveStarts ==
    ASSUME InvInv, NEW c \in InvCalls, ConfigureServices(c) \/ ConfigureInternal(c) \/ CompileYAML(c)
    PROVE  InvInv'
<1>1. PICK new, keep, seen, scope :
          /\ invCalls' = [invCalls EXCEPT ![c] =
                 [pc |-> "delete", scope |-> scope, keep |-> keep, seen |-> seen, new |-> new]]
          /\ UNCHANGED <<rows, compiled>>
          /\ IsFiniteSet(new) /\ (keep => Internals(new) = seen)
  <2>1. CASE ConfigureServices(c)
    <3>0. PICK payload \in SUBSET Offered : \E items \in buildConfiguredProjectServiceModels(payload, saves + 1) :
            StartCall(c, [pc |-> "delete", scope |-> "all", keep |-> Internals(items) = {},
                seen |-> Internals(rows), new |-> items \cup
                    (IF Internals(items) = {} THEN listManagedInternalProjectServices ELSE {})])
      BY <2>1 DEF ConfigureServices
    <3>1. PICK items \in buildConfiguredProjectServiceModels(payload, saves + 1) :
            StartCall(c, [pc |-> "delete", scope |-> "all", keep |-> Internals(items) = {},
                seen |-> Internals(rows), new |-> items \cup
                    (IF Internals(items) = {} THEN listManagedInternalProjectServices ELSE {})])
      BY <3>0
    <3>2. PICK new : new = items \cup (IF Internals(items) = {} THEN listManagedInternalProjectServices ELSE {})
      OBVIOUS
    <3>3. IsFiniteSet(items) BY RowsFinite
    <3>4. IsFiniteSet(Internals(rows)) /\ IsFiniteSet({}) BY InternalsOf, FS_Subset, FS_EmptySet DEF InvInv
    <3>5. IsFiniteSet(new) BY <3>2, <3>3, <3>4, FS_Union DEF listManagedInternalProjectServices
    <3>6. Internals(items) = {} => Internals(new) = Internals(rows)
      <4>1. Internals(Internals(rows)) = Internals(rows) BY Zenon DEF Internals
      <4>2. Internals(items \cup Internals(rows)) = Internals(items) \cup Internals(Internals(rows))
        BY InternalsOf
      <4> QED BY <3>2, <4>1, <4>2 DEF listManagedInternalProjectServices
    <3> QED BY <2>1, <3>1, <3>2, <3>5, <3>6, Zenon DEF ConfigureServices, StartCall
  <2>2. CASE ConfigureInternal(c)
    <3>1. PICK names \in SUBSET Managed :
            StartCall(c, [pc |-> "delete", scope |-> "internal", keep |-> FALSE, seen |-> {},
                     new |-> {managedInternalServiceToService(n, saves + 1) : n \in names}])
      BY <2>2 DEF ConfigureInternal
    <3>2. IsFiniteSet({managedInternalServiceToService(n, saves + 1) : n \in names})
      BY ManagedRowsFinite
    <3> QED BY <2>2, <3>1, <3>2, Zenon DEF ConfigureInternal, StartCall
  <2>3. CASE CompileYAML(c)
    <3>1. PICK payload \in SUBSET {i \in Offered : ~i.internal} :
            StartCall(c, [pc |-> "delete", scope |-> "all", keep |-> FALSE, seen |-> {},
                     new |-> compileProjectServices(payload, saves + 1)])
      BY <2>3 DEF CompileYAML
    <3>2. payload \in SUBSET Offered OBVIOUS
    <3>3. IsFiniteSet(compileProjectServices(payload, saves + 1)) BY <3>2, RowsFinite
    <3> QED BY <2>3, <3>1, <3>3, Zenon DEF CompileYAML, StartCall
  <2> QED BY <2>1, <2>2, <2>3
<1>2. PICK call : call = [pc |-> "delete", scope |-> scope, keep |-> keep, seen |-> seen, new |-> new]
  OBVIOUS
<1>3. Sane(call) BY <1>1, <1>2 DEF Sane
<1> QED BY <1>1, <1>2, <1>3, CallTurns DEF InvInv, CompiledSound, ClosedChoice

LEMMA SaveEnds ==
    ASSUME InvInv, NEW c \in InvCalls, ReplaceDelete(c) \/ ReplaceInsert(c)
    PROVE  InvInv'
<1>1. Sane(invCalls[c]) BY DEF InvInv
<1>2. CASE ReplaceDelete(c)
  <2>1. PICK call : call = [pc |-> "insert", keep |-> invCalls[c].keep, seen |-> invCalls[c].seen,
             new |-> invCalls[c].new,
             gone |-> IF invCalls[c].scope = "all" THEN rows ELSE Internals(rows)]
    OBVIOUS
  <2>2. invCalls' = [invCalls EXCEPT ![c] = call] /\ UNCHANGED <<rows, compiled>>
        /\ invCalls[c].pc = "delete"
    BY <1>2, <2>1 DEF ReplaceDelete
  <2>3. Sane(call) BY <1>1, <2>1, <2>2 DEF Sane
  <2> QED BY <2>2, <2>3, CallTurns DEF InvInv, CompiledSound, ClosedChoice
<1>3. CASE ReplaceInsert(c)
  <2>1. invCalls' = [invCalls EXCEPT ![c] = IdleCall] /\ UNCHANGED compiled
        /\ invCalls[c].pc = "insert"
        /\ rows' \in {(rows \ invCalls[c].gone) \cup invCalls[c].new, rows}
    BY <1>3 DEF ReplaceInsert
  <2>2. IsFiniteSet(rows \ invCalls[c].gone) /\ IsFiniteSet(invCalls[c].new) /\ IsFiniteSet(rows)
    BY <1>1, <2>1, FS_Subset DEF Sane, InvInv
  <2>3. IsFiniteSet(rows') BY <2>1, <2>2, FS_Union
  <2>4. Sane(IdleCall) BY DEF Sane, IdleCall
  <2> QED BY <2>1, <2>3, <2>4, CallTurns DEF InvInv, CompiledSound, ClosedChoice
<1> QED BY <1>2, <1>3

LEMMA DeployKeeps ==
    ASSUME InvInv, NEW c \in InvCalls,
           ResolveService(c) \/ DeployAll(c) \/ CreateDeployment(c) \/ NoServices(c)
    PROVE  InvInv'
<1>1. Sane(IdleCall) BY DEF Sane, IdleCall
<1>2. CASE ResolveService(c) \/ DeployAll(c)
  <2>1. PICK selected : invCalls' = [invCalls EXCEPT ![c] = [pc |-> "create", selected |-> selected]]
    BY <1>2 DEF ResolveService, DeployAll, StartCall
  <2>2. PICK call : call = [pc |-> "create", selected |-> selected] OBVIOUS
  <2>3. Sane(call) BY <2>2 DEF Sane
  <2>4. UNCHANGED <<rows, compiled>> BY <1>2 DEF ResolveService, DeployAll
  <2> QED BY <2>1, <2>2, <2>3, <2>4, CallTurns DEF InvInv, CompiledSound, ClosedChoice
<1>3. CASE CreateDeployment(c)
  <2>1. PICK chosen : chosen = filterServicesForDeployment(rows, invCalls[c].selected) OBVIOUS
  <2>2. compiled' = [from |-> rows, asked |-> invCalls[c].selected, services |-> chosen,
                     bindings |-> buildDependencyBindings(chosen)]
        /\ invCalls' = [invCalls EXCEPT ![c] = IdleCall] /\ UNCHANGED rows
    BY <1>3, <2>1 DEF CreateDeployment
  <2>3. ClosedChoice(rows, invCalls[c].selected, chosen) BY <2>1, ChosenClosed DEF InvInv
  <2>4. CompiledSound(compiled') BY <2>2, <2>3 DEF CompiledSound
  <2>5. CompiledSound(compiled)'
    BY <2>4 DEF CompiledSound, ClosedChoice, DependsOn, Internals, buildDependencyBindings
  <2> QED BY <1>1, <2>2, <2>5, CallTurns DEF InvInv
<1>4. CASE NoServices(c)
  <2>1. invCalls' = [invCalls EXCEPT ![c] = IdleCall] /\ UNCHANGED <<rows, compiled>>
    BY <1>4 DEF NoServices
  <2> QED BY <1>1, <2>1, CallTurns DEF InvInv, CompiledSound, ClosedChoice
<1> QED BY <1>2, <1>3, <1>4

LEMMA InvInvNext == InvInv /\ [InvNext]_invVars => InvInv'
<1> SUFFICES ASSUME InvInv, [InvNext]_invVars PROVE InvInv' OBVIOUS
<1>1. CASE InvNext BY <1>1, SaveStarts, SaveEnds, DeployKeeps DEF InvNext
<1>2. CASE UNCHANGED invVars BY <1>2 DEF invVars, InvInv, CompiledSound, ClosedChoice
<1> QED BY <1>1, <1>2

LEMMA SaveKeeps == InvInv /\ [InvNext]_invVars => RepoSaveKeepsInternals
<1> SUFFICES ASSUME InvInv, [InvNext]_invVars, NEW c \in InvCalls,
                    invCalls[c].pc = "insert", invCalls'[c] = IdleCall,
                    invCalls[c].keep, Internals(rows) = invCalls[c].seen
             PROVE  Internals(rows') = Internals(rows)
  BY DEF RepoSaveKeepsInternals
<1>1. rows' = rows \/ ReplaceInsert(c)
  <2>1. CASE UNCHANGED invVars BY <2>1 DEF invVars
  <2>2. ASSUME NEW d \in InvCalls, ReplaceInsert(d), d # c PROVE FALSE
    <3>1. invCalls = [e \in InvCalls |-> invCalls[e]] /\ invCalls' = [invCalls EXCEPT ![d] = IdleCall]
      BY <2>2 DEF InvInv, ReplaceInsert
    <3>2. invCalls'[c] = invCalls[c] BY ONLY <3>1, c \in InvCalls, d # c
    <3> QED BY <3>2 DEF IdleCall
  <2>3. CASE InvNext
    BY <2>2, <2>3 DEF InvNext, ConfigureServices, ConfigureInternal, CompileYAML, ReplaceDelete,
                      ResolveService, DeployAll, CreateDeployment, NoServices
  <2> QED BY <2>1, <2>3
<1>2. CASE ReplaceInsert(c)
  <2>1. rows' \in {(rows \ invCalls[c].gone) \cup invCalls[c].new, rows} BY <1>2 DEF ReplaceInsert
  <2>2. Internals(invCalls[c].new) = Internals(rows) BY Zenon DEF InvInv, Sane
  <2>3. Internals(rows \ invCalls[c].gone) \subseteq Internals(rows) BY Zenon DEF Internals
  <2>4. Internals((rows \ invCalls[c].gone) \cup invCalls[c].new)
        = Internals(rows \ invCalls[c].gone) \cup Internals(invCalls[c].new)
    BY InternalsOf
  <2> QED BY <2>1, <2>2, <2>3, <2>4
<1> QED BY <1>1, <1>2

(* ConfigureServices and filterServicesForDeployment: a deployment takes   *)
(* along all that the services asked for can reach, through any number of  *)
(* internal services, and nothing else; and a save that says nothing of    *)
(* internal services leaves them as they are.                              *)
THEOREM NothingLost == InvSpec => ServicesKept
<1>1. InvInit => InvInv BY InvInvInit
<1>2. InvInv /\ [InvNext]_invVars => InvInv' BY InvInvNext
<1>3. InvInv /\ [InvNext]_invVars => RepoSaveKeepsInternals BY SaveKeeps
<1>4. InvInv => DeploymentClosed BY CompiledClosed DEF InvInv
<1> QED BY <1>1, <1>2, <1>3, <1>4, PTL DEF InvSpec, ServicesKept

-----------------------------------------------------------------------------
(* Bootstrap.  A binding suits the mode it is of, and no call that chose a *)
(* target writes another.                                                  *)

HistoryStatus == DeploymentStatusSet \cup {"succeeded"}
HistoryRev == RevisionStatus \cup {"none"}
HistoryRow == [kind : {"build", "deployment"}, status : HistoryStatus, rev : HistoryRev]
Authors == {"hand", "lock", "user", "inventory"}
Binding == [ref : {"prod", "stage", AutoPrimary}, mode : Modes, target : Targets, by : Authors]

(* Calls under way: one that is about to write its binding has chosen a    *)
(* target that suits its mode.                                             *)
Failing == [pc : {"failrev", "faildep"}, at : Nat]
Starting == [pc : {"link", "bindings"}, cmd : Commands]
Choosing == [pc : {"inventory"}, cmd : Commands, seen : BOOLEAN]
Writing == {w \in [pc : {"upsert"}, mode : Modes, target : Targets, by : Authors] :
                Fits(w.mode, KindOf[w.target])}
CallStates == {Idle} \cup Failing \cup Starting \cup Choosing \cup Writing

BootInv ==
    /\ bindings \in Seq(Binding) /\ BindingsExecutable
    /\ history \in Seq(HistoryRow)
    /\ calls \in [BootCalls -> CallStates]

LEMMA Kinds ==
    /\ \A t \in ToSet(Clusters) : t \in Targets /\ KindOf[t] = "cluster"
    /\ \A t \in ToSet(Meshes) : t \in Targets /\ KindOf[t] = "mesh"
    /\ \A t \in ToSet(Instances) : t \in Targets /\ KindOf[t] = "instance"
    /\ "none" \notin Targets
    /\ ToSet(Meshes \o Instances) = ToSet(Meshes) \cup ToSet(Instances)
<1>1. ToSet(Clusters) = {"c1", "c2"} /\ ToSet(Meshes) = {"m1"} /\ ToSet(Instances) = {"i1"}
  BY DEF ToSet, Clusters, Meshes, Instances
<1>2. Targets = {"c1", "c2", "m1", "i1"} BY <1>1 DEF Targets
<1>3. PICK both : both = Meshes \o Instances OBVIOUS
<1>4. DOMAIN both = 1..2 /\ both[1] = "m1" /\ both[2] = "i1"
  <2>1. Meshes \in Seq({"m1", "i1"}) /\ Instances \in Seq({"m1", "i1"})
        /\ Len(Meshes) = 1 /\ Len(Instances) = 1 /\ Meshes[1] = "m1" /\ Instances[1] = "i1"
    BY DEF Meshes, Instances
  <2> QED BY ONLY <1>3, <2>1, ConcatProperties
<1>5. ToSet(both) = {"m1", "i1"} BY <1>4 DEF ToSet
<1> QED BY <1>1, <1>2, <1>3, <1>5 DEF KindOf

LEMMA FirstListed ==
    ASSUME NEW inv, NEW order, NEW n \in Nat, DOMAIN order = 1..n
    PROVE  firstHealthy(inv, order) \in {"none"} \cup ToSet(order)
<1> DEFINE up == {i \in DOMAIN order : inv[order[i]] = "up"}
<1>1. CASE up = {} BY <1>1 DEF firstHealthy
<1>2. CASE up # {}
  <2>1. up \in SUBSET Nat OBVIOUS
  <2>2. \E i \in up : \A j \in up : i <= j
    <3> HIDE DEF up
    <3> QED BY <1>2, <2>1, LeastNat
  <2>3. PICK i : i = CHOOSE k \in up : \A j \in up : k <= j OBVIOUS
  <2>4. i \in up
    <3> HIDE DEF up
    <3> QED BY <2>2, <2>3
  <2>5. firstHealthy(inv, order) = order[i] BY <1>2, <2>3, Zenon DEF firstHealthy
  <2> QED BY <2>4, <2>5 DEF ToSet
<1> QED BY <1>1, <1>2

(* A target is only chosen for a mode that suits its kind. *)
LEMMA ChosenFits ==
    ASSUME NEW inv, NEW mode \in Modes, NEW prefer,
           chooseBindingTarget(inv, mode, prefer) # "none"
    PROVE  chooseBindingTarget(inv, mode, prefer) \in Targets
           /\ Fits(mode, KindOf[chooseBindingTarget(inv, mode, prefer)])
<1>1. PICK t : t = chooseBindingTarget(inv, mode, prefer) OBVIOUS
<1>2. DOMAIN Clusters = 1..2 /\ DOMAIN Meshes = 1..1 /\ DOMAIN Instances = 1..1
      /\ DOMAIN (Meshes \o Instances) = 1..2
  BY DEF Clusters, Meshes, Instances
<1>3. firstHealthy(inv, Clusters) \in {"none"} \cup ToSet(Clusters) BY <1>2, FirstListed
<1>4. firstHealthy(inv, Instances) \in {"none"} \cup ToSet(Instances) BY <1>2, FirstListed
<1>5. firstHealthy(inv, Meshes \o Instances) \in {"none"} \cup ToSet(Meshes) \cup ToSet(Instances)
  BY <1>2, FirstListed, Kinds
<1>6. CASE mode = "distributed-k3s"
  <2>1. t \in ToSet(Clusters) BY <1>1, <1>3, <1>6 DEF chooseBindingTarget, listed
  <2> QED BY <1>1, <1>6, <2>1, Kinds DEF Fits
<1>7. CASE mode = "distributed-mesh"
  <2>1. t \in ToSet(Meshes) \cup ToSet(Instances) BY <1>1, <1>5, <1>7 DEF chooseBindingTarget
  <2> QED BY <1>1, <1>7, <2>1, Kinds DEF Fits
<1>8. CASE mode = "standalone"
  <2>1. t \in ToSet(Instances) BY <1>1, <1>4, <1>8 DEF chooseBindingTarget
  <2> QED BY <1>1, <1>8, <2>1, Kinds DEF Fits
<1> QED BY <1>6, <1>7, <1>8 DEF Modes

LEMMA BootInvInit == BootInit => BootInv
<1> SUFFICES ASSUME BootInit PROVE BootInv OBVIOUS
<1>1. bindings = <<>> /\ history = <<>> /\ calls = [c \in BootCalls |-> Idle] BY DEF BootInit
<1>2. BindingsExecutable BY <1>1 DEF BindingsExecutable
<1> QED BY <1>1, <1>2 DEF BootInv, CallStates

LEMMA CallStep ==
    ASSUME calls \in [BootCalls -> CallStates], NEW c \in BootCalls, NEW new \in CallStates,
           calls' = [calls EXCEPT ![c] = new]
    PROVE  calls' \in [BootCalls -> CallStates]
BY Zenon

LEMMA BootstrapKeeps ==
    ASSUME BootInv, NEW c \in BootCalls,
           AutoBootstrap(c) \/ ensureRepoLink(c) \/ readBindings(c) \/ collectInventory(c)
    PROVE  BootInv'
<1>1. UNCHANGED <<bindings, history>> BY DEF AutoBootstrap, ensureRepoLink, readBindings, collectInventory
<1>2. calls \in [BootCalls -> CallStates] /\ calls[c] \in CallStates BY DEF BootInv
<1>3. \E new \in CallStates : calls' = [calls EXCEPT ![c] = new]
  <2>1. CASE AutoBootstrap(c)
    <3>1. PICK cmd \in Commands :
              calls' = [calls EXCEPT ![c] = [pc |-> IF cmd.by = "user" THEN "link" ELSE "bindings", cmd |-> cmd]]
      BY <2>1 DEF AutoBootstrap
    <3>2. [pc |-> IF cmd.by = "user" THEN "link" ELSE "bindings", cmd |-> cmd] \in Starting BY DEF Starting
    <3> QED BY <3>1, <3>2, Zenon DEF CallStates
  <2>2. CASE ensureRepoLink(c)
    <3>1. calls[c].pc = "link" /\ calls' = [calls EXCEPT ![c].pc = "bindings"] BY <2>2 DEF ensureRepoLink
    <3>2. calls[c] \in Starting
      BY <1>2, <3>1 DEF CallStates, Idle, Failing, Starting, Choosing, Writing
    <3>3. PICK new : new = [calls[c] EXCEPT !.pc = "bindings"] OBVIOUS
    <3>4. new \in Starting BY <3>2, <3>3 DEF Starting
    <3>5. calls' = [calls EXCEPT ![c] = new] BY <3>1, <3>3, Zenon
    <3> QED BY <3>4, <3>5, Zenon DEF CallStates
  <2>3. CASE readBindings(c)
    <3>1. calls[c].pc = "bindings" BY <2>3 DEF readBindings
    <3>2. calls[c] \in Starting
      BY <1>2, <3>1 DEF CallStates, Idle, Failing, Starting, Choosing, Writing
    <3>3. PICK new : new = IF AutoIndex(bindings) = {} /\ bindings # <<>> THEN Idle
                    ELSE [pc |-> "inventory", cmd |-> calls[c].cmd, seen |-> AutoIndex(bindings) # {}]
      OBVIOUS
    <3>4. calls[c].cmd \in Commands BY <3>2 DEF Starting
    <3>5. [pc |-> "inventory", cmd |-> calls[c].cmd, seen |-> AutoIndex(bindings) # {}] \in Choosing
      BY <3>4 DEF Choosing
    <3>6. new \in CallStates BY <3>3, <3>5, Zenon DEF CallStates
    <3>7. calls' = [calls EXCEPT ![c] = new] BY <2>3, <3>3, Zenon DEF readBindings
    <3> QED BY <3>6, <3>7
  <2>4. CASE collectInventory(c)
    <3>1. calls[c].pc = "inventory" BY <2>4 DEF collectInventory
    <3>2. calls[c] \in Choosing
      BY <1>2, <3>1 DEF CallStates, Idle, Failing, Starting, Choosing, Writing
    <3>3. PICK cmd \in Commands : cmd = calls[c].cmd BY <3>2 DEF Choosing
    <3>4. PICK mode : mode = inferBootstrapMode(cmd.lock) OBVIOUS
    <3>5. mode \in Modes BY <3>3, <3>4 DEF inferBootstrapMode, Commands, Modes
    <3>6. PICK target : target = chooseBindingTarget(inventory, mode, cmd.prefer) OBVIOUS
    <3>7. PICK by : by = IF cmd.lock # "none" THEN "lock" ELSE cmd.by OBVIOUS
    <3>8. by \in Authors BY <3>7 DEF Commands, Authors
    <3>9. PICK write : write = [pc |-> "upsert", mode |-> mode, target |-> target, by |-> by] OBVIOUS
    <3>10. PICK new : new = IF target = "none" THEN Idle ELSE write OBVIOUS
    <3>11. calls' = [calls EXCEPT ![c] = new]
      BY <2>4, <3>3, <3>4, <3>6, <3>7, <3>9, <3>10, Zenon DEF collectInventory
    <3>12. target # "none" => write \in Writing
      <4> SUFFICES ASSUME target # "none" PROVE write \in Writing OBVIOUS
      <4>1. target \in Targets /\ Fits(mode, KindOf[target]) BY <3>5, <3>6, ChosenFits
      <4>2. write \in [pc : {"upsert"}, mode : Modes, target : Targets, by : Authors]
            /\ write.mode = mode /\ write.target = target
        BY <3>5, <3>8, <3>9, <4>1
      <4> QED BY <4>1, <4>2, Zenon DEF Writing
    <3>13. new \in CallStates BY <3>10, <3>12, Zenon DEF CallStates
    <3> QED BY <3>11, <3>13
  <2> QED BY <2>1, <2>2, <2>3, <2>4
<1>4. calls' \in [BootCalls -> CallStates] BY <1>2, <1>3, CallStep
<1> QED BY <1>1, <1>4 DEF BootInv, BindingsExecutable

(* The automatic row is overwritten or added, and stays the only one. *)
LEMMA BindingKeeps == ASSUME BootInv, NEW c \in BootCalls, ensureBinding(c) PROVE BootInv'
<1>1. calls \in [BootCalls -> CallStates] /\ calls[c] \in CallStates BY DEF BootInv
<1>2. calls[c].pc = "upsert" /\ calls' = [calls EXCEPT ![c] = Idle] /\ UNCHANGED history
  BY DEF ensureBinding
<1>3. calls[c] \in Writing BY <1>1, <1>2 DEF CallStates, Idle, Failing, Starting, Choosing, Writing
<1>4. PICK row : row = [ref |-> AutoPrimary, mode |-> calls[c].mode, target |-> calls[c].target,
                        by |-> calls[c].by]
  OBVIOUS
<1>5. row \in Binding /\ row.ref = AutoPrimary /\ Fits(row.mode, KindOf[row.target])
  <2>1. calls[c] \in [pc : {"upsert"}, mode : Modes, target : Targets, by : Authors]
        /\ Fits(calls[c].mode, KindOf[calls[c].target])
    BY <1>3, Zenon DEF Writing
  <2>2. row.mode = calls[c].mode /\ row.target = calls[c].target /\ row.ref = AutoPrimary BY <1>4
  <2>3. row \in Binding BY <1>4, <2>1 DEF Binding
  <2> QED BY <2>1, <2>2, <2>3
<1>6. bindings \in Seq(Binding) /\ BindingsExecutable BY DEF BootInv
<1>7. (bindings \in Seq(Binding) /\ BindingsExecutable)'
  <2>1. CASE AutoIndex(bindings) # {}
    <3>1. bindings' = [i \in DOMAIN bindings |-> IF bindings[i].ref = AutoPrimary THEN row ELSE bindings[i]]
      BY <1>4, <2>1 DEF ensureBinding
    <3>2. bindings' \in Seq(Binding) /\ DOMAIN bindings' = DOMAIN bindings BY <1>5, <1>6, <3>1
    <3>3. \A i \in DOMAIN bindings : bindings'[i].ref = bindings[i].ref BY <1>5, <3>1
    <3>4. \A i \in DOMAIN bindings : bindings'[i] \in {row, bindings[i]} BY <3>1
    <3>5. BindingsExecutable' BY <1>5, <1>6, <3>2, <3>3, <3>4 DEF BindingsExecutable
    <3> QED BY <3>2, <3>5
  <2>2. CASE AutoIndex(bindings) = {}
    <3>1. bindings' = Append(bindings, row) BY <1>4, <2>2 DEF ensureBinding
    <3>2. \A i \in DOMAIN bindings : bindings[i].ref # AutoPrimary BY <2>2 DEF AutoIndex
    <3>3. bindings' \in Seq(Binding) /\ bindings'[Len(bindings) + 1] = row
          /\ DOMAIN bindings' = DOMAIN bindings \cup {Len(bindings) + 1}
          /\ \A i \in DOMAIN bindings : bindings'[i] = bindings[i] /\ i # Len(bindings) + 1
      BY <1>5, <1>6, <3>1
    <3>4. BindingsExecutable' BY <1>5, <1>6, <3>2, <3>3 DEF BindingsExecutable
    <3> QED BY <3>3, <3>4
  <2> QED BY <2>1, <2>2
<1>8. Idle \in CallStates BY DEF CallStates
<1>9. calls' \in [BootCalls -> CallStates] BY <1>1, <1>2, <1>8, CallStep
<1> QED BY <1>2, <1>7, <1>9 DEF BootInv

LEMMA CreateKeepsBindings == ASSUME BootInv, CreateBinding PROVE BootInv'
<1>1. PICK ref \in {"prod", "stage"}, mode \in Modes, target \in Targets :
          /\ \A i \in DOMAIN bindings : bindings[i].ref # ref
          /\ Fits(mode, KindOf[target])
          /\ bindings' = Append(bindings, [ref |-> ref, mode |-> mode, target |-> target, by |-> "hand"])
          /\ UNCHANGED <<history, calls>>
  BY DEF CreateBinding
<1>2. PICK row : row = [ref |-> ref, mode |-> mode, target |-> target, by |-> "hand"] OBVIOUS
<1>3. row \in Binding /\ row.ref = ref /\ row.mode = mode /\ row.target = target
  BY <1>2 DEF Binding, Authors
<1>4. bindings \in Seq(Binding) /\ BindingsExecutable BY DEF BootInv
<1>5. bindings' \in Seq(Binding) /\ bindings'[Len(bindings) + 1] = row
      /\ DOMAIN bindings' = DOMAIN bindings \cup {Len(bindings) + 1}
      /\ \A i \in DOMAIN bindings : bindings'[i] = bindings[i] /\ i # Len(bindings) + 1
  BY <1>1, <1>2, <1>3, <1>4
<1>6. BindingsExecutable' BY <1>1, <1>3, <1>4, <1>5 DEF BindingsExecutable
<1> QED BY <1>1, <1>5, <1>6 DEF BootInv

LEMMA HistoryKeeps ==
    ASSUME BootInv, UNCHANGED bindings, history' \in Seq(HistoryRow), calls' \in [BootCalls -> CallStates]
    PROVE  BootInv'
BY DEF BootInv, BindingsExecutable

LEMMA RowMoves ==
    ASSUME NEW h \in Seq(HistoryRow), NEW i, NEW s \in HistoryStatus, NEW r \in HistoryRev
    PROVE  /\ [h EXCEPT ![i].status = s] \in Seq(HistoryRow)
           /\ [h EXCEPT ![i].rev = r] \in Seq(HistoryRow)
           /\ [h EXCEPT ![i].status = s, ![i].rev = r] \in Seq(HistoryRow)
<1>1. ASSUME NEW g \in Seq(HistoryRow) PROVE [g EXCEPT ![i].status = s] \in Seq(HistoryRow)
  <2>1. \A row \in HistoryRow : [row EXCEPT !.status = s] \in HistoryRow BY DEF HistoryRow
  <2>2. CASE i \in DOMAIN g
    <3>0. PICK old \in HistoryRow : old = g[i] BY <2>2
    <3>1. PICK row \in HistoryRow : row = [g[i] EXCEPT !.status = s] BY <2>1, <3>0
    <3>2. [g EXCEPT ![i].status = s] = [g EXCEPT ![i] = row] BY <3>1, Zenon
    <3> QED BY <2>2, <3>2
  <2>3. CASE i \notin DOMAIN g
    <3>1. [g EXCEPT ![i].status = s] = g BY <2>3
    <3> QED BY <3>1
  <2> QED BY <2>2, <2>3
<1>2. ASSUME NEW g \in Seq(HistoryRow) PROVE [g EXCEPT ![i].rev = r] \in Seq(HistoryRow)
  <2>1. \A row \in HistoryRow : [row EXCEPT !.rev = r] \in HistoryRow BY DEF HistoryRow
  <2>2. CASE i \in DOMAIN g
    <3>0. PICK old \in HistoryRow : old = g[i] BY <2>2
    <3>1. PICK row \in HistoryRow : row = [g[i] EXCEPT !.rev = r] BY <2>1, <3>0
    <3>2. [g EXCEPT ![i].rev = r] = [g EXCEPT ![i] = row] BY <3>1, Zenon
    <3> QED BY <2>2, <3>2
  <2>3. CASE i \notin DOMAIN g
    <3>1. [g EXCEPT ![i].rev = r] = g BY <2>3
    <3> QED BY <3>1
  <2> QED BY <2>2, <2>3
<1>3. PICK g : g = [h EXCEPT ![i].status = s] OBVIOUS
<1>4. [h EXCEPT ![i].status = s, ![i].rev = r] = [g EXCEPT ![i].rev = r] BY <1>3, Zenon
<1> QED BY <1>1, <1>2, <1>3, <1>4

LEMMA DeployStep ==
    ASSUME BootInv, NEW c \in BootCalls, OneClickDeploy(c) \/ markOneClickRolloutFailed(c)
    PROVE  BootInv'
<1>1. calls \in [BootCalls -> CallStates] /\ calls[c] \in CallStates /\ history \in Seq(HistoryRow)
  BY DEF BootInv
<1>2. CASE OneClickDeploy(c)
  <2>1. PICK image \in BOOLEAN, outcome \in {"started", "pending", "failed"} :
          IF RepoServices # {} /\ ~image
          THEN enqueueOneClickRepoBuild /\ UNCHANGED calls
          ELSE /\ history' = Append(history, [kind |-> "deployment",
                      status |-> IF outcome = "started" THEN "running" ELSE "queued",
                      rev |-> IF outcome = "started" THEN "applying" ELSE "queued"])
               /\ calls' = IF outcome # "failed" THEN calls
                           ELSE [calls EXCEPT ![c] = [pc |-> "failrev", at |-> Len(history) + 1]]
    BY <1>2 DEF OneClickDeploy
  <2>2. \E row \in HistoryRow : history' = Append(history, row) \/ history' = history
    <3>1. [kind |-> "build", status |-> "queued", rev |-> "none"] \in HistoryRow BY DEF HistoryRow, HistoryStatus, HistoryRev, DeploymentStatusSet, RevisionStatus
    <3>2. [kind |-> "deployment", status |-> IF outcome = "started" THEN "running" ELSE "queued",
           rev |-> IF outcome = "started" THEN "applying" ELSE "queued"] \in HistoryRow
      BY DEF HistoryRow, HistoryStatus, HistoryRev, DeploymentStatusSet, RevisionStatus
    <3> QED BY <2>1, <3>1, <3>2 DEF enqueueOneClickRepoBuild
  <2>3. history' \in Seq(HistoryRow) BY <1>1, <2>2
  <2>4. PICK failing : failing = [pc |-> "failrev", at |-> Len(history) + 1] OBVIOUS
  <2>5. failing \in CallStates
    <3>1. failing \in Failing BY <1>1, <2>4 DEF Failing
    <3> QED BY <3>1, Zenon DEF CallStates
  <2>6. calls' = calls \/ calls' = [calls EXCEPT ![c] = failing] BY <2>1, <2>4
  <2>7. calls' \in [BootCalls -> CallStates] BY <1>1, <2>5, <2>6, CallStep
  <2> QED BY <1>2, <2>3, <2>7, HistoryKeeps DEF OneClickDeploy
<1>3. CASE markOneClickRolloutFailed(c)
  <2>1. calls[c].pc \in {"failrev", "faildep"} BY <1>3 DEF markOneClickRolloutFailed
  <2>2. calls[c] \in Failing
    BY <1>1, <2>1 DEF CallStates, Idle, Failing, Starting, Choosing, Writing
  <2>3. PICK new : new = [calls[c] EXCEPT !.pc = "faildep"] OBVIOUS
  <2>4. new \in Failing BY <2>2, <2>3 DEF Failing
  <2>5. new \in CallStates /\ Idle \in CallStates BY <2>4, Zenon DEF CallStates
  <2>6. calls' = [calls EXCEPT ![c].pc = "faildep"] \/ calls' = [calls EXCEPT ![c] = Idle]
    BY <1>3 DEF markOneClickRolloutFailed
  <2>7. calls' = [calls EXCEPT ![c] = new] \/ calls' = [calls EXCEPT ![c] = Idle]
    BY <2>3, <2>6, Zenon
  <2>8. calls' \in [BootCalls -> CallStates] BY <1>1, <2>5, <2>7, CallStep
  <2>9. "failed" \in HistoryStatus /\ "failed" \in HistoryRev
    BY DEF HistoryStatus, HistoryRev, DeploymentStatusSet, RevisionStatus
  <2>10. history' = history \/ history' = [history EXCEPT ![calls[c].at].rev = "failed"]
         \/ history' = [history EXCEPT ![calls[c].at].status = "failed"]
    BY <1>3, Zenon DEF markOneClickRolloutFailed
  <2>11. history' \in Seq(HistoryRow)
    <3>1. PICK i : i = calls[c].at OBVIOUS
    <3>2. PICK s \in HistoryStatus, r \in HistoryRev : s = "failed" /\ r = "failed" BY <2>9
    <3>3. [history EXCEPT ![i].rev = r] \in Seq(HistoryRow) /\ [history EXCEPT ![i].status = s] \in Seq(HistoryRow)
      BY <1>1, RowMoves
    <3> QED BY ONLY <1>1, <2>10, <3>1, <3>2, <3>3
  <2> QED BY <1>3, <2>8, <2>11, HistoryKeeps DEF markOneClickRolloutFailed
<1> QED BY <1>2, <1>3

LEMMA AroundKeeps ==
    ASSUME BootInv,
           ServicesChange \/ TargetChanges \/ InstallationSynced \/ BuildMoves \/ RolloutMoves
    PROVE  BootInv'
<1>1. calls \in [BootCalls -> CallStates] /\ history \in Seq(HistoryRow) BY DEF BootInv
<1>2. UNCHANGED <<bindings, calls>>
  BY DEF ServicesChange, TargetChanges, InstallationSynced, BuildMoves, RolloutMoves
<1>3. CASE BuildMoves
  <2>1. PICK i \in Builds, outcome \in {"running", "succeeded", "failed"} :
            history' = [history EXCEPT ![i].status = outcome]
            \/ history' = Append([history EXCEPT ![i].status = outcome],
                                 [kind |-> "deployment", status |-> "queued", rev |-> "queued"])
    BY <1>3 DEF BuildMoves
  <2>0. outcome \in HistoryStatus /\ "none" \in HistoryRev
    BY DEF HistoryStatus, HistoryRev, DeploymentStatusSet
  <2>2. [history EXCEPT ![i].status = outcome] \in Seq(HistoryRow) BY <1>1, <2>0, RowMoves
  <2>3. [kind |-> "deployment", status |-> "queued", rev |-> "queued"] \in HistoryRow
    BY DEF HistoryRow, HistoryStatus, HistoryRev, DeploymentStatusSet, RevisionStatus
  <2>4. history' \in Seq(HistoryRow)
    <3>1. PICK moved \in Seq(HistoryRow) : moved = [history EXCEPT ![i].status = outcome] BY <2>2
    <3>2. PICK row \in HistoryRow : row = [kind |-> "deployment", status |-> "queued", rev |-> "queued"]
      BY <2>3
    <3>3. history' = moved \/ history' = Append(moved, row) BY <2>1, <3>1, <3>2, Zenon
    <3> QED BY <3>3
  <2> QED BY <1>1, <1>2, <2>4, HistoryKeeps
<1>4. CASE RolloutMoves
  <2>1. PICK i \in Deployments, p \in RolloutPairs : history' = [history EXCEPT ![i].status = p[1], ![i].rev = p[2]]
    BY <1>4 DEF RolloutMoves
  <2>2. p[1] \in HistoryStatus /\ p[2] \in HistoryRev
    BY DEF RolloutPairs, HistoryStatus, HistoryRev, DeploymentStatusSet, RevisionStatus
  <2>3. history' \in Seq(HistoryRow) BY <1>1, <2>1, <2>2, RowMoves
  <2> QED BY <1>1, <1>2, <2>3, HistoryKeeps
<1>5. CASE ServicesChange \/ TargetChanges \/ InstallationSynced
  <2>1. history' = history BY <1>5 DEF ServicesChange, TargetChanges, InstallationSynced
  <2> QED BY <1>1, <1>2, <2>1, HistoryKeeps
<1> QED BY <1>3, <1>4, <1>5

LEMMA BootInvNext == BootInv /\ [BootNext]_bootVars => BootInv'
<1> SUFFICES ASSUME BootInv, [BootNext]_bootVars PROVE BootInv' OBVIOUS
<1>1. CASE BootNext
  BY <1>1, BootstrapKeeps, BindingKeeps, CreateKeepsBindings, DeployStep, AroundKeeps DEF BootNext
<1>2. CASE UNCHANGED bootVars BY <1>2, HistoryKeeps DEF bootVars, BootInv
<1> QED BY <1>1, <1>2

LEMMA BootInvTrue == BootInv => PageIsTrue
<1> SUFFICES ASSUME BootInv PROVE PageIsTrue OBVIOUS
<1>1. ReadyIsAccepted
  <2> SUFFICES ASSUME NEW stuck \in BOOLEAN, deriveDeployState(stuck) = "ready", resolvePrimaryBinding # {},
                      RepoServices # {} => installation # "revoked"
               PROVE  ClickIsAccepted
    BY DEF ReadyIsAccepted
  <2>1. services # {} /\ ~(RepoServices # {} /\ codeState # "healthy") BY DEF deriveDeployState
  <2>2. OneClickAllowed BY <2>1 DEF OneClickAllowed, codeState
  <2> QED BY <2>2 DEF ClickIsAccepted, resolveRepoLinkGitHubInstallationID, validateOneClickDeployReadiness
<1>2. Deployments # {} => findLatestDeployment \in Deployments
  <2> SUFFICES ASSUME Deployments # {} PROVE findLatestDeployment \in Deployments OBVIOUS
  <2>1. PICK n \in Nat : DOMAIN history = 1..n BY DEF BootInv
  <2>2. Deployments \in SUBSET Nat /\ \A m \in Deployments : m <= n BY <2>1 DEF Deployments
  <2>3. \E i \in Deployments : \A j \in Deployments : j <= i BY <2>2, GreatestNat
  <2>4. Newest(Deployments) \in Deployments BY <2>3, Zenon DEF Newest
  <2> QED BY <2>4 DEF findLatestDeployment
<1>3. ASSUME NEW stuck \in BOOLEAN, deriveOverallState(deriveDeployState(stuck)) = "running"
      PROVE  runtimeInventory.app = "live"
  <2>1. PICK deploy : deploy = deriveDeployState(stuck) OBVIOUS
  <2>2. deploy = "healthy" BY <1>3, <2>1 DEF deriveOverallState
  <2>3. Deployments # {} /\ history[findLatestDeployment].status = "promoted"
    BY <2>1, <2>2 DEF deriveDeployState, buildState
  <2>4. findLatestDeployment \in findStableDeployment BY <1>2, <2>3 DEF findStableDeployment
  <2> QED BY <2>4 DEF runtimeInventory
<1> QED BY <1>1, <1>3 DEF PageIsTrue, PageAgrees, BootInv

(* GetStatus and OneClickDeploy: "ready" is accepted unless the services   *)
(* are built from a repository whose installation is revoked, "running" is *)
(* served, and every binding suits its target and has a reference of its   *)
(* own.                                                                    *)
THEOREM PageTrue == BootSpec => []PageIsTrue
<1>1. BootInit => BootInv BY BootInvInit
<1>2. BootInv /\ [BootNext]_bootVars => BootInv' BY BootInvNext
<1>3. BootInv => PageIsTrue BY BootInvTrue
<1> QED BY <1>1, <1>2, <1>3, PTL DEF BootSpec

-----------------------------------------------------------------------------
(* Plans.  The invariant: stored routes have paths of their own, and what  *)
(* is kept of a revision can be applied by itself.                         *)
PathsApart(routes) == \A r, s \in routes : r.path = s.path => r = s
RoutesApart(routing) == \A r, s \in routing.routes : r.path = s.path =>
    r = s \/ (r.path = Root /\ routing.from = "document")
AtPlaces(svcs) == DOMAIN svcs # {} /\ \E n \in Nat : DOMAIN svcs \subseteq 1..n
Resolves(bundle, from) ==
    /\ Closed(bundle)
    /\ \A d \in bundle : \A r, s \in d.rules : r[1] = s[1] => r = s \/ (r[1] = Root /\ from = "document")

IsRevision(r) == r \in [svcs : {r.svcs}, k3s : {r.k3s}, status : {r.status}, routing : {r.routing},
                        domains : {r.domains}, bundle : {r.bundle}, fallback : {r.fallback},
                        undo : {r.undo}]
Applicable(r) ==
    /\ IsRevision(r) /\ AtPlaces(r.svcs)
    /\ RoutesApart(r.routing) /\ Resolves(r.bundle, r.routing.from)
    /\ Closed(r.fallback.docs) /\ Closed(r.undo.docs)

\* What the i-th of the revisions R, r, falls back to.
WasStable(R, i) == i \in DOMAIN R /\ R[i].status \in {"promoted", "rolled_back"}
FallsBack(R, i, r) ==
    /\ r.fallback.of \notin {0, i} => WasStable(R, r.fallback.of) /\ r.fallback.docs # {}
    /\ r.undo.of # 0 => WasStable(R, r.undo.of) /\ r.undo.of # i /\ (r.k3s => r.undo.docs # {})

ManifestInv ==
    /\ \E n \in Nat : DOMAIN configured = 1..n
    /\ policy # <<>> => PathsApart(policy[1].routes)
    /\ \E S : revisions \in Seq(S)
    /\ \A i \in DOMAIN revisions : Applicable(revisions[i]) /\ FallsBack(revisions, i, revisions[i])

(* What an owner stores.                                                   *)
LEMMA NormalizedApart ==
    ASSUME NEW routes, NEW svcs, PathsApart(routes)
    PROVE  PathsApart(normalizeAll(routes, svcs))
<1>1. ASSUME NEW r, NEW s PROVE normalizeRoutingRoute(r, s).path = r.path
  BY DEF normalizeRoutingRoute
<1> DEFINE norm(r) == normalizeRoutingRoute(r, descriptorOf(r.service, svcs))
<1>2. \A r : norm(r).path = r.path BY <1>1
<1>3. normalizeAll(routes, svcs) = {norm(r) : r \in routes} BY DEF normalizeAll
<1> HIDE DEF norm
<1>4. ASSUME NEW a \in routes, NEW b \in routes, norm(a).path = norm(b).path PROVE norm(a) = norm(b)
  BY <1>2, <1>4 DEF PathsApart
<1> QED BY <1>3, <1>4 DEF PathsApart

LEMMA AcceptedApart ==
    ASSUME NEW routes, NEW svcs, routesAcceptable(routes, svcs)
    PROVE  PathsApart(ToSet(routes))
BY DEF routesAcceptable, ToSet, PathsApart

(* What a lazyops.yaml says.                                               *)
LEMMA WrittenApart ==
    ASSUME NEW shared, NEW routes, NEW svcs, validateRoutingPolicy(routes, svcs)
    PROVE  RoutesApart([shared |-> shared, routes |-> ToSet(routes), from |-> "document"])
BY DEF validateRoutingPolicy, ToSet, RoutesApart

(* The default policy.                                                     *)
LEMMA RoutePath ==
    ASSUME NEW path, NEW s, NEW ws
    PROVE  Route(path, s, ws).path = path
BY DEF Route, normalizeRoutingRoute

LEMMA FirstIsOne ==
    ASSUME NEW places \in SUBSET Nat
    PROVE  /\ firstMatchingService(places) \subseteq places
           /\ \A i, j \in firstMatchingService(places) : i = j
BY DEF firstMatchingService

(* Among so many suffixes one is free.                                     *)
LEMMA LabelIsFree ==
    ASSUME NEW s, NEW earlier, IsFiniteSet(earlier)
    PROVE  /\ labelPath(s, earlier) \notin {r.path : r \in earlier}
           /\ \E n \in Nat : labelPath(s, earlier) = [seg |-> s.label, alts |-> n]
<1>1. PICK c \in Nat : c = Cardinality(earlier) BY FS_CardinalityType
<1> DEFINE path(n) == [seg |-> s.label, alts |-> n]
           free == {n \in 0..c : path(n) \notin {r.path : r \in earlier}}
<1>2. free # {}
  <2>1. SUFFICES ASSUME free = {} PROVE FALSE OBVIOUS
  <2>2. \A n \in 0..c : \E r \in earlier : r.path = path(n) BY <2>1
  <2>3. PICK f : f = [n \in 0..c |-> CHOOSE r \in earlier : r.path = path(n)] OBVIOUS
  <2>4. f \in [0..c -> earlier] /\ \A n \in 0..c : f[n].path = path(n) BY <2>2, <2>3
  <2>5. IsFiniteSet(0..c) /\ Cardinality(0..c) = c + 1
    <3>1. 0 \in Int /\ c \in Int /\ ~(0 > c) OBVIOUS
    <3> QED BY <3>1, FS_Interval
  <2>6. Cardinality(earlier) < Cardinality(0..c) BY <1>1, <2>5
  <2>7. PICK x \in 0..c, y \in 0..c : x # y /\ f[x] = f[y]
    BY ONLY IsFiniteSet(earlier), <2>4, <2>5, <2>6, FS_PigeonHole
  <2>8. path(x) = path(y) BY <2>4, <2>7
  <2>9. path(x).alts = x /\ path(y).alts = y OBVIOUS
  <2> QED BY <2>7, <2>8, <2>9
<1>3. PICK n : n = Min(free) OBVIOUS
<1>4. free \in SUBSET Nat OBVIOUS
<1>5. \E m \in free : \A k \in free : m <= k
  <2> HIDE DEF free
  <2> QED BY <1>2, <1>4, LeastNat
<1>6. n \in free
  <2> HIDE DEF free
  <2> QED BY <1>3, <1>5 DEF Min
<1>7. labelPath(s, earlier) = path(n) BY <1>1, <1>3 DEF labelPath
<1> QED BY <1>6, <1>7

FiniteApart(routes) == IsFiniteSet(routes) /\ PathsApart(routes)

LEMMA RoutedApart ==
    ASSUME NEW s, NEW routes, FiniteApart(routes)
    PROVE  FiniteApart(routedWith(s, routes))
<1>1. CASE routedWith(s, routes) = routes BY <1>1
<1>2. CASE routedWith(s, routes) # routes
  <2>1. PICK new : new = Route(labelPath(s, routes), s, Looks(s, "ws")) OBVIOUS
  <2>2. routedWith(s, routes) = routes \cup {new} BY <1>2, <2>1 DEF routedWith
  <2>3. IsFiniteSet(routes \cup {new}) BY FS_AddElement DEF FiniteApart
  <2>4. \A r \in routes : r.path # new.path
    BY <2>1, RoutePath, LabelIsFree DEF FiniteApart
  <2>5. PathsApart(routes \cup {new}) BY <2>4 DEF FiniteApart, PathsApart
  <2> QED BY <2>2, <2>3, <2>5 DEF FiniteApart
<1> QED BY <1>1, <1>2

(* The loop over the services, one route at most for each.                 *)
RoutedUpTo(svcs, roles, f) ==
    f = [n \in 0..Max(DOMAIN svcs) |->
            IF n = 0 THEN roles
            ELSE IF n \in DOMAIN svcs THEN routedWith(svcs[n], f[n - 1]) ELSE f[n - 1]]

RoutedStep(svcs, n, routes) == IF n \in DOMAIN svcs THEN routedWith(svcs[n], routes) ELSE routes

LEMMA LastPlace ==
    ASSUME NEW svcs, AtPlaces(svcs)
    PROVE  Max(DOMAIN svcs) \in Nat
<1>1. PICK n \in Nat : DOMAIN svcs \subseteq 1..n BY DEF AtPlaces
<1>2. DOMAIN svcs \in SUBSET Nat /\ DOMAIN svcs # {} /\ \A i \in DOMAIN svcs : i <= n BY <1>1 DEF AtPlaces
<1>3. PICK m \in DOMAIN svcs : \A i \in DOMAIN svcs : i <= m BY <1>2, GreatestNat
<1>4. Max(DOMAIN svcs) \in DOMAIN svcs BY <1>2, <1>3 DEF Max
<1> QED BY <1>2, <1>4

LEMMA StepWithin ==
    ASSUME NEW svcs, NEW n, NEW routes, FiniteApart(routes)
    PROVE  /\ FiniteApart(RoutedStep(svcs, n, routes))
           /\ RoutedStep(svcs, n, routes) \subseteq
                routes \cup {Route([seg |-> svcs[i].label, alts |-> k], svcs[i], Looks(svcs[i], "ws")) :
                                i \in DOMAIN svcs, k \in Nat}
<1>1. FiniteApart(RoutedStep(svcs, n, routes)) BY RoutedApart DEF RoutedStep
<1>2. CASE n \in DOMAIN svcs
  <2>1. PICK k \in Nat : labelPath(svcs[n], routes) = [seg |-> svcs[n].label, alts |-> k]
    BY LabelIsFree DEF FiniteApart
  <2>3. RoutedStep(svcs, n, routes) \subseteq
            routes \cup {Route([seg |-> svcs[n].label, alts |-> k], svcs[n], Looks(svcs[n], "ws"))}
    BY <1>2, <2>1 DEF RoutedStep, routedWith
  <2> QED BY <1>1, <1>2, <2>3
<1>3. CASE n \notin DOMAIN svcs BY <1>1, <1>3 DEF RoutedStep
<1> QED BY <1>2, <1>3

LEMMA RoutedExists ==
    ASSUME NEW svcs, AtPlaces(svcs), NEW roles, FiniteApart(roles)
    PROVE  \E f : RoutedUpTo(svcs, roles, f) /\ FiniteApart(f[Max(DOMAIN svcs)])
<1>1. PICK N \in Nat : N = Max(DOMAIN svcs) BY LastPlace
<1> DEFINE U == roles \cup {Route([seg |-> svcs[i].label, alts |-> k], svcs[i], Looks(svcs[i], "ws")) :
                                i \in DOMAIN svcs, k \in Nat}
           S == {R \in SUBSET U : FiniteApart(R)}
           F == [p \in (1..N) \X S |-> RoutedStep(svcs, p[1], p[2])]
<1>2. roles \in S OBVIOUS
<1>3. ASSUME NEW n, NEW R \in S PROVE RoutedStep(svcs, n, R) \in S
  BY StepWithin
<1>4. F \in [(1..N) \X S -> S]
  <2> HIDE DEF S
  <2> QED BY <1>3
<1>5. PICK g : Iterates(g, N, S, roles, F)
  <2> HIDE DEF F, S
  <2> QED BY <1>2, <1>4, Recursion
<1>6. ASSUME NEW i \in 1..N PROVE g[i] = RoutedStep(svcs, i, g[i - 1])
  <2> HIDE DEF S
  <2>1. i - 1 \in 0..N OBVIOUS
  <2>2. PICK h \in S : h = g[i - 1] BY <1>5, <2>1 DEF Iterates
  <2>3. <<i, h>> \in (1..N) \X S OBVIOUS
  <2>4. F[<<i, h>>] = RoutedStep(svcs, i, h) BY <2>3
  <2> HIDE DEF F
  <2> QED BY <1>5, <2>2, <2>4 DEF Iterates
<1>7. \A n \in 0..N : g[n] = IF n = 0 THEN roles ELSE RoutedStep(svcs, n, g[n - 1])
  <2> HIDE DEF F, S
  <2>1. \A n \in 0..N : n = 0 \/ n \in 1..N OBVIOUS
  <2> QED BY ONLY <1>5, <1>6, <2>1 DEF Iterates
<1>8. g = [n \in 0..N |-> IF n = 0 THEN roles ELSE RoutedStep(svcs, n, g[n - 1])]
  <2> HIDE DEF F, S
  <2> QED BY ONLY <1>5, <1>7 DEF Iterates
<1>9. RoutedUpTo(svcs, roles, g) BY <1>1, <1>8, Zenon DEF RoutedUpTo, RoutedStep
<1>10. g[N] \in S
  <2> HIDE DEF F, S
  <2> QED BY <1>5 DEF Iterates
<1> QED BY <1>1, <1>9, <1>10

(* Two computations of the routes agree.                                   *)
LEMMA RoutedSame ==
    ASSUME NEW svcs, AtPlaces(svcs), NEW roles, NEW f, NEW g,
           RoutedUpTo(svcs, roles, f), RoutedUpTo(svcs, roles, g)
    PROVE  f[Max(DOMAIN svcs)] = g[Max(DOMAIN svcs)]
<1>1. PICK N \in Nat : N = Max(DOMAIN svcs) BY LastPlace
<1>2. ASSUME NEW h, RoutedUpTo(svcs, roles, h)
      PROVE  h[0] = roles /\ \A n \in 1..N : h[n] = RoutedStep(svcs, n, h[n - 1])
  <2>1. PICK k : k = h OBVIOUS
  <2>2. h = [n \in 0..N |-> IF n = 0 THEN roles ELSE RoutedStep(svcs, n, k[n - 1])]
    BY <1>1, <1>2, <2>1, Zenon DEF RoutedUpTo, RoutedStep
  <2>3. h[0] = roles /\ \A n \in 1..N : h[n] = RoutedStep(svcs, n, k[n - 1]) BY <2>2
  <2> QED BY <2>1, <2>3, Zenon
<1> DEFINE T == {n \in 0..N : f[n] # g[n]}
<1>3. T \in SUBSET Nat OBVIOUS
<1>4. T = {}
  <2> SUFFICES ASSUME T # {} PROVE FALSE OBVIOUS
  <2>1. PICK n \in T : \A m \in T : n <= m
    <3> HIDE DEF T
    <3> QED BY <1>3, LeastNat
  <2>2. f[0] = g[0] BY <1>2
  <2>3. n \in 1..N /\ n - 1 \in 0..N /\ n - 1 \notin T BY <2>1, <2>2
  <2>4. f[n - 1] = g[n - 1] BY <2>3
  <2>5. f[n] = g[n] BY <1>2, <2>3, <2>4
  <2> QED BY <2>5
<1>5. f[N] = g[N] BY <1>4
<1> QED BY <1>1, <1>5

(* A role is one service's at most.                                        *)
RoleRoutes(svcs, places, path, ws) == {Route(path, svcs[i], ws) : i \in places}

LEMMA RoleApart ==
    ASSUME NEW svcs, NEW places, \A i, j \in places : i = j, NEW path, NEW ws
    PROVE  /\ IsFiniteSet(RoleRoutes(svcs, places, path, ws))
           /\ \A r, s \in RoleRoutes(svcs, places, path, ws) : r = s /\ r.path = path
<1>1. \A r, s \in RoleRoutes(svcs, places, path, ws) : r = s /\ r.path = path BY RoutePath DEF RoleRoutes
<1>2. CASE places = {}
  <2>1. RoleRoutes(svcs, places, path, ws) = {} BY <1>2 DEF RoleRoutes
  <2> QED BY <1>1, <2>1, FS_EmptySet
<1>3. CASE places # {}
  <2>1. PICK i \in places : TRUE BY <1>3
  <2>2. RoleRoutes(svcs, places, path, ws) = {Route(path, svcs[i], ws)} BY DEF RoleRoutes
  <2>3. IsFiniteSet(RoleRoutes(svcs, places, path, ws)) BY <2>2, FS_Singleton
  <2> QED BY <1>1, <2>3
<1> QED BY <1>2, <1>3

LEMMA DefaultApart ==
    ASSUME NEW svcs, AtPlaces(svcs)
    PROVE  PathsApart(buildDefaultRoutingPolicy(svcs))
<1> DEFINE public == {i \in DOMAIN svcs : svcs[i].public}
           looking(what) == firstMatchingService({i \in public : Looks(svcs[i], what)})
           named(places) == {svcs[i].name : i \in places}
           websocket == looking("ws")
           api == orElse(looking("api"), looking("backend"))
           other == firstMatchingService({i \in public : svcs[i].name \notin named(websocket \cup api)})
           root == orElse(orElse(looking("frontend"), other), firstMatchingService(public))
           serving == {a \in api : svcs[a].name \notin named(root)}
           roles == {Route(Path("ws"), svcs[i], TRUE) : i \in websocket}
               \cup {Route(Path("api"), svcs[i], FALSE) : i \in serving}
               \cup {Route(Root, svcs[i], FALSE) : i \in root}
<1>1. PICK n \in Nat : DOMAIN svcs \subseteq 1..n BY DEF AtPlaces
<1>2. public \in SUBSET Nat /\ IsFiniteSet(public)
  <2>1. IsFiniteSet(1..n)
    <3>1. 1 \in Int /\ n \in Int OBVIOUS
    <3> QED BY ONLY <3>1, FS_Interval
  <2>2. public \subseteq 1..n BY <1>1
  <2> QED BY <1>1, <2>1, <2>2, FS_Subset
<1>3. buildDefaultRoutingPolicy(svcs) =
        IF Cardinality(public) <= 1 THEN {defaultRouteForSinglePublicService(svcs[i]) : i \in public}
        ELSE (CHOOSE f : RoutedUpTo(svcs, roles, f))[Max(DOMAIN svcs)]
  BY DEF buildDefaultRoutingPolicy, RoutedUpTo
<1>4. CASE Cardinality(public) <= 1
  <2>1. \A i, j \in public : i = j
    <3> HIDE DEF public
    <3>1. Cardinality(public) \in Nat BY <1>2, FS_CardinalityType
    <3>2. CASE Cardinality(public) = 0
      <4>1. public = {} BY <1>2, <3>2, FS_EmptySet
      <4> QED BY <4>1
    <3>3. CASE Cardinality(public) = 1
      <4>1. \E x : public = {x} BY <1>2, <3>3, FS_Singleton
      <4> QED BY <4>1
    <3> QED BY <1>4, <3>1, <3>2, <3>3
  <2> HIDE DEF public, roles
  <2>2. buildDefaultRoutingPolicy(svcs) = {defaultRouteForSinglePublicService(svcs[i]) : i \in public} BY <1>3, <1>4
  <2> QED BY <2>1, <2>2 DEF PathsApart
<1>5. CASE ~(Cardinality(public) <= 1)
  <2>1. \A places \in SUBSET public : \A i, j \in firstMatchingService(places) : i = j
    <3> HIDE DEF public
    <3> QED BY <1>2, FirstIsOne
  <2>2. \A what : \A i, j \in looking(what) : i = j BY <2>1
  <2>3. \A i, j \in other : i = j BY <2>1
  <2>4. \A i, j \in firstMatchingService(public) : i = j BY <2>1
  <2> HIDE DEF public, looking, named, other
  <2>5. \A i, j \in websocket : i = j BY <2>2
  <2>6. \A i, j \in serving : i = j BY <2>2 DEF orElse
  <2>7. \A i, j \in root : i = j BY <2>2, <2>3, <2>4 DEF orElse
  <2> HIDE DEF websocket, serving, root
  <2>8. PICK a, b, c : /\ a = RoleRoutes(svcs, websocket, Path("ws"), TRUE)
                       /\ b = RoleRoutes(svcs, serving, Path("api"), FALSE)
                       /\ c = RoleRoutes(svcs, root, Root, FALSE)
    OBVIOUS
  <2>9. IsFiniteSet(a) /\ \A r, s \in a : r = s /\ r.path = Path("ws") BY <2>5, <2>8, RoleApart
  <2>10. IsFiniteSet(b) /\ \A r, s \in b : r = s /\ r.path = Path("api") BY <2>6, <2>8, RoleApart
  <2>11. IsFiniteSet(c) /\ \A r, s \in c : r = s /\ r.path = Root BY <2>7, <2>8, RoleApart
  <2>12. roles = a \cup b \cup c BY <2>8 DEF RoleRoutes
  <2>13. Path("ws").seg # Path("api").seg /\ Path("ws").seg # Root.seg /\ Path("api").seg # Root.seg
    BY DEF Path, Root
  <2>14. IsFiniteSet(a \cup b \cup c) BY <2>9, <2>10, <2>11, FS_Union
  <2>15. PathsApart(a \cup b \cup c) BY <2>9, <2>10, <2>11, <2>13 DEF PathsApart
  <2>16. FiniteApart(roles) BY <2>12, <2>14, <2>15 DEF FiniteApart
  <2> HIDE DEF roles
  <2>17. PICK g : RoutedUpTo(svcs, roles, g) /\ FiniteApart(g[Max(DOMAIN svcs)]) BY <2>16, RoutedExists
  <2>18. PICK f : f = CHOOSE h : RoutedUpTo(svcs, roles, h) OBVIOUS
  <2>19. RoutedUpTo(svcs, roles, f) BY <2>17, <2>18
  <2>20. f[Max(DOMAIN svcs)] = g[Max(DOMAIN svcs)] BY <2>17, <2>19, RoutedSame
  <2>21. buildDefaultRoutingPolicy(svcs) = f[Max(DOMAIN svcs)] BY <1>3, <1>5, <2>18
  <2> QED BY <2>17, <2>20, <2>21 DEF FiniteApart
<1> QED BY <1>4, <1>5

LEMMA EffectiveApart ==
    ASSUME ManifestInv, NEW svcs, AtPlaces(svcs), NEW hosted
    PROVE  RoutesApart(ResolveEffectiveRouting(svcs, hosted))
<1>1. PICK routing : routing = ResolveEffectiveRouting(svcs, hosted) OBVIOUS
<1>2. CASE policy = <<>> \/ policy[1].routes = {}
  <2>1. routing.routes = buildDefaultRoutingPolicy(svcs) BY <1>1, <1>2 DEF ResolveEffectiveRouting
  <2> QED BY <1>1, <2>1, DefaultApart DEF PathsApart, RoutesApart
<1>3. CASE ~(policy = <<>> \/ policy[1].routes = {})
  <2>1. routing.routes = normalizeAll(policy[1].routes, svcs) BY <1>1, <1>3 DEF ResolveEffectiveRouting
  <2>2. PathsApart(policy[1].routes) BY <1>3 DEF ManifestInv
  <2> QED BY <1>1, <2>1, <2>2, NormalizedApart DEF PathsApart, RoutesApart
<1> QED BY <1>2, <1>3

(* What is rendered: a document refers to documents of its service, the    *)
(* ingress to those of the services it leads to.                           *)
LEMMA ServiceResolves ==
    ASSUME NEW s, NEW d \in serviceDocuments(s)
    PROVE  d.rules = {} /\ \A ref \in d.refs : \E e \in serviceDocuments(s) : <<e.kind, e.name>> = ref
<1>1. CASE d.refs = {} BY <1>1 DEF serviceDocuments, secretFor, doc
<1>2. CASE d.refs # {}
  <2>1. d = doc("Deployment", s.name, Needs(s), {}) BY <1>2 DEF serviceDocuments, secretFor, doc
  <2>2. d.rules = {} /\ d.refs = Needs(s) BY <2>1 DEF doc
  <2>3. ASSUME normalizeManagedServiceEnv(s)
        PROVE  \E e \in serviceDocuments(s) : <<e.kind, e.name>> = <<"Secret", s.name>>
    <3>1. doc("Secret", s.name, {}, {}) \in serviceDocuments(s) BY <2>3 DEF serviceDocuments, secretFor
    <3> QED BY <3>1 DEF doc
  <2>4. ASSUME Stateful(s)
        PROVE  \E e \in serviceDocuments(s) : <<e.kind, e.name>> = <<"PVC", s.name>>
    <3>1. doc("PVC", s.name, {}, {}) \in serviceDocuments(s) BY <2>4 DEF serviceDocuments
    <3> QED BY <3>1 DEF doc
  <2> QED BY <2>2, <2>3, <2>4 DEF Needs
<1> QED BY <1>1, <1>2

LEMMA ServiceRendered ==
    ASSUME NEW s
    PROVE  \E e \in serviceDocuments(s) : <<e.kind, e.name>> = <<"Service", s.name>>
<1>1. doc("Service", s.name, {}, {}) \in serviceDocuments(s) BY DEF serviceDocuments
<1> QED BY <1>1 DEF doc

LEMMA GenerateResolves ==
    ASSUME NEW svcs, AtPlaces(svcs), NEW routing, RoutesApart(routing), NEW domains,
           CanGenerate(svcs, routing)
    PROVE  Resolves(Generate(svcs, routing, domains), routing.from)
<1> DEFINE shared == routing.shared /\ routing.routes # {}
           ingresses == ingressesOf(svcs, routing, domains)
           bundle == Generate(svcs, routing, domains)
           here(ref) == \E e \in bundle : <<e.kind, e.name>> = ref
           own(r, s) == r[1] = s[1] => r = s \/ (r[1] = Root /\ routing.from = "document")
<1>1. bundle = manifestsOf(svcs) \cup ingresses BY DEF Generate
<1>10. ASSUME NEW d \in bundle, d \notin ingresses PROVE \E s \in ToSet(svcs) : d \in serviceDocuments(s)
  BY <1>1, <1>10 DEF manifestsOf
<1>2. \A s \in ToSet(svcs) : serviceDocuments(s) \subseteq bundle BY <1>1 DEF manifestsOf
<1> HIDE DEF bundle
<1>5. \A s \in ToSet(svcs) : here(<<"Service", s.name>>) BY <1>2, ServiceRendered
<1>6. ASSUME NEW d \in ingresses, shared
      PROVE  (\A ref \in d.refs : here(ref)) /\ \A r, s \in d.rules : own(r, s)
  <2>1. d = doc("Ingress", "public-shared", {<<"Service", r.service>> : r \in routing.routes}, Rules(routing.routes))
    BY <1>6 DEF ingressesOf, renderSharedIngress
  <2>2. d.refs = {<<"Service", r.service>> : r \in routing.routes} /\ d.rules = Rules(routing.routes)
    BY <2>1 DEF doc
  <2>3. \A r \in routing.routes : \E s \in ToSet(svcs) : s.name = r.service BY <1>6 DEF CanGenerate
  <2>4. \A r \in routing.routes : here(<<"Service", r.service>>) BY <1>5, <2>3
  <2>5. \A a, b \in routing.routes : a.path = b.path => a = b \/ (a.path = Root /\ routing.from = "document")
    BY DEF RoutesApart
  <2> HIDE DEF here
  <2> QED BY <2>2, <2>4, <2>5 DEF Rules
<1>7. ASSUME NEW d \in ingresses, ~shared
      PROVE  (\A ref \in d.refs : here(ref)) /\ \A r, s \in d.rules : own(r, s)
  <2>1. PICK s \in ToSet(svcs) : d = ingressFor(s) BY <1>7 DEF ingressesOf
  <2>2. d.refs = {<<"Service", s.name>>} /\ d.rules = {<<Root, s.name>>} BY <2>1 DEF ingressFor, doc
  <2> QED BY <1>5, <2>2
<1> HIDE DEF ingresses
<1>8. ASSUME NEW d \in bundle, d \notin ingresses
      PROVE  d.rules = {} /\ \A ref \in d.refs : here(ref)
  <2>1. PICK s \in ToSet(svcs) : d \in serviceDocuments(s) BY <1>8, <1>10
  <2> QED BY <1>2, <2>1, ServiceResolves
<1> QED BY <1>6, <1>7, <1>8 DEF bundle, Resolves, Closed

(* What a revision falls back to.                                          *)
LEMMA StableIs ==
    ASSUME NEW S, revisions \in Seq(S), NEW this
    PROVE  LET back == findLastStableRevision(this)
           IN  back # 0 => back \in DOMAIN revisions /\ back # this /\ revisions[back].status = "promoted"
<1>1. CASE Promoted(this) = {} BY <1>1 DEF findLastStableRevision
<1>2. CASE Promoted(this) # {}
  <2>1. PICK n \in Nat : DOMAIN revisions = 1..n OBVIOUS
  <2>2. Promoted(this) \in SUBSET Nat /\ \A i \in Promoted(this) : i <= n BY <2>1 DEF Promoted
  <2>3. PICK m \in Promoted(this) : \A i \in Promoted(this) : i <= m BY <1>2, <2>1, <2>2, GreatestNat
  <2>4. findLastStableRevision(this) \in Promoted(this) BY <1>2, <2>3 DEF findLastStableRevision
  <2> QED BY <2>4 DEF Promoted
<1> QED BY <1>1, <1>2

LEMMA SnapshotStable ==
    ASSUME ManifestInv, NEW this, findLastStableRevision(this) # 0
    PROVE  LET back == findLastStableRevision(this)
           IN  /\ WasStable(revisions, back) /\ back # this
               /\ snapshotOf(back).of = back /\ snapshotOf(back).docs = revisions[back].bundle
               /\ Closed(revisions[back].bundle)
<1>1. PICK S : revisions \in Seq(S) BY DEF ManifestInv
<1>2. PICK back : back = findLastStableRevision(this) OBVIOUS
<1>3. back \in DOMAIN revisions /\ back # this /\ revisions[back].status = "promoted" BY <1>1, <1>2, StableIs
<1>4. Closed(revisions[back].bundle) BY <1>3 DEF ManifestInv, Applicable, Resolves
<1> QED BY <1>2, <1>3, <1>4 DEF WasStable, snapshotOf

(* A revision with some of its fields replaced.                            *)
RevisionIs(r, svcs, k3s, status, routing, bundle, fallback, undo) ==
    /\ IsRevision(r) /\ r.svcs = svcs /\ r.k3s = k3s /\ r.status = status /\ r.routing = routing
    /\ r.bundle = bundle /\ r.fallback = fallback /\ r.undo = undo

LEMMA RevisionReplaced ==
    ASSUME NEW r, IsRevision(r), NEW y, NEW g, NEW h, NEW x, NEW f, NEW u
    PROVE  /\ RevisionIs([r EXCEPT !.status = y], r.svcs, r.k3s, y, r.routing, r.bundle, r.fallback, r.undo)
           /\ RevisionIs([r EXCEPT !.routing = g, !.domains = h, !.bundle = x, !.fallback = f, !.status = y],
                         r.svcs, r.k3s, y, g, x, f, r.undo)
           /\ RevisionIs([r EXCEPT !.undo = u, !.fallback = f],
                         r.svcs, r.k3s, r.status, r.routing, r.bundle, f, u)
           /\ RevisionIs([r EXCEPT !.undo = u, !.status = y],
                         r.svcs, r.k3s, y, r.routing, r.bundle, r.fallback, u)
<1>1. PICK a, b, c, d, e, i, j, k :
        r \in [svcs : {a}, k3s : {b}, status : {c}, routing : {d}, domains : {e}, bundle : {i},
               fallback : {j}, undo : {k}]
  BY DEF IsRevision
<1>2. RevisionIs([r EXCEPT !.status = y], r.svcs, r.k3s, y, r.routing, r.bundle, r.fallback, r.undo)
  BY <1>1 DEF RevisionIs, IsRevision
<1>3. RevisionIs([r EXCEPT !.routing = g, !.domains = h, !.bundle = x, !.fallback = f, !.status = y],
                 r.svcs, r.k3s, y, g, x, f, r.undo)
  BY <1>1 DEF RevisionIs, IsRevision
<1>4. RevisionIs([r EXCEPT !.undo = u, !.fallback = f], r.svcs, r.k3s, r.status, r.routing, r.bundle, f, u)
  BY <1>1 DEF RevisionIs, IsRevision
<1>5. RevisionIs([r EXCEPT !.undo = u, !.status = y], r.svcs, r.k3s, y, r.routing, r.bundle, r.fallback, u)
  BY <1>1 DEF RevisionIs, IsRevision
<1> QED BY <1>2, <1>3, <1>4, <1>5

(* A revision is changed: the others are as they were.                     *)
LEMMA RevisionChanged ==
    ASSUME ManifestInv, NEW i \in DOMAIN revisions, NEW new,
           revisions' = [revisions EXCEPT ![i] = new], Applicable(new), FallsBack(revisions, i, new),
           revisions[i].status \in {"promoted", "rolled_back"} => new.status \in {"promoted", "rolled_back"},
           UNCHANGED <<configured, policy>>
    PROVE  ManifestInv'
<1>1. PICK S : revisions \in Seq(S) BY DEF ManifestInv
<1>2. DOMAIN revisions' = DOMAIN revisions /\ revisions'[i] = new
      /\ \A j \in DOMAIN revisions : j # i => revisions'[j] = revisions[j]
  BY <1>1
<1>3. revisions' \in Seq(S \cup {new}) BY <1>1
<1>4. \A j \in DOMAIN revisions' : Applicable(revisions'[j]) /\ FallsBack(revisions, j, revisions'[j])
  BY <1>2 DEF ManifestInv
<1>5. \A j : WasStable(revisions, j) => WasStable(revisions', j)
  BY <1>2 DEF WasStable
<1>6. \A j \in DOMAIN revisions' : FallsBack(revisions', j, revisions'[j]) BY <1>4, <1>5 DEF FallsBack
<1>7. (\E n \in Nat : DOMAIN configured' = 1..n) /\ (policy' # <<>> => PathsApart(policy'[1].routes))
  BY DEF ManifestInv
<1> QED BY <1>3, <1>4, <1>6, <1>7 DEF ManifestInv

LEMMA PlanFits ==
    ASSUME ManifestInv, NEW i \in DOMAIN revisions, PlanCandidate(i)
    PROVE  ManifestInv'
<1>1. PICK rev : rev = revisions[i] OBVIOUS
<1>2. Applicable(rev) /\ FallsBack(revisions, i, rev) BY <1>1 DEF ManifestInv
<1>3. PICK routing, bundle, fallback, status :
        /\ rev.status \in {"queued", "planned", "promoted"}
        /\ routing \in policiesFor(rev)
        /\ rev.k3s => CanGenerate(rev.svcs, routing)
        /\ bundle = IF rev.k3s THEN Generate(rev.svcs, routing, hasDomains(rev)) ELSE {}
        /\ fallback \in rollbackManifests(i, bundle)
        /\ status \in {rev.status, IF rev.status = "queued" THEN "planned" ELSE rev.status}
        /\ revisions' = [revisions EXCEPT ![i] = [@ EXCEPT !.routing = routing, !.domains = hasDomains(rev),
                            !.bundle = bundle, !.fallback = fallback, !.status = status]]
        /\ UNCHANGED <<configured, policy, addressed, edits>>
  BY <1>1, Zenon DEF PlanCandidate
<1>4. PICK domains : domains = hasDomains(rev) OBVIOUS
<1>5. PICK new : new = [rev EXCEPT !.routing = routing, !.domains = domains, !.bundle = bundle,
                           !.fallback = fallback, !.status = status]
  OBVIOUS
<1>6. IsRevision(rev) BY <1>2 DEF Applicable
<1>7. RevisionIs(new, rev.svcs, rev.k3s, status, routing, bundle, fallback, rev.undo)
  BY ONLY <1>5, <1>6, RevisionReplaced
<1>8. revisions' = [revisions EXCEPT ![i] = new] BY <1>1, <1>3, <1>4, <1>5
<1>9. AtPlaces(rev.svcs) BY <1>2 DEF Applicable
<1>10. RoutesApart(routing) BY <1>2, <1>3, <1>9, EffectiveApart DEF policiesFor, Applicable
<1>11. Resolves(bundle, routing.from)
  <2>1. CASE rev.k3s BY <1>3, <1>9, <1>10, <2>1, GenerateResolves
  <2>2. CASE ~rev.k3s
    <3>1. bundle = {} BY <1>3, <2>2
    <3> QED BY <3>1 DEF Resolves, Closed
  <2> QED BY <2>1, <2>2
<1>12. Closed(fallback.docs) /\ (fallback.of \notin {0, i} => WasStable(revisions, fallback.of) /\ fallback.docs # {})
  <2>1. PICK back : back = findLastStableRevision(i) OBVIOUS
  <2>2. \/ fallback = NoManifest \/ fallback = [of |-> i, docs |-> bundle]
        \/ back # 0 /\ revisions[back].bundle # {} /\ fallback = snapshotOf(back)
    BY <1>3, <2>1 DEF rollbackManifests
  <2>3. CASE fallback = NoManifest BY <2>3 DEF NoManifest, Closed
  <2>4. CASE fallback = [of |-> i, docs |-> bundle] BY <1>11, <2>4 DEF Resolves
  <2>5. CASE back # 0 /\ revisions[back].bundle # {} /\ fallback = snapshotOf(back)
    BY <2>1, <2>5, SnapshotStable
  <2> QED BY <2>2, <2>3, <2>4, <2>5
<1>13. Applicable(new) BY <1>2, <1>7, <1>9, <1>10, <1>11, <1>12 DEF Applicable, RevisionIs
<1>14. FallsBack(revisions, i, new) BY <1>2, <1>7, <1>12 DEF FallsBack, RevisionIs
<1>15. rev.status \in {"promoted", "rolled_back"} => new.status \in {"promoted", "rolled_back"}
  BY <1>3, <1>7 DEF RevisionIs
<1>16. UNCHANGED <<configured, policy>> BY <1>3
<1> QED BY <1>1, <1>8, <1>13, <1>14, <1>15, <1>16, RevisionChanged

\* A revision moves to another status.
LEMMA StatusMoves ==
    ASSUME ManifestInv, NEW i \in DOMAIN revisions, NEW status,
           revisions' = [revisions EXCEPT ![i].status = status],
           revisions[i].status \in {"promoted", "rolled_back"} => status \in {"promoted", "rolled_back"},
           UNCHANGED <<configured, policy>>
    PROVE  ManifestInv'
<1>1. PICK rev : rev = revisions[i] OBVIOUS
<1>2. Applicable(rev) /\ FallsBack(revisions, i, rev) BY <1>1 DEF ManifestInv
<1>3. PICK new : new = [rev EXCEPT !.status = status] OBVIOUS
<1>4. IsRevision(rev) BY <1>2 DEF Applicable
<1>5. RevisionIs(new, rev.svcs, rev.k3s, status, rev.routing, rev.bundle, rev.fallback, rev.undo)
  BY ONLY <1>3, <1>4, RevisionReplaced
<1>6. revisions' = [revisions EXCEPT ![i] = new] BY <1>1, <1>3
<1>7. Applicable(new) /\ FallsBack(revisions, i, new) BY <1>2, <1>5 DEF Applicable, FallsBack, RevisionIs
<1>8. new.status = status BY <1>5 DEF RevisionIs
<1> QED BY <1>1, <1>6, <1>7, <1>8, RevisionChanged

LEMMA StatusFits ==
    ASSUME ManifestInv, NEW i \in DOMAIN revisions, FailRollout(i) \/ PromoteCandidate(i)
    PROVE  ManifestInv'
<1>1. PICK status : /\ status = "promoted" \/ status = failed(revisions[i].status)
                    /\ revisions' = [revisions EXCEPT ![i].status = status]
                    /\ UNCHANGED <<configured, policy>>
  <2>1. CASE FailRollout(i)
    <3>1. revisions' = [revisions EXCEPT ![i].status = failed(revisions[i].status)]
          /\ UNCHANGED <<configured, policy>>
      BY <2>1 DEF FailRollout
    <3> QED BY <3>1
  <2>2. CASE PromoteCandidate(i) BY <2>2 DEF PromoteCandidate
  <2> QED BY <2>1, <2>2
<1>2. revisions[i].status \in {"promoted", "rolled_back"} => status \in {"promoted", "rolled_back"}
  BY <1>1 DEF failed
<1> QED BY <1>1, <1>2, StatusMoves

LEMMA RollbackFits ==
    ASSUME ManifestInv, NEW i \in DOMAIN revisions, PlanRollback(i)
    PROVE  ManifestInv'
<1>1. PICK rev, back : rev = revisions[i] /\ back = findLastStableRevision(i) OBVIOUS
<1>2. Applicable(rev) /\ FallsBack(revisions, i, rev) BY <1>1 DEF ManifestInv
<1>3. IsRevision(rev) BY <1>2 DEF Applicable
<1>4. PICK undo : undo = snapshotOf(back) OBVIOUS
<1>5. PICK fallback : fallback = IF rev.k3s THEN undo ELSE rev.fallback OBVIOUS
<1>6. /\ back # 0 /\ (rev.k3s => revisions[back].bundle # {}) /\ UNCHANGED <<configured, policy>>
      /\ revisions' = [revisions EXCEPT ![i] = [@ EXCEPT !.undo = undo, !.fallback = fallback]]
  BY <1>1, <1>4, <1>5, Zenon DEF PlanRollback
<1>7. PICK new : new = [rev EXCEPT !.undo = undo, !.fallback = fallback] OBVIOUS
<1>8. revisions' = [revisions EXCEPT ![i] = new] BY <1>1, <1>6, <1>7
<1>9. RevisionIs(new, rev.svcs, rev.k3s, rev.status, rev.routing, rev.bundle, fallback, undo)
  BY ONLY <1>3, <1>7, RevisionReplaced
<1>10. /\ WasStable(revisions, back) /\ back # i /\ undo.of = back /\ undo.docs = revisions[back].bundle
       /\ Closed(undo.docs)
  BY <1>1, <1>4, <1>6, SnapshotStable
<1>11. fallback = rev.fallback \/ (fallback = undo /\ undo.docs # {}) BY <1>5, <1>6, <1>10
<1>12. Applicable(new) BY <1>2, <1>9, <1>10, <1>11 DEF Applicable, RevisionIs
<1>13. FallsBack(revisions, i, new) BY <1>2, <1>6, <1>9, <1>10, <1>11 DEF FallsBack, RevisionIs
<1>14. new.status = rev.status BY <1>9 DEF RevisionIs
<1> QED BY <1>1, <1>6, <1>8, <1>12, <1>13, <1>14, RevisionChanged

LEMMA FinalizeFits ==
    ASSUME ManifestInv, NEW i \in DOMAIN revisions, FinalizeRollback(i)
    PROVE  ManifestInv'
<1>1. PICK rev : rev = revisions[i] OBVIOUS
<1>2. Applicable(rev) /\ FallsBack(revisions, i, rev) BY <1>1 DEF ManifestInv
<1>3. IsRevision(rev) BY <1>2 DEF Applicable
<1>4. PICK status : /\ status \in {"rolled_back", failed(rev.status)} /\ UNCHANGED <<configured, policy>>
                    /\ revisions' = [revisions EXCEPT ![i] = [@ EXCEPT !.undo = NoManifest, !.status = status]]
  BY <1>1, Zenon DEF FinalizeRollback
<1>5. PICK new : new = [rev EXCEPT !.undo = NoManifest, !.status = status] OBVIOUS
<1>6. RevisionIs(new, rev.svcs, rev.k3s, status, rev.routing, rev.bundle, rev.fallback, NoManifest)
  BY ONLY <1>3, <1>5, RevisionReplaced
<1>7. revisions' = [revisions EXCEPT ![i] = new] BY <1>1, <1>4, <1>5
<1>8. NoManifest.of = 0 /\ NoManifest.docs = {} BY DEF NoManifest
<1>9. Applicable(new) BY <1>2, <1>6, <1>8 DEF Applicable, RevisionIs, Closed
<1>10. FallsBack(revisions, i, new) BY <1>2, <1>6, <1>8 DEF FallsBack, RevisionIs
<1>11. rev.status \in {"promoted", "rolled_back"} => new.status \in {"promoted", "rolled_back"}
  BY <1>4, <1>6 DEF RevisionIs, failed
<1> QED BY <1>1, <1>4, <1>7, <1>9, <1>10, <1>11, RevisionChanged

LEMMA RevisionAdded ==
    ASSUME ManifestInv, NEW svcs, NEW routing, AtPlaces(svcs), RoutesApart(routing), AddRevision(svcs, routing)
    PROVE  ManifestInv'
<1>1. PICK k3s \in BOOLEAN :
        revisions' = Append(revisions,
            [svcs |-> svcs, k3s |-> k3s, status |-> "queued", routing |-> routing, domains |-> FALSE,
             bundle |-> {}, fallback |-> NoManifest, undo |-> NoManifest])
  BY DEF AddRevision
<1>2. UNCHANGED <<configured, policy>> BY DEF AddRevision
<1>3. PICK new : new = [svcs |-> svcs, k3s |-> k3s, status |-> "queued", routing |-> routing, domains |-> FALSE,
                        bundle |-> {}, fallback |-> NoManifest, undo |-> NoManifest]
  OBVIOUS
<1>4. /\ IsRevision(new) /\ new.svcs = svcs /\ new.routing = routing /\ new.bundle = {}
      /\ new.fallback = NoManifest /\ new.undo = NoManifest
  BY <1>3 DEF IsRevision
<1>5. NoManifest.of = 0 /\ NoManifest.docs = {} BY DEF NoManifest
<1>6. Applicable(new) BY <1>4, <1>5 DEF Applicable, Resolves, Closed
<1>7. \A R, j : FallsBack(R, j, new) BY <1>4, <1>5 DEF FallsBack
<1>8. PICK S : revisions \in Seq(S) BY DEF ManifestInv
<1>9. revisions' = Append(revisions, new) BY <1>1, <1>3
<1>10. revisions' \in Seq(S \cup {new}) BY <1>8, <1>9
<1>11. /\ DOMAIN revisions \subseteq DOMAIN revisions'
       /\ \A j \in DOMAIN revisions : revisions'[j] = revisions[j]
       /\ \A j \in DOMAIN revisions' : j \notin DOMAIN revisions => revisions'[j] = new
  BY <1>8, <1>9
<1>12. \A j \in DOMAIN revisions' : Applicable(revisions'[j]) BY <1>6, <1>11 DEF ManifestInv
<1>13. \A j : WasStable(revisions, j) => WasStable(revisions', j) BY <1>11 DEF WasStable
<1>14. ASSUME NEW j \in DOMAIN revisions' PROVE FallsBack(revisions', j, revisions'[j])
  <2>1. CASE j \in DOMAIN revisions
    <3>1. FallsBack(revisions, j, revisions'[j]) BY <1>11, <2>1 DEF ManifestInv
    <3> QED BY <1>13, <3>1 DEF FallsBack
  <2>2. CASE j \notin DOMAIN revisions BY <1>7, <1>11, <1>14, <2>2
  <2> QED BY <2>1, <2>2
<1>15. (\E n \in Nat : DOMAIN configured' = 1..n) /\ (policy' # <<>> => PathsApart(policy'[1].routes))
  BY <1>2 DEF ManifestInv
<1> QED BY <1>10, <1>12, <1>14, <1>15 DEF ManifestInv

(* A new revision has the services that were chosen, in their places.      *)
LEMMA CreateFits ==
    ASSUME ManifestInv, CreateRevision
    PROVE  ManifestInv'
<1>1. PICK chosen, svcs, routing :
        /\ chosen # {} /\ chosen \subseteq {configured[i].name : i \in DOMAIN configured}
        /\ svcs = [i \in {j \in DOMAIN configured : configured[j].name \in chosen} |-> configured[i]]
        /\ routing = [shared |-> FALSE, routes |-> {}, from |-> "document"]
        /\ AddRevision(svcs, routing)
  BY Zenon DEF CreateRevision
<1>2. PICK n \in Nat : DOMAIN configured = 1..n BY DEF ManifestInv
<1>3. PICK c \in chosen : TRUE BY <1>1
<1>4. PICK i \in DOMAIN configured : configured[i].name = c BY <1>1, <1>3
<1>5. DOMAIN svcs = {j \in DOMAIN configured : configured[j].name \in chosen} BY <1>1
<1>6. AtPlaces(svcs) BY <1>2, <1>3, <1>4, <1>5 DEF AtPlaces
<1>7. RoutesApart(routing) BY <1>1 DEF RoutesApart
<1> QED BY <1>1, <1>6, <1>7, RevisionAdded

LEMMA WrittenFits ==
    ASSUME ManifestInv, CreateFromDocument
    PROVE  ManifestInv'
<1>1. PICK svcs \in ServiceLists, written \in YAMLPolicies :
        /\ svcs # <<>> /\ validateRoutingPolicy(written.routes, svcs)
        /\ AddRevision(svcs, [shared |-> written.shared, routes |-> ToSet(written.routes), from |-> "document"])
  BY Zenon DEF CreateFromDocument
<1>6. PICK routing : routing = [shared |-> written.shared, routes |-> ToSet(written.routes), from |-> "document"]
  OBVIOUS
<1>2. svcs \in Seq(ToSet(svcs)) BY ServicesListed
<1>3. PICK n \in Nat : DOMAIN svcs = 1..n /\ n # 0
  <2>1. DOMAIN svcs = 1..Len(svcs) /\ Len(svcs) \in Nat BY <1>2
  <2>2. Len(svcs) # 0 BY <1>1, <1>2
  <2> QED BY <2>1, <2>2
<1>4. AtPlaces(svcs)
  <2>1. 1 \in 1..n BY <1>3
  <2> QED BY <1>3, <2>1 DEF AtPlaces
<1>5. RoutesApart(routing) BY <1>1, <1>6, WrittenApart
<1> QED BY <1>1, <1>4, <1>5, <1>6, RevisionAdded

LEMMA ManifestStart == ManifestInit => ManifestInv
<1> SUFFICES ASSUME ManifestInit PROVE ManifestInv OBVIOUS
<1>1. configured \in Seq(ToSet(configured)) BY ServicesListed DEF ManifestInit
<1>2. DOMAIN configured = 1..Len(configured) /\ Len(configured) \in Nat BY <1>1
<1>3. policy = <<>> /\ revisions = <<>> BY DEF ManifestInit
<1>4. revisions \in Seq({}) /\ DOMAIN revisions = {} BY <1>3
<1> QED BY <1>2, <1>3, <1>4 DEF ManifestInv

LEMMA RevisionsKept ==
    ASSUME ManifestInv, UNCHANGED revisions, \E n \in Nat : DOMAIN configured' = 1..n,
           policy' # <<>> => PathsApart(policy'[1].routes)
    PROVE  ManifestInv'
BY DEF ManifestInv

LEMMA ManifestStep ==
    ASSUME ManifestInv, ManifestNext
    PROVE  ManifestInv'
<1>1. CASE Reconfigure
  <2>1. UNCHANGED <<policy, revisions>> /\ configured' \in ServiceLists BY <1>1 DEF Reconfigure
  <2>2. configured' \in Seq(ToSet(configured')) BY <2>1, ServicesListed
  <2>3. DOMAIN configured' = 1..Len(configured') /\ Len(configured') \in Nat BY <2>2
  <2>4. policy' # <<>> => PathsApart(policy'[1].routes) BY <2>1 DEF ManifestInv
  <2> QED BY <2>1, <2>3, <2>4, RevisionsKept
<1>2. CASE AddressChanges
  <2>1. UNCHANGED <<configured, policy, revisions>> BY <1>2 DEF AddressChanges
  <2> QED BY <2>1, RevisionsKept DEF ManifestInv
<1>3. CASE UpdateRouting
  <2>1. PICK asked \in Policies :
          /\ routesAcceptable(asked.routes, configured)
          /\ policy' = <<[shared |-> asked.shared, routes |-> normalizeAll(ToSet(asked.routes), configured)]>>
    BY <1>3 DEF UpdateRouting
  <2>2. UNCHANGED <<configured, revisions>> BY <1>3 DEF UpdateRouting
  <2>3. policy'[1].routes = normalizeAll(ToSet(asked.routes), configured) BY <2>1
  <2>4. PathsApart(policy'[1].routes) BY <2>1, <2>3, AcceptedApart, NormalizedApart
  <2> QED BY <2>2, <2>4, RevisionsKept DEF ManifestInv
<1>4. CASE CreateRevision \/ CreateFromDocument BY <1>4, CreateFits, WrittenFits
<1>5. CASE \E i \in DOMAIN revisions : PlanCandidate(i) \/ FailRollout(i) \/ PromoteCandidate(i)
                                       \/ PlanRollback(i) \/ FinalizeRollback(i)
  BY <1>5, PlanFits, StatusFits, RollbackFits, FinalizeFits
<1> QED BY <1>1, <1>2, <1>3, <1>4, <1>5 DEF ManifestNext

LEMMA ManifestKept == ManifestInv /\ UNCHANGED manifestVars => ManifestInv'
<1> SUFFICES ASSUME ManifestInv, UNCHANGED manifestVars PROVE ManifestInv' OBVIOUS
<1>1. UNCHANGED <<configured, policy, revisions>> BY DEF manifestVars
<1> QED BY <1>1, RevisionsKept DEF ManifestInv

LEMMA InvApplies == ManifestInv => PlansApply
<1> SUFFICES ASSUME ManifestInv PROVE PlansApply OBVIOUS
<1>1. BundleResolves BY DEF ManifestInv, Applicable, Resolves, BundleResolves
<1>2. FallbackResolves BY DEF ManifestInv, Applicable, FallsBack, WasStable, FallbackResolves
<1>3. RollbackIsAnother BY DEF ManifestInv, Applicable, FallsBack, WasStable, RollbackIsAnother
<1> QED BY <1>1, <1>2, <1>3 DEF PlansApply

(* What was planned can be applied with what is stored of it: the          *)
(* documents its documents refer to are in the bundle, no two rules share  *)
(* a path but the roots of a lazyops.yaml kept for want of a readable      *)
(* policy, the manifest to fall back to can be applied too, and what a     *)
(* rollback applies is another revision's that was promoted, for any       *)
(* services, policies, failures and order of calls                         *)
(* (materializeRuntimeSnapshot, Generate, PlanRollback, UpdateRouting).    *)
THEOREM PlansCanBeApplied == ManifestSpec => []PlansApply
<1>1. ManifestInv /\ [ManifestNext]_manifestVars => ManifestInv' BY ManifestStep, ManifestKept
<1> QED BY <1>1, ManifestStart, InvApplies, PTL DEF ManifestSpec

=============================================================================
