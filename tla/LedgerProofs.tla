---------------------------- MODULE LedgerProofs ----------------------------
(***************************************************************************)
(* For any number of processes, any payloads, any bounds and any set of     *)
(* faults: the ledger file is well typed, its chain is linked, nothing       *)
(* follows a line that cannot be read, and anchors give what Verify needs.   *)
(* Where the loss of power is the only failure: what was acknowledged is     *)
(* safe, and the ledger implements AuditLog.                                *)
(***************************************************************************)
EXTENDS Ledger, SequenceTheorems, TLAPS, WellFoundedInduction

\* Every line names the line before it, the lines that cannot be read
\* included: a cut may turn a joined line back into a readable entry, so the
\* readable ones alone are not inductive.
Chained(f) == \A n \in DOMAIN f : f[n].prev = PrevHash(f, n)

\* A process inside Append is appending an entry with an id.
ReqHasId == \A p \in Proc : pc[p] # "idle" => req[p].id \in Id

\* The flock is exclusive, and held throughout the critical section.
Exclusive == \A p \in Proc : pc[p] \in Critical => lock = p

\* Between reading the tail and writing, the tail that was read stays the
\* tail of the file.
TailIsCurrent == \A p \in Proc : pc[p] = "write" => tail[p] = LastHash(file)

IInv == TypeOK /\ ReqHasId /\ Exclusive /\ TailIsCurrent /\ Chained(file)

-----------------------------------------------------------------------------
(* What the operations on files do to the chain                            *)

\* A prefix of a chained file is a chained file.
LEMMA PrefixChained ==
  ASSUME NEW f \in Seq(Line), Chained(f), NEW n \in 0..Len(f)
  PROVE  /\ SubSeq(f, 1, n) \in Seq(Line) /\ Len(SubSeq(f, 1, n)) = n
         /\ \A i \in 1..n : SubSeq(f, 1, n)[i] = f[i]
         /\ Chained(SubSeq(f, 1, n))
<1> DEFINE g == SubSeq(f, 1, n)
<1>1. Len(f) \in Nat /\ DOMAIN f = 1..Len(f) /\ \A i \in 1..Len(f) : f[i] \in Line
  BY LenProperties, ElementOfSeq
<1>2. g \in Seq(Line) /\ Len(g) = n /\ \A i \in 1..n : g[i] = f[i]
  BY <1>1, SubSeqProperties
<1>3. DOMAIN g = 1..n
  BY <1>2, LenProperties
<1> HIDE DEF g
<1>4. ASSUME NEW i \in DOMAIN g  PROVE g[i].prev = PrevHash(g, i)
  <2>1. i \in 1..n /\ i \in DOMAIN f /\ (i # 1 => i - 1 \in 1..n)
    BY <1>1, <1>3
  <2>2. f[i].prev = PrevHash(f, i)
    BY <2>1 DEF Chained
  <2> QED BY <1>2, <2>1, <2>2 DEF PrevHash
<1>5. Chained(g)
  BY <1>4 DEF Chained
<1> QED BY <1>2, <1>5 DEF g

\* Adding a line that names the last entry keeps a file chained.
LEMMA AppendChained ==
  ASSUME NEW f \in Seq(Line), Chained(f), NEW l \in Line, l.prev = LastHash(f)
  PROVE  Append(f, l) \in Seq(Line) /\ Chained(Append(f, l))
<1> DEFINE g == Append(f, l)
<1>1. Len(f) \in Nat /\ DOMAIN f = 1..Len(f)
  BY LenProperties
<1>2. /\ g \in Seq(Line) /\ Len(g) = Len(f) + 1
      /\ g[Len(f) + 1] = l /\ \A i \in 1..Len(f) : g[i] = f[i]
  BY <1>1, AppendProperties
<1>3. DOMAIN g = 1..(Len(f) + 1)
  BY <1>2, LenProperties
<1> HIDE DEF g
<1>4. ASSUME NEW i \in DOMAIN g  PROVE g[i].prev = PrevHash(g, i)
  <2>1. CASE i \in 1..Len(f)
    <3>1. f[i].prev = PrevHash(f, i)
      BY <1>1, <2>1 DEF Chained
    <3>2. i # 1 => i - 1 \in 1..Len(f)
      BY <1>1, <2>1
    <3> QED BY <1>2, <2>1, <3>1, <3>2 DEF PrevHash
  <2>2. CASE i = Len(f) + 1
    <3>1. f = <<>> <=> Len(f) = 0
      BY <1>1, EmptySeq
    <3>2. CASE Len(f) = 0
      BY <1>2, <2>2, <3>1, <3>2 DEF PrevHash, LastHash
    <3>3. CASE Len(f) # 0
      <4>1. Len(f) \in 1..Len(f) /\ i # 1 /\ i - 1 = Len(f)
        BY <1>1, <2>2, <3>3
      <4> QED BY <1>2, <2>2, <3>1, <3>3, <4>1 DEF PrevHash, LastHash
    <3> QED BY <3>2, <3>3
  <2> QED BY <1>1, <1>3, <2>1, <2>2
<1>5. Chained(g)
  BY <1>4 DEF Chained
<1> QED BY <1>2, <1>5 DEF g

\* Changing a line without touching its prev and its hash keeps a file
\* chained.
LEMMA RewriteChained ==
  ASSUME NEW f \in Seq(Line), Chained(f), NEW n \in DOMAIN f, NEW l \in Line,
         l.prev = f[n].prev, l.hash = f[n].hash
  PROVE  /\ [f EXCEPT ![n] = l] \in Seq(Line) /\ Chained([f EXCEPT ![n] = l])
         /\ LastHash([f EXCEPT ![n] = l]) = LastHash(f)
<1> DEFINE g == [f EXCEPT ![n] = l]
<1>1. Len(f) \in Nat /\ DOMAIN f = 1..Len(f)
  BY LenProperties
<1>2. /\ g \in Seq(Line) /\ Len(g) = Len(f)
      /\ \A i \in 1..Len(f) : g[i] = IF i = n THEN l ELSE f[i]
  BY <1>1, ExceptSeq
<1>3. DOMAIN g = 1..Len(f)
  BY <1>2, LenProperties
<1>4. \A i \in 1..Len(f) : g[i].prev = f[i].prev /\ g[i].hash = f[i].hash
  BY <1>1, <1>2
<1>5. f = <<>> <=> g = <<>>
  BY <1>2, EmptySeq
<1> HIDE DEF g
<1>6. ASSUME NEW i \in DOMAIN g  PROVE g[i].prev = PrevHash(g, i)
  <2>1. i \in 1..Len(f) /\ (i # 1 => i - 1 \in 1..Len(f))
    BY <1>1, <1>3
  <2>2. f[i].prev = PrevHash(f, i)
    BY <1>1, <2>1 DEF Chained
  <2> QED BY <1>4, <2>1, <2>2 DEF PrevHash
<1>7. Chained(g)
  BY <1>6 DEF Chained
<1>8. LastHash(g) = LastHash(f)
  <2>1. f # <<>> => Len(f) \in 1..Len(f)
    BY <1>1, EmptySeq
  <2> QED BY <1>2, <1>4, <1>5, <2>1 DEF LastHash
<1> QED BY <1>2, <1>7, <1>8 DEF g

\* What a write leaves behind is chained, whether it is the whole line or a
\* part of it, and whether or not it lands on an unended line.
LEMMA WriteChained ==
  ASSUME NEW f \in Seq(Line), Chained(f), NEW l \in Line, l.prev = LastHash(f)
  PROVE  WithLine(f, l) \in Seq(Line) /\ Chained(WithLine(f, l))
<1>1. CASE Joins(f)
  <2>1. Len(f) \in DOMAIN f /\ f[Len(f)] \in Line
    <3>1. f # <<>> /\ Len(f) \in Nat /\ DOMAIN f = 1..Len(f)
      BY <1>1, LenProperties DEF Joins
    <3>2. Len(f) \in 1..Len(f)
      BY <3>1, EmptySeq
    <3> QED BY <3>1, <3>2, ElementOfSeq
  <2> DEFINE k == [f[Len(f)] EXCEPT !.form = "joined"]
  <2>2. k \in Line /\ k.prev = f[Len(f)].prev /\ k.hash = f[Len(f)].hash
    BY <2>1 DEF Line, Form
  <2>3. WithLine(f, l) = [f EXCEPT ![Len(f)] = k]
    BY <1>1 DEF WithLine
  <2> HIDE DEF k
  <2>4. [f EXCEPT ![Len(f)] = k] \in Seq(Line) /\ Chained([f EXCEPT ![Len(f)] = k])
    BY <2>1, <2>2, RewriteChained
  <2> QED BY <2>3, <2>4
<1>2. CASE ~Joins(f)
  BY <1>2, AppendChained DEF WithLine
<1> QED BY <1>1, <1>2

\* A cut line is a line with the same prev and hash.
LEMMA CutsOfLine ==
  ASSUME NEW l \in Line, NEW c \in Cuts(l)
  PROVE  c \in Line /\ c.prev = l.prev /\ c.hash = l.hash
BY DEF Cuts, Line, Form

\* A file whose end is lost in the middle of a line is still chained.
LEMMA CutChained ==
  ASSUME NEW f \in Seq(Line), Chained(f), NEW n \in 1..Len(f), NEW c \in Cuts(f[n])
  PROVE  /\ Append(SubSeq(f, 1, n - 1), c) \in Seq(Line)
         /\ Chained(Append(SubSeq(f, 1, n - 1), c))
<1> DEFINE h == SubSeq(f, 1, n - 1)
<1>1. Len(f) \in Nat /\ DOMAIN f = 1..Len(f) /\ f[n] \in Line
  BY LenProperties, ElementOfSeq
<1>2. n - 1 \in 0..Len(f) /\ (n # 1 => n - 1 \in 1..(n-1))
  BY <1>1
<1>3. /\ h \in Seq(Line) /\ Len(h) = n - 1 /\ Chained(h)
      /\ \A i \in 1..(n-1) : h[i] = f[i]
  BY <1>2, PrefixChained
<1> HIDE DEF h
<1>4. c \in Line /\ c.prev = f[n].prev
  BY <1>1, CutsOfLine
<1>5. f[n].prev = PrevHash(f, n)
  BY <1>1 DEF Chained
<1>6. PrevHash(f, n) = LastHash(h)
  <2>1. h = <<>> <=> n = 1
    BY <1>3, EmptySeq
  <2> QED BY <1>2, <1>3, <2>1 DEF PrevHash, LastHash
<1>7. Append(h, c) \in Seq(Line) /\ Chained(Append(h, c))
  BY <1>3, <1>4, <1>5, <1>6, AppendChained
<1> QED BY <1>7 DEF h

-----------------------------------------------------------------------------
(* The invariant                                                           *)

\* A process outside Append holds an empty request.
LEMMA NoReqTyped == NoReq \in [id : 0..MaxOps, payload : Payload]
BY BodyAssumption, BoundAssumption DEF NoReq, Payload

\* No ledger yet: the invariant holds.
LEMMA InitIInv == Init => IInv
<1> SUFFICES ASSUME Init PROVE IInv
  OBVIOUS
<1>1. TypeOK
  <2>1. file \in Seq(Line)
    BY EmptySeq DEF Init
  <2>2. 0 \in Nat /\ 0 \in 0..MaxOps /\ 0 \in 0..MaxEdits
    BY BoundAssumption
  <2> QED BY <2>1, <2>2, NoReqTyped DEF Init, TypeOK, Critical, Digest
<1>2. ReqHasId /\ Exclusive /\ TailIsCurrent
  BY DEF Init, ReqHasId, Exclusive, TailIsCurrent, Critical
<1>3. Chained(file)
  BY DEF Init, Chained
<1> QED BY <1>1, <1>2, <1>3 DEF IInv

\* A process that leaves gives up the lock and its variables.
LEMMA LeaveIInv ==
  ASSUME IInv, NEW p \in Proc, Leave(p), pc[p] \in Critical,
         file' \in Seq(Line), Chained(file'), synced' \in Nat,
         exists' \in BOOLEAN, named' \in BOOLEAN,
         acked' \subseteq Id, ops' = ops, edits' = edits
  PROVE  IInv'
<1>1. \A q \in Proc : q # p => pc[q] \notin Critical
  BY ProcAssumption DEF IInv, Exclusive
<1>2. \A q \in Proc : /\ q # p => pc'[q] = pc[q] /\ req'[q] = req[q]
                     /\ pc'[p] = "idle"
  BY DEF Leave, Gone, IInv, TypeOK
<1>3. TypeOK'
  BY NoReqTyped DEF IInv, TypeOK, Leave, Gone, Critical, Digest
<1>4. ReqHasId'
  BY <1>2 DEF IInv, ReqHasId
<1>5. Exclusive' /\ TailIsCurrent'
  BY <1>1, <1>2 DEF Exclusive, TailIsCurrent, Critical
<1> QED BY <1>3, <1>4, <1>5 DEF IInv, Chained

\* Every step keeps the invariant.
LEMMA NextIInv == IInv /\ [Next]_vars => IInv'
<1> SUFFICES ASSUME IInv, [Next]_vars PROVE IInv'
  OBVIOUS
<1> USE DEF disk, local
<1>t. /\ file \in Seq(Line) /\ Chained(file) /\ Len(file) \in Nat /\ DOMAIN file = 1..Len(file)
      /\ synced \in Nat
  BY LenProperties DEF IInv, TypeOK
<1>0. ASSUME NEW p \in Proc, NEW payload \in Payload, Call(p, payload)  PROVE IInv'
  <2>1. ops + 1 \in Id /\ ops + 1 \in 0..MaxOps
    BY <1>0, BoundAssumption DEF Call, IInv, TypeOK, Id
  <2>2. TypeOK'
    BY <1>0, <2>1 DEF Call, IInv, TypeOK
  <2>3. ReqHasId'
    BY <1>0, <2>1 DEF Call, IInv, TypeOK, ReqHasId
  <2>4. Exclusive' /\ TailIsCurrent' /\ Chained(file)'
    BY <1>0 DEF Call, IInv, TypeOK, Exclusive, TailIsCurrent, Critical
  <2> QED BY <2>2, <2>3, <2>4 DEF IInv
<1>1. ASSUME NEW p \in Proc, CallAppend(p)  PROVE IInv'
  BY <1>0, <1>1 DEF CallAppend, Payload
<1>2. ASSUME NEW p \in Proc, CallAnchor(p)  PROVE IInv'
  <2>1. PICK n \in DOMAIN file :
          /\ file[n].payload \in Body /\ ~Intact(file[n])
          /\ Call(p, [entry |-> file[n].id, stored |-> file[n].hash,
                      recomputed |-> HashOf(file[n])])
    BY <1>2 DEF CallAnchor
  <2>2. file[n] \in Line
    BY <1>t, ElementOfSeq
  <2>3. [entry |-> file[n].id, stored |-> file[n].hash,
         recomputed |-> HashOf(file[n])] \in Payload
    BY <2>1, <2>2 DEF Line, Payload, Vouch, HashOf
  <2> QED BY <1>0, <2>1, <2>3
<1>3. ASSUME NEW p \in Proc, Acquire(p)  PROVE IInv'
  <2>1. \A q \in Proc : pc[q] \notin Critical
    BY <1>3, ProcAssumption DEF Acquire, IInv, Exclusive
  <2>2. TypeOK'
    BY <1>3 DEF Acquire, IInv, TypeOK, Critical
  <2>3. ReqHasId' /\ Exclusive' /\ TailIsCurrent' /\ Chained(file)'
    BY <1>3, <2>1 DEF Acquire, IInv, TypeOK, ReqHasId, Exclusive, TailIsCurrent, Critical
  <2> QED BY <2>2, <2>3 DEF IInv
<1>4. ASSUME NEW p \in Proc, OpenAndReadTail(p)  PROVE IInv'
  <2>1. LastHash(file) \in Digest
    <3>1. file # <<>> => Len(file) \in 1..Len(file)
      BY <1>t, EmptySeq
    <3>2. file # <<>> => file[Len(file)] \in Line
      BY <1>t, <3>1, ElementOfSeq
    <3> QED BY <3>2 DEF LastHash, Line, Digest
  <2>2. TypeOK'
    BY <1>4, <2>1 DEF OpenAndReadTail, IInv, TypeOK, Critical
  <2>3. ReqHasId' /\ Exclusive' /\ Chained(file)'
    BY <1>4 DEF OpenAndReadTail, IInv, TypeOK, ReqHasId, Exclusive, Critical
  <2>4. TailIsCurrent'
    BY <1>4 DEF OpenAndReadTail, IInv, TypeOK, TailIsCurrent
  <2> QED BY <2>2, <2>3, <2>4 DEF IInv
<1>5. ASSUME NEW p \in Proc, RefuseCorrupt(p)  PROVE IInv'
  BY <1>5, <1>t, LeaveIInv DEF RefuseCorrupt, IInv, TypeOK, Critical
<1>l. ASSUME NEW p \in Proc, pc[p] = "write"
      PROVE  NewLine(p) \in Line /\ NewLine(p).prev = LastHash(file)
  <2>1. req[p].id \in Id /\ req[p].payload \in Payload /\ tail[p] \in Digest
    BY <1>l DEF IInv, TypeOK, ReqHasId
  <2> QED BY <1>l, <2>1 DEF IInv, TailIsCurrent, NewLine, Line, Digest, Form
<1>s. SyncedUnder(file) \in Nat
  <2>1. file # <<>> => Len(file) \in Nat \ {0}
    BY <1>t, EmptySeq
  <2> QED BY <1>t, <2>1 DEF SyncedUnder, Joins
<1>6. ASSUME NEW p \in Proc, Write(p)  PROVE IInv'
  <2>1. file' \in Seq(Line) /\ Chained(file')
    BY <1>6, <1>t, <1>l, WriteChained DEF Write
  <2>2. \A q \in Proc : q # p => pc[q] \notin Critical
    BY <1>6, ProcAssumption DEF Write, IInv, Exclusive, Critical
  <2>3. TypeOK'
    BY <1>6, <1>s, <2>1 DEF Write, IInv, TypeOK, Critical
  <2>4. ReqHasId' /\ Exclusive' /\ TailIsCurrent'
    BY <1>6, <2>2 DEF Write, IInv, TypeOK, ReqHasId, Exclusive, TailIsCurrent, Critical
  <2> QED BY <2>1, <2>3, <2>4 DEF IInv, Chained
<1>7. ASSUME NEW p \in Proc, WriteFails(p)  PROVE IInv'
  <2>1. file' \in Seq(Line) /\ Chained(file') /\ synced' \in Nat
    <3>1. CASE file' = file /\ synced' = synced
      BY <3>1, <1>t
    <3>2. ASSUME NEW l \in Cuts(NewLine(p)), file' = WithLine(file, l)
          PROVE  file' \in Seq(Line) /\ Chained(file')
      <4>1. l \in Line /\ l.prev = LastHash(file)
        BY <1>7, <1>l, CutsOfLine DEF WriteFails
      <4> QED BY <1>t, <3>2, <4>1, WriteChained
    <3> QED BY <1>7, <1>s, <3>1, <3>2 DEF WriteFails
  <2> QED BY <1>7, <2>1, LeaveIInv DEF WriteFails, IInv, TypeOK, Critical
<1>8. ASSUME NEW p \in Proc, Fsync(p)  PROVE IInv'
  <2>1. TypeOK'
    BY <1>8, <1>t DEF Fsync, IInv, TypeOK, Critical
  <2>2. ReqHasId' /\ Exclusive' /\ TailIsCurrent' /\ Chained(file)'
    BY <1>8 DEF Fsync, IInv, TypeOK, ReqHasId, Exclusive, TailIsCurrent, Critical
  <2> QED BY <2>1, <2>2 DEF IInv
<1>9. ASSUME NEW p \in Proc, FsyncFails(p)  PROVE IInv'
  BY <1>9, <1>t, LeaveIInv DEF FsyncFails, IInv, TypeOK, Critical
<1>10. ASSUME NEW p \in Proc, Return(p)  PROVE IInv'
  <2>1. pc[p] \in Critical /\ req[p].id \in Id
    BY <1>10 DEF Return, IInv, ReqHasId, Critical
  <2>2. acked' \subseteq Id /\ named' \in BOOLEAN
    BY <1>10, <2>1 DEF Return, IInv, TypeOK
  <2> QED BY <1>10, <1>t, <2>1, <2>2, LeaveIInv DEF Return, IInv, TypeOK
<1>11. ASSUME NEW p \in Proc, Kill(p)  PROVE IInv'
  <2>1. \A q \in Proc : /\ q # p => pc'[q] = pc[q] /\ req'[q] = req[q] /\ tail'[q] = tail[q]
                       /\ pc'[p] = "idle"
    BY <1>11 DEF Kill, Gone, IInv, TypeOK
  <2>2. TypeOK'
    BY <1>11, NoReqTyped DEF Kill, Gone, IInv, TypeOK, Critical, Digest
  <2>3. ReqHasId' /\ TailIsCurrent' /\ Chained(file)'
    BY <1>11, <2>1 DEF Kill, IInv, ReqHasId, TailIsCurrent
  <2>4. Exclusive'
    BY <1>11, <2>1 DEF Kill, IInv, Exclusive, Critical
  <2> QED BY <2>2, <2>3, <2>4 DEF IInv
<1>12. ASSUME PowerCut  PROVE IInv'
  <2>1. file' \in Seq(Line) /\ Chained(file')
    <3>1. ASSUME NEW n \in synced..Len(file), file' = SubSeq(file, 1, n)
          PROVE  file' \in Seq(Line) /\ Chained(file')
      BY <1>t, <3>1, PrefixChained
    <3>2. ASSUME NEW n \in (synced+1)..Len(file), NEW l \in Cuts(file[n]),
                 file' = Append(SubSeq(file, 1, n - 1), l)
          PROVE  file' \in Seq(Line) /\ Chained(file')
      BY <1>t, <3>2, CutChained
    <3>3. CASE file' = <<>>
      BY <3>3 DEF Chained
    <3> QED BY <1>12, <3>1, <3>2, <3>3 DEF PowerCut, Survivors
  <2>2. Len(file') \in Nat
    BY <2>1, LenProperties
  <2>3. TypeOK'
    BY <1>12, <2>1, <2>2, NoReqTyped DEF PowerCut, IInv, TypeOK, Critical, Digest
  <2>4. ReqHasId' /\ Exclusive' /\ TailIsCurrent'
    BY <1>12 DEF PowerCut, ReqHasId, Exclusive, TailIsCurrent, Critical
  <2> QED BY <2>1, <2>3, <2>4 DEF IInv, Chained
<1>13. ASSUME Edit  PROVE IInv'
  <2>1. PICK n \in DOMAIN file, b \in Body : /\ file[n].payload \in Body
                                            /\ file' = [file EXCEPT ![n].payload = b]
    BY <1>13 DEF Edit
  <2> DEFINE k == [file[n] EXCEPT !.payload = b]
  <2>2. file[n] \in Line
    BY <1>t, ElementOfSeq
  <2>3. k \in Line /\ k.prev = file[n].prev /\ k.hash = file[n].hash
    BY <2>1, <2>2 DEF Line, Payload
  <2>4. file' = [file EXCEPT ![n] = k]
    BY <2>1
  <2> HIDE DEF k
  <2>5. /\ [file EXCEPT ![n] = k] \in Seq(Line) /\ Chained([file EXCEPT ![n] = k])
        /\ LastHash([file EXCEPT ![n] = k]) = LastHash(file)
    BY <1>t, <2>3, RewriteChained
  <2>6. TypeOK'
    <3>1. /\ edits < MaxEdits /\ edits' = edits + 1
          /\ UNCHANGED <<exists, synced, named, lock, pc, local, acked, ops>>
      BY <1>13 DEF Edit
    <3>2. edits' \in 0..MaxEdits
      BY <3>1, BoundAssumption DEF IInv, TypeOK
    <3> QED BY <2>4, <2>5, <3>1, <3>2 DEF IInv, TypeOK
  <2>7. ReqHasId' /\ Exclusive' /\ TailIsCurrent'
    <3>1. UNCHANGED <<lock, pc, local>>
      BY <1>13 DEF Edit
    <3> QED BY <2>4, <2>5, <3>1 DEF IInv, ReqHasId, Exclusive, TailIsCurrent
  <2> QED BY <2>4, <2>5, <2>6, <2>7 DEF IInv, Chained
<1>14. CASE UNCHANGED vars
  BY <1>14 DEF vars, IInv, TypeOK, ReqHasId, Exclusive, TailIsCurrent, Chained
<1> QED BY <1>1, <1>2, <1>3, <1>4, <1>5, <1>6, <1>7, <1>8, <1>9, <1>10, <1>11,
           <1>12, <1>13, <1>14 DEF Next, Advance

\* The inductive invariant holds in every state of Append's interleavings.
THEOREM Invariance == Spec => []IInv
BY InitIInv, NextIInv, PTL DEF Spec

\* The state is always well typed.
THEOREM TypeCorrect == Spec => []TypeOK
<1>1. IInv => TypeOK
  BY DEF IInv
<1> QED BY Invariance, <1>1, PTL

\* Every readable entry of the ledger file names the entry before it, however
\* many processes append, fail and die, and whatever a power cut leaves.
THEOREM ChainIsLinked == Spec => []ChainLinked
<1>1. IInv => ChainLinked
  BY DEF IInv, Chained, ChainLinked
<1> QED BY Invariance, <1>1, PTL

\* A process that holds the lock is alone past it.
LEMMA Alone ==
  ASSUME IInv, NEW p \in Proc, pc[p] \in Critical
  PROVE  \A q \in Proc : q # p => pc[q] \in {"idle", "lock"}
BY ProcAssumption DEF IInv, Exclusive, TypeOK, Critical

\* Who is about to write has read every line, and they are still there.
HasRead == \A p \in Proc : pc[p] = "write" => Parses(file)

LEMMA NextHasRead ==
  ASSUME IInv, HasRead, [Next]_vars
  PROVE  HasRead'
<1> SUFFICES ASSUME NEW p \in Proc, pc'[p] = "write" PROVE Parses(file')
  BY DEF HasRead
<1>t. pc \in [Proc -> {"idle", "lock"} \cup Critical]
  BY DEF IInv, TypeOK
<1>1. ASSUME NEW q \in Proc, NEW x, x # "write", pc' = [pc EXCEPT ![q] = x],
             pc[q] \in Critical \/ UNCHANGED file
      PROVE  Parses(file')
  <2>1. p # q /\ pc[p] = "write"
    BY <1>1, <1>t
  <2>2. UNCHANGED file
    BY <1>1, <2>1, Alone DEF Critical
  <2> QED BY <2>1, <2>2 DEF HasRead, Parses
<1>2. ASSUME NEW q \in Proc, OpenAndReadTail(q) PROVE Parses(file')
  BY <1>2 DEF OpenAndReadTail, Parses
<1>3. CASE Edit
  <2>1. PICK n \in DOMAIN file, b \in Body : file' = [file EXCEPT ![n].payload = b]
    BY <1>3 DEF Edit
  <2>2. Parses(file)
    BY <1>3 DEF Edit, HasRead
  <2>3. file[n] \in Line
    BY ElementOfSeq, LenProperties DEF IInv, TypeOK
  <2>4. \A m \in DOMAIN file : file'[m].form = file[m].form
    BY <2>1, <2>3 DEF Line
  <2>5. DOMAIN file' = DOMAIN file
    BY <2>1
  <2> QED BY <2>2, <2>4, <2>5 DEF Parses, LineParses
<1>4. CASE PowerCut
  BY <1>4 DEF PowerCut
<1>5. CASE UNCHANGED vars
  BY <1>5 DEF vars, HasRead, Parses
<1>6. ASSUME NEW q \in Proc, CallAppend(q) \/ CallAnchor(q) PROVE Parses(file')
  BY <1>1, <1>6 DEF CallAppend, CallAnchor, Call, disk
<1>7. ASSUME NEW q \in Proc, Acquire(q) \/ Kill(q) PROVE Parses(file')
  BY <1>1, <1>7 DEF Acquire, Kill, Gone, disk
<1>8. ASSUME NEW q \in Proc, RefuseCorrupt(q) \/ FsyncFails(q) \/ Return(q) \/ Fsync(q)
      PROVE  Parses(file')
  BY <1>1, <1>8 DEF RefuseCorrupt, FsyncFails, Return, Fsync, Leave, Gone, disk
<1>9. ASSUME NEW q \in Proc, Write(q) \/ WriteFails(q) PROVE Parses(file')
  <2>1. pc[q] \in Critical
    BY <1>9 DEF Write, WriteFails, Critical
  <2>2. \E x : x # "write" /\ pc' = [pc EXCEPT ![q] = x]
    BY <1>9 DEF Write, WriteFails, Leave, Gone
  <2> QED BY <1>1, <2>1, <2>2
<1> QED BY <1>2, <1>3, <1>4, <1>5, <1>6, <1>7, <1>8, <1>9 DEF Next, Advance

\* Nothing is appended behind a line that cannot be read, by any number of
\* processes and whatever fails: who writes has read every line, and only the
\* holder of the lock, who writes, could have changed them since.
THEOREM CorruptionStays == Spec => CorruptionIsFinal
<1>1. IInv /\ HasRead /\ [Next]_vars => [~Parses(file) => Len(file') <= Len(file)]_vars
  <2> SUFFICES ASSUME IInv, HasRead, Next, ~Parses(file) PROVE Len(file') <= Len(file)
    OBVIOUS
  <2>t. file \in Seq(Line) /\ Len(file) \in Nat /\ DOMAIN file = 1..Len(file) /\ synced \in Nat
    BY LenProperties DEF IInv, TypeOK
  <2>1. \A p \in Proc : pc[p] # "write"
    BY DEF HasRead
  <2>2. CASE UNCHANGED file
    BY <2>t, <2>2
  <2>3. CASE PowerCut
    <3>1. CASE file' = <<>>
      BY <2>t, <3>1
    <3>2. ASSUME NEW n \in synced..Len(file), file' = SubSeq(file, 1, n)
          PROVE  Len(file') <= Len(file)
      BY <2>t, <3>2, PrefixChained DEF IInv
    <3>3. ASSUME NEW n \in (synced+1)..Len(file), NEW l \in Cuts(file[n]),
                 file' = Append(SubSeq(file, 1, n - 1), l)
          PROVE  Len(file') <= Len(file)
      <4> DEFINE g == SubSeq(file, 1, n - 1)
      <4>1. n - 1 \in 0..Len(file)
        BY <2>t
      <4>2. g \in Seq(Line) /\ Len(g) = n - 1
        BY <4>1, <2>t, PrefixChained DEF IInv
      <4>3. l \in Line
        <5>1. file[n] \in Line
          BY <2>t, ElementOfSeq
        <5> QED BY <5>1 DEF Cuts, Line, Form
      <4> HIDE DEF g
      <4>4. file' = Append(g, l)
        BY <3>3 DEF g
      <4>5. Len(file') = n
        BY <2>t, <4>2, <4>3, <4>4, AppendProperties
      <4> QED BY <2>t, <4>5
    <3> QED BY <2>3, <3>1, <3>2, <3>3 DEF PowerCut, Survivors
  <2>4. CASE Edit
    <3>1. PICK n \in DOMAIN file, b \in Body : file' = [file EXCEPT ![n].payload = b]
      BY <2>4 DEF Edit
    <3>2. DOMAIN file' = DOMAIN file
      BY <3>1
    <3>3. file' \in Seq(Line)
      BY NextIInv DEF IInv, TypeOK
    <3>4. DOMAIN file' = 1..Len(file') /\ Len(file') \in Nat
      BY <3>3, LenProperties
    <3> QED BY <2>t, <3>2, <3>4
  <2> QED BY <2>1, <2>2, <2>3, <2>4
      DEF Next, CallAppend, CallAnchor, Call, Advance, Acquire, OpenAndReadTail, RefuseCorrupt, Write,
          WriteFails, Fsync, FsyncFails, Return, Kill, disk
<1>2. Init => HasRead
  BY DEF Init, HasRead
<1>3. IInv /\ HasRead /\ [Next]_vars => HasRead'
  BY NextHasRead
<1> QED BY <1>1, <1>2, <1>3, Invariance, PTL DEF Spec, CorruptionIsFinal

-----------------------------------------------------------------------------
(* What the prover can say of AppendReturns.                               *)

\* The flock is free or its holder is between lock and unlock.
LockHeld == lock # Nobody => lock \in Proc /\ pc[lock] \in Critical

\* No error path of Append and no death of a process keeps the lock: whoever holds
\* it is alive and inside the critical section.  The liveness property
\* AppendReturns rests on it.
THEOREM LockIsNotLeaked == Spec => []LockHeld
<1>1. Init => LockHeld
  BY DEF Init, LockHeld
<1>2. IInv /\ LockHeld /\ [Next]_vars => LockHeld'
  <2> SUFFICES ASSUME IInv, LockHeld, [Next]_vars PROVE LockHeld'
    OBVIOUS
  <2>t. pc \in [Proc -> {"idle", "lock"} \cup Critical] /\ Nobody \notin Proc
    BY ProcAssumption DEF IInv, TypeOK
  <2>1. ASSUME NEW p \in Proc, CallAppend(p) \/ CallAnchor(p) PROVE LockHeld'
    <3>1. pc[p] = "idle" /\ pc' = [pc EXCEPT ![p] = "lock"] /\ lock' = lock
      BY <2>1 DEF CallAppend, CallAnchor, Call
    <3> QED BY <2>t, <3>1 DEF LockHeld, Critical
  <2>2. ASSUME NEW p \in Proc, Acquire(p) PROVE LockHeld'
    BY <2>t, <2>2 DEF Acquire, LockHeld, Critical
  <2>3. ASSUME NEW p \in Proc, OpenAndReadTail(p) \/ Write(p) \/ Fsync(p) PROVE LockHeld'
    <3>1. \E x \in Critical : pc' = [pc EXCEPT ![p] = x] /\ lock' = lock
      BY <2>3 DEF OpenAndReadTail, Write, Fsync, Critical
    <3> QED BY <2>t, <3>1 DEF LockHeld
  <2>4. ASSUME NEW p \in Proc, RefuseCorrupt(p) \/ WriteFails(p) \/ FsyncFails(p) \/ Return(p)
        PROVE  LockHeld'
    BY <2>4 DEF RefuseCorrupt, WriteFails, FsyncFails, Return, Leave, LockHeld
  <2>5. ASSUME NEW p \in Proc, Kill(p) PROVE LockHeld'
    BY <2>t, <2>5 DEF Kill, Gone, LockHeld
  <2>6. CASE PowerCut
    BY <2>6 DEF PowerCut, LockHeld
  <2>7. CASE Edit \/ UNCHANGED vars
    BY <2>7 DEF Edit, vars, LockHeld
  <2> QED BY <2>1, <2>2, <2>3, <2>4, <2>5, <2>6, <2>7 DEF Next, Advance
<1> QED BY <1>1, <1>2, Invariance, PTL DEF Spec

-----------------------------------------------------------------------------
(* Durability, where no call fails or dies half-way: power may be lost at any *)
(* step, and contents may change.                                           *)

\* The file appears only under the lock, by a process that looked for it
\* before it was there and so will sync its directory.
Discovered ==
  /\ ~exists => file = <<>>
  /\ ~exists => \A p \in Proc : pc[p] \in {"idle", "lock", "open"}
  /\ ~exists => \A p \in Proc : pc[p] # "idle" => fresh[p]
  /\ exists /\ ~named => \E p \in Proc : pc[p] \in {"write", "fsync", "return"} /\ fresh[p]
  /\ ~named => acked = {}

\* The line of who is about to fsync or to return is the last of the file, and
\* no line lacks its newline alone.
InPlace ==
  /\ \A p \in Proc : pc[p] \in {"fsync", "return"} =>
        file # <<>> /\ file[Len(file)].id = req[p].id /\ LineParses(file[Len(file)])
  /\ \A n \in DOMAIN file : file[n].form \in {"whole", "torn"}

\* Only the line of the process that is about to fsync is not yet on disk.
Written ==
  /\ synced <= Len(file)
  /\ (\A p \in Proc : pc[p] # "fsync") => synced = Len(file)
  /\ InPlace

\* An acknowledged entry can be read in the part that is on disk.
Readable(f, n, id) == \E m \in 1..n : f[m].id = id /\ LineParses(f[m])
Kept == \A id \in acked : Readable(file, synced, id)

DInv == Discovered /\ Written /\ Kept

LEMMA InitDInv == Init => DInv
BY DEF Init, DInv, Discovered, Written, InPlace, Kept

\* What a prefix that covers the synced lines keeps.
LEMMA CutKept ==
  ASSUME "unended" \notin Faults, IInv, InPlace, NEW f \in Survivors
  PROVE  /\ f \in Seq(Line) /\ synced <= Len(f)
         /\ \A m \in 1..synced : f[m] = file[m]
         /\ \A m \in DOMAIN f : f[m].form \in {"whole", "torn"}
<1>1. file \in Seq(Line) /\ Len(file) \in Nat /\ DOMAIN file = 1..Len(file) /\ synced \in Nat
  BY LenProperties DEF IInv, TypeOK
<1>2. ASSUME NEW n \in synced..Len(file), f = SubSeq(file, 1, n)
      PROVE  /\ f \in Seq(Line) /\ synced <= Len(f)
             /\ \A m \in 1..synced : f[m] = file[m]
             /\ \A m \in DOMAIN f : f[m].form \in {"whole", "torn"}
  <2>1. n \in 0..Len(file)
    BY <1>1
  <2>2. f \in Seq(Line) /\ Len(f) = n /\ \A m \in 1..n : f[m] = file[m]
    BY <1>1, <1>2, <2>1, PrefixChained DEF IInv
  <2>3. DOMAIN f = 1..n
    BY <2>2, LenProperties
  <2>4. \A m \in DOMAIN f : m \in DOMAIN file /\ f[m] = file[m]
    BY <1>1, <2>1, <2>2, <2>3
  <2>5. \A m \in DOMAIN f : f[m].form \in {"whole", "torn"}
    BY <2>4 DEF InPlace
  <2> QED BY <1>1, <1>2, <2>2, <2>5
<1>3. ASSUME NEW n \in (synced+1)..Len(file), NEW l \in Cuts(file[n]),
             f = Append(SubSeq(file, 1, n - 1), l)
      PROVE  /\ f \in Seq(Line) /\ synced <= Len(f)
             /\ \A m \in 1..synced : f[m] = file[m]
             /\ \A m \in DOMAIN f : f[m].form \in {"whole", "torn"}
  <2> DEFINE g == SubSeq(file, 1, n - 1)
  <2>1. n - 1 \in 0..Len(file) /\ n \in DOMAIN file
    BY <1>1
  <2>2. g \in Seq(Line) /\ Len(g) = n - 1 /\ \A m \in 1..(n-1) : g[m] = file[m]
    BY <1>1, <2>1, PrefixChained DEF IInv
  <2>3. file[n] \in Line
    BY <1>1, <2>1, ElementOfSeq
  <2>4. l \in Line /\ l.form = "torn"
    BY <1>3, <2>3 DEF Cuts, Line, Form
  <2> HIDE DEF g
  <2>5. f = Append(g, l)
    BY <1>3 DEF g
  <2>6. /\ f \in Seq(Line) /\ Len(f) = n /\ f[n] = l
        /\ \A m \in 1..(n-1) : f[m] = g[m]
    <3>1. Len(g) + 1 = n
      BY <1>1, <2>2
    <3> QED BY <2>2, <2>4, <2>5, <3>1, AppendProperties
  <2>7. DOMAIN f = 1..n
    BY <2>6, LenProperties
  <2>8. ASSUME NEW m \in DOMAIN f PROVE f[m].form \in {"whole", "torn"}
    <3>1. CASE m = n
      BY <2>4, <2>6, <3>1
    <3>2. CASE m # n
      <4>1. m \in 1..(n-1) /\ m \in DOMAIN file
        BY <1>1, <2>1, <2>7, <3>2
      <4>2. f[m] = file[m]
        BY <2>2, <2>6, <4>1
      <4> QED BY <4>1, <4>2 DEF InPlace
    <3> QED BY <3>1, <3>2
  <2> QED BY <1>1, <2>1, <2>2, <2>6, <2>8
<1> QED BY <1>2, <1>3 DEF Survivors

\* What could be read in the part on disk still can, while that part grows.
LEMMA StillKept ==
  ASSUME Kept, acked' = acked, synced \in Nat, synced' \in Nat, synced <= synced',
         \A m \in 1..synced : file'[m].id = file[m].id /\ (LineParses(file[m]) => LineParses(file'[m]))
  PROVE  Kept'
<1> SUFFICES ASSUME NEW id \in acked PROVE \E m \in 1..synced' : file'[m].id = id /\ LineParses(file'[m])
  BY DEF Kept, Readable
<1>1. PICK m \in 1..synced : file[m].id = id /\ LineParses(file[m])
  BY DEF Kept, Readable
<1>2. m \in 1..synced'
  OBVIOUS
<1> QED BY <1>1, <1>2

\* A process past the opening has the file before it, and is the one that syncs
\* the directory of a new one.
LEMMA InTheFile ==
  ASSUME IInv, DInv, NEW p \in Proc, pc[p] \in {"write", "fsync", "return"}
  PROVE  exists /\ (~named => fresh[p])
<1>1. \A q \in Proc : q # p => pc[q] \in {"idle", "lock"}
  BY Alone DEF Critical
<1>2. exists
  <2> SUFFICES ASSUME ~exists PROVE FALSE
    OBVIOUS
  <2>1. pc[p] \in {"idle", "lock", "open"}
    BY DEF DInv, Discovered
  <2> QED BY <2>1
<1> QED BY <1>1, <1>2 DEF DInv, Discovered

\* No step tears the order of the ledger's disk and its callers.
LEMMA NextDInv ==
  ASSUME Faults \subseteq {"powercut"}, IInv, DInv, [Next]_vars
  PROVE  DInv'
<1>t. /\ file \in Seq(Line) /\ Len(file) \in Nat /\ DOMAIN file = 1..Len(file) /\ synced \in Nat
      /\ pc \in [Proc -> {"idle", "lock"} \cup Critical] /\ fresh \in [Proc -> BOOLEAN]
      /\ req \in [Proc -> [id : 0..MaxOps, payload : Payload]]
  BY LenProperties DEF IInv, TypeOK
<1>1. ASSUME NEW p \in Proc, NEW payload, Call(p, payload) PROVE DInv'
  <2>1. /\ pc' = [pc EXCEPT ![p] = "lock"] /\ fresh' = [fresh EXCEPT ![p] = ~exists] /\ pc[p] = "idle"
        /\ \A q \in Proc : q # p => req'[q] = req[q]
        /\ UNCHANGED <<file, exists, synced, named, acked>>
    BY <1>1 DEF Call, disk, IInv, TypeOK
  <2>2. Discovered'
    BY <1>t, <2>1 DEF DInv, Discovered
  <2>3. Written'
    BY <1>t, <2>1 DEF DInv, Written, InPlace
  <2>4. Kept'
    BY <2>1 DEF DInv, Kept, Readable
  <2> QED BY <2>2, <2>3, <2>4 DEF DInv
<1>2. ASSUME NEW p \in Proc, CallAppend(p) \/ CallAnchor(p) PROVE DInv'
  BY <1>1, <1>2 DEF CallAppend, CallAnchor
<1>3. ASSUME NEW p \in Proc, Acquire(p) PROVE DInv'
  <2>1. /\ pc' = [pc EXCEPT ![p] = "open"] /\ pc[p] = "lock"
        /\ UNCHANGED <<file, exists, synced, named, req, fresh, acked>>
    BY <1>3 DEF Acquire, disk, local
  <2>2. Discovered'
    BY <1>t, <2>1 DEF DInv, Discovered
  <2>3. Written'
    BY <1>t, <2>1 DEF DInv, Written, InPlace
  <2>4. Kept'
    BY <2>1 DEF DInv, Kept, Readable
  <2> QED BY <2>2, <2>3, <2>4 DEF DInv
<1>4. ASSUME NEW p \in Proc, OpenAndReadTail(p) PROVE DInv'
  <2>1. /\ pc' = [pc EXCEPT ![p] = "write"] /\ pc[p] = "open" /\ exists' = TRUE
        /\ UNCHANGED <<file, synced, named, req, fresh, acked>>
    BY <1>4 DEF OpenAndReadTail
  <2>2. \A q \in Proc : q # p => pc[q] \in {"idle", "lock"}
    BY <2>1, Alone DEF Critical
  <2>3. Discovered'
    BY <1>t, <2>1, <2>2 DEF DInv, Discovered
  <2>4. Written' /\ Kept'
    BY <1>t, <2>1 DEF DInv, Written, InPlace, Kept, Readable
  <2> QED BY <2>3, <2>4 DEF DInv
<1>5. ASSUME NEW p \in Proc, RefuseCorrupt(p) PROVE DInv'
  <2>1. /\ pc' = [pc EXCEPT ![p] = "idle"] /\ pc[p] = "open"
        /\ \A q \in Proc : q # p => req'[q] = req[q] /\ fresh'[q] = fresh[q]
        /\ UNCHANGED <<file, exists, synced, named, acked>>
    BY <1>5, <1>t DEF RefuseCorrupt, Leave, Gone, disk
  <2>2. Discovered'
    BY <1>t, <2>1 DEF DInv, Discovered
  <2>3. Written'
    BY <1>t, <2>1 DEF DInv, Written, InPlace
  <2>4. Kept'
    BY <2>1 DEF DInv, Kept, Readable
  <2> QED BY <2>2, <2>3, <2>4 DEF DInv
<1>6. ASSUME NEW p \in Proc, Write(p) PROVE DInv'
  <2>1. /\ pc' = [pc EXCEPT ![p] = "fsync"] /\ pc[p] = "write"
        /\ file' = WithLine(file, NewLine(p)) /\ synced' = SyncedUnder(file)
        /\ UNCHANGED <<exists, named, req, fresh, acked>>
    BY <1>6 DEF Write, local
  <2>2. \A q \in Proc : q # p => pc[q] \in {"idle", "lock"}
    BY <2>1, Alone DEF Critical
  <2>3. ~Joins(file)
    <3>1. file # <<>> => Len(file) \in DOMAIN file
      BY <1>t, EmptySeq
    <3> QED BY <3>1 DEF Joins, DInv, Written, InPlace
  <2>4. file' = Append(file, NewLine(p)) /\ synced' = synced
    BY <2>1, <2>3 DEF WithLine, SyncedUnder
  <2>5. NewLine(p) \in Line /\ NewLine(p).id = req[p].id /\ NewLine(p).form = "whole"
    <3>1. req[p].id \in Id /\ req[p].payload \in Payload /\ tail[p] \in Digest
      BY <2>1 DEF IInv, TypeOK, ReqHasId
    <3> QED BY <3>1 DEF NewLine, Line, Digest, Form
  <2>6. /\ file' \in Seq(Line) /\ file' # <<>> /\ Len(file') = Len(file) + 1 /\ file'[Len(file) + 1] = NewLine(p)
        /\ \A m \in 1..Len(file) : file'[m] = file[m]
    <3>1. /\ file' \in Seq(Line) /\ Len(file') = Len(file) + 1 /\ file'[Len(file) + 1] = NewLine(p)
          /\ \A m \in 1..Len(file) : file'[m] = file[m]
      BY <1>t, <2>4, <2>5, AppendProperties
    <3> QED BY <1>t, <3>1, EmptySeq
  <2>7. DOMAIN file' = 1..Len(file) + 1
    BY <2>6, LenProperties
  <2>8. synced = Len(file)
    BY <2>1, <2>2 DEF DInv, Written, InPlace
  <2>9. Discovered'
    BY <1>t, <2>1, InTheFile DEF DInv, Discovered
  <2>10. Written'
    <3>1. \A q \in Proc : pc'[q] \in {"fsync", "return"} => q = p
      BY <1>t, <2>1, <2>2
    <3>2. file'[Len(file')].id = req'[p].id /\ LineParses(file'[Len(file')])
      BY <2>1, <2>5, <2>6 DEF LineParses
    <3>3. pc'[p] = "fsync" /\ synced' <= Len(file')
      BY <1>t, <2>1, <2>4, <2>6, <2>8
    <3>4. \A n \in DOMAIN file' : file'[n].form \in {"whole", "torn"}
      <4> SUFFICES ASSUME NEW n \in DOMAIN file' PROVE file'[n].form \in {"whole", "torn"}
        OBVIOUS
      <4>1. CASE n = Len(file) + 1
        BY <2>5, <2>6, <4>1
      <4>2. CASE n # Len(file) + 1
        <5>1. n \in DOMAIN file /\ file'[n] = file[n]
          BY <1>t, <2>6, <2>7, <4>2
        <5> QED BY <5>1 DEF DInv, Written, InPlace
      <4> QED BY <4>1, <4>2
    <3> QED BY <2>6, <3>1, <3>2, <3>3, <3>4 DEF Written, InPlace
  <2>11. Kept'
    BY <1>t, <2>1, <2>4, <2>6, <2>8 DEF DInv, Kept, Readable
  <2> QED BY <2>9, <2>10, <2>11 DEF DInv
<1>7. ASSUME NEW p \in Proc, Fsync(p) PROVE DInv'
  <2>1. /\ pc' = [pc EXCEPT ![p] = "return"] /\ pc[p] = "fsync" /\ synced' = Len(file)
        /\ UNCHANGED <<file, exists, named, req, fresh, acked>>
    BY <1>7 DEF Fsync, local
  <2>2. \A q \in Proc : q # p => pc[q] \in {"idle", "lock"}
    BY <2>1, Alone DEF Critical
  <2>3. Discovered'
    BY <1>t, <2>1 DEF DInv, Discovered
  <2>4. Written'
    <3>1. \A q \in Proc : pc'[q] \in {"fsync", "return"} => q = p
      BY <1>t, <2>1, <2>2
    <3>2. file # <<>> /\ file[Len(file)].id = req[p].id /\ LineParses(file[Len(file)])
      BY <2>1 DEF DInv, Written, InPlace
    <3>3. \A n \in DOMAIN file : file[n].form \in {"whole", "torn"}
      BY DEF DInv, Written, InPlace
    <3> QED BY <1>t, <2>1, <3>1, <3>2, <3>3 DEF Written, InPlace
  <2>5. Kept'
    BY <1>t, <2>1, StillKept DEF DInv, Written, InPlace
  <2> QED BY <2>3, <2>4, <2>5 DEF DInv
<1>8. ASSUME NEW p \in Proc, Return(p) PROVE DInv'
  <2>1. /\ pc' = [pc EXCEPT ![p] = "idle"] /\ pc[p] = "return" /\ acked' = acked \cup {req[p].id}
        /\ named' = (named \/ fresh[p]) /\ UNCHANGED <<file, exists, synced>>
        /\ \A q \in Proc : q # p => req'[q] = req[q] /\ fresh'[q] = fresh[q]
    BY <1>8, <1>t DEF Return, Leave, Gone
  <2>2. \A q \in Proc : q # p => pc[q] \in {"idle", "lock"}
    BY <2>1, Alone DEF Critical
  <2>3. exists /\ named'
    BY <1>t, <2>1, InTheFile
  <2>4. Discovered'
    BY <2>1, <2>3 DEF Discovered
  <2>5. synced = Len(file) /\ file # <<>> /\ file[Len(file)].id = req[p].id /\ LineParses(file[Len(file)])
    BY <2>1, <2>2 DEF DInv, Written, InPlace
  <2>6. Written'
    BY <1>t, <2>1, <2>2, <2>5 DEF DInv, Written, InPlace
  <2>7. Len(file) \in 1..synced
    BY <1>t, <2>5, EmptySeq
  <2>8. Kept'
    BY <2>1, <2>5, <2>7 DEF DInv, Kept, Readable
  <2> QED BY <2>4, <2>6, <2>8 DEF DInv
<1>9. ASSUME NEW p \in Proc, WriteFails(p) \/ FsyncFails(p) \/ Kill(p) PROVE DInv'
  BY <1>9 DEF WriteFails, FsyncFails, Kill
<1>10. ASSUME PowerCut PROVE DInv'
  <2>1. /\ pc' = [q \in Proc |-> "idle"] /\ synced' = Len(file') /\ named' = exists' /\ acked' = acked
    BY <1>10 DEF PowerCut
  <2>2. CASE file' \in Survivors /\ exists' = exists
    <3>1. /\ file' \in Seq(Line) /\ synced <= Len(file')
          /\ \A m \in 1..synced : file'[m] = file[m]
          /\ \A m \in DOMAIN file' : file'[m].form \in {"whole", "torn"}
      BY <2>2, CutKept DEF DInv, Written
    <3>2. Len(file') \in Nat
      BY <3>1, LenProperties
    <3>3. exists
      BY <1>10 DEF PowerCut
    <3>4. Discovered'
      BY <2>1, <2>2, <3>3 DEF Discovered
    <3>5. Written'
      BY <2>1, <3>1, <3>2 DEF Written, InPlace
    <3>6. Kept'
      BY <1>t, <2>1, <3>1, <3>2, StillKept DEF DInv
    <3> QED BY <3>4, <3>5, <3>6 DEF DInv
  <2>3. CASE ~named /\ file' = <<>> /\ exists' = FALSE
    <3>1. acked = {} /\ Len(file') = 0 /\ DOMAIN file' = {}
      BY <2>3 DEF DInv, Discovered
    <3> QED BY <2>1, <2>3, <3>1 DEF DInv, Discovered, Written, InPlace, Kept
  <2> QED BY <1>10, <2>2, <2>3 DEF PowerCut
<1>11. ASSUME Edit PROVE DInv'
  <2>1. PICK n \in DOMAIN file, b \in Body : file' = [file EXCEPT ![n].payload = b]
    BY <1>11 DEF Edit
  <2>2. UNCHANGED <<exists, synced, named, pc, req, fresh, acked>>
    BY <1>11 DEF Edit, local
  <2> DEFINE k == [file[n] EXCEPT !.payload = b]
  <2>3. file[n] \in Line
    BY <1>t, ElementOfSeq
  <2>4. k.id = file[n].id /\ k.form = file[n].form /\ file' = [file EXCEPT ![n] = k]
    BY <2>1, <2>3 DEF Line
  <2> HIDE DEF k
  <2>5. /\ DOMAIN file' = DOMAIN file
        /\ \A m \in DOMAIN file : file'[m].id = file[m].id /\ file'[m].form = file[m].form
    BY <1>t, <2>4
  <2>6. file' \in Seq(Line) /\ Len(file') = Len(file)
    <3>1. file' \in Seq(Line)
      BY <1>11, NextIInv DEF Next, IInv, TypeOK
    <3>2. DOMAIN file' = 1..Len(file') /\ Len(file') \in Nat
      BY <3>1, LenProperties
    <3> QED BY <1>t, <2>5, <3>1, <3>2
  <2>7. file # <<>> => Len(file) \in DOMAIN file /\ file' # <<>>
    BY <1>t, <2>6, EmptySeq
  <2>8. Discovered'
    <3>1. file = <<>> => file' = <<>>
      BY <2>6, EmptySeq
    <3> QED BY <2>2, <3>1 DEF DInv, Discovered
  <2>9. Written'
    BY <1>t, <2>2, <2>5, <2>6, <2>7 DEF DInv, Written, InPlace, LineParses
  <2>10. Kept'
    <3>1. synced <= Len(file)
      BY DEF DInv, Written, InPlace
    <3>2. \A m \in 1..synced : m \in DOMAIN file
      BY <1>t, <3>1
    <3>3. \A m \in 1..synced :
            file'[m].id = file[m].id /\ (LineParses(file[m]) => LineParses(file'[m]))
      BY <2>5, <3>2 DEF LineParses
    <3>4. Kept /\ acked' = acked /\ synced' = synced /\ synced \in Nat
      BY <1>t, <2>2 DEF DInv
    <3>5. synced' \in Nat /\ synced <= synced'
      BY <3>4
    <3> QED BY <3>3, <3>4, <3>5, StillKept
  <2> QED BY <2>8, <2>9, <2>10 DEF DInv
<1>12. CASE UNCHANGED vars
  BY <1>12 DEF vars, DInv, Discovered, Written, InPlace, Kept, Readable
<1> QED BY <1>2, <1>3, <1>4, <1>5, <1>6, <1>7, <1>8, <1>9, <1>10, <1>11, <1>12 DEF Next, Advance

\* Where calls do not fail or die half-way: an acknowledged entry can be read
\* back after any loss of power, and an entry is chained only onto what is on
\* disk, for any number of processes, calls and edits.  Neither holds once a
\* process may die inside Append: it may have synced neither line nor directory.
THEOREM DurableUnlessKilled ==
  ASSUME Faults \subseteq {"powercut"}
  PROVE  Spec => []Durable
<1>1. IInv /\ DInv => Durable
  <2> SUFFICES ASSUME IInv, DInv PROVE Durable
    OBVIOUS
  <2>1. synced \in Nat
    BY DEF IInv, TypeOK
  <2>2. AckedSurvives
    <3> SUFFICES ASSUME NEW id \in acked PROVE id \in OnDisk
      BY DEF AckedSurvives
    <3>1. named
      BY DEF DInv, Discovered
    <3>2. PICK m \in 1..synced : file[m].id = id /\ LineParses(file[m])
      BY DEF DInv, Kept, Readable
    <3> QED BY <3>1, <3>2 DEF OnDisk
  <2>3. TailIsDurable
    <3> SUFFICES ASSUME NEW p \in Proc, pc[p] = "write" PROVE synced = Len(file)
      BY DEF TailIsDurable
    <3>1. \A q \in Proc : q # p => pc[q] \in {"idle", "lock"}
      BY Alone DEF Critical
    <3> QED BY <3>1 DEF DInv, Written, InPlace
  <2> QED BY <2>2, <2>3 DEF Durable
<1>2. IInv /\ DInv /\ [Next]_vars => DInv'
  BY NextDInv
<1> QED BY <1>1, <1>2, InitDInv, Invariance, PTL DEF Spec

-----------------------------------------------------------------------------
(* Anchors: verification accepts a readable ledger exactly when every entry   *)
(* that was changed has an anchor, although an anchor is decided on a        *)
(* snapshot that is read without the lock.                                  *)

\* Two lines are one entry, up to a change of its content.
Alike(e, l) ==
  l.id = e.id /\ l.hash = e.hash /\ (l.payload = e.payload \/ {l.payload, e.payload} \subseteq Body)

\* An entry is in the file once; an anchor comes behind the entry it vouches
\* for, and has that entry's stored hash.
FileOk(f) ==
  /\ \A m, n \in DOMAIN f : f[m].id = f[n].id => m = n
  /\ \A a, n \in DOMAIN f : IsAnchor(f[a]) /\ f[n].id = f[a].payload.entry =>
       n < a /\ f[a].payload.stored = f[n].hash

\* Ids are handed out in order: those of the file, those that its anchors name,
\* and those of the calls were.
Numbered ==
  /\ \A n \in DOMAIN file : file[n].id <= ops /\ (IsAnchor(file[n]) => file[n].payload.entry <= ops)
  /\ \A p \in Proc : pc[p] # "idle" => req[p].id <= ops

\* What a call of Append has not written yet.
Pending(p) == pc[p] \in {"lock", "open", "write"}

\* An anchor to be written has the stored hash of the entry it is for.
Vouching(p) ==
  pc[p] # "idle" /\ IsAnchor(req[p]) =>
    /\ req[p].payload.entry < req[p].id
    /\ \A n \in DOMAIN file : file[n].id = req[p].payload.entry => req[p].payload.stored = file[n].hash

\* The id of a call that has not written yet is nowhere.
Unused(p) ==
  Pending(p) =>
    /\ \A n \in DOMAIN file : /\ file[n].id # req[p].id
                              /\ IsAnchor(file[n]) => file[n].payload.entry # req[p].id
    /\ \A q \in Proc : q # p /\ pc[q] # "idle" =>
         /\ req[q].id # req[p].id
         /\ IsAnchor(req[q]) => req[q].payload.entry # req[p].id

Calls == \A p \in Proc : Vouching(p) /\ Unused(p)
AInv  == FileOk(file) /\ Numbered /\ Calls

-----------------------------------------------------------------------------
(* What the invariant gives.                                               *)

\* The anchor that governs is there: the last one.
LEMMA LastOne ==
  ASSUME NEW n \in Nat, NEW W \in SUBSET (1..n), W # {}
  PROVE  \E a \in W : \A b \in W : b <= a
<1> DEFINE D == {n - b : b \in W}
<1>1. D \subseteq Nat /\ D # {}
  <2>1. ASSUME NEW b \in W PROVE n - b \in Nat
    <3>1. b \in 1..n
      OBVIOUS
    <3> QED BY <3>1
  <2> QED BY <2>1
<1>2. PICK d \in D : \A e \in D : ~(<<e, d>> \in OpToRel(<, Nat))
  BY <1>1, NatLessThanWellFounded, WFMin
<1>3. \A e \in D : ~(e < d)
  BY <1>1, <1>2 DEF OpToRel
<1>4. PICK a \in W : d = n - a
  OBVIOUS
<1>5. ASSUME NEW b \in W PROVE b <= a
  <2>1. n - b \in D
    OBVIOUS
  <2>2. ~(n - b < n - a)
    BY <1>3, <1>4, <2>1
  <2>3. a \in 1..n /\ b \in 1..n
    OBVIOUS
  <2> QED BY <2>2, <2>3
<1> QED BY <1>5

LEMMA Suffices == ASSUME IInv, AInv PROVE AnchorsSuffice
<1>t. file \in Seq(Line) /\ Len(file) \in Nat /\ DOMAIN file = 1..Len(file)
  BY LenProperties DEF IInv, TypeOK
<1>1. ASSUME NEW n \in DOMAIN file, AnchorsOf(file, file[n].id) # {} PROVE Vouched(file, n)
  <2>1. AnchorsOf(file, file[n].id) \in SUBSET (1..Len(file))
    BY <1>t DEF AnchorsOf
  <2>2. PICK a \in AnchorsOf(file, file[n].id) : \A b \in AnchorsOf(file, file[n].id) : b <= a
    BY <1>t, <1>1, <2>1, LastOne
  <2>3. a \in DOMAIN file /\ IsAnchor(file[a]) /\ file[a].payload.entry = file[n].id
    BY DEF AnchorsOf
  <2>4. n < a /\ file[a].payload.stored = file[n].hash
    BY <2>3 DEF AInv, FileOk
  <2> QED BY <1>t, <2>2, <2>3, <2>4 DEF Vouched, Governs
<1>2. ASSUME NEW n \in DOMAIN file, Vouched(file, n) PROVE AnchorsOf(file, file[n].id) # {}
  BY <1>2 DEF Vouched, Governs
<1>3. \A n \in DOMAIN file : file[n].prev = PrevHash(file, n)
  BY DEF IInv, Chained
<1> QED BY <1>1, <1>2, <1>3 DEF AnchorsSuffice, Verifies

-----------------------------------------------------------------------------
(* Steps that add no entry.                                                *)

\* A part of the file, in which lines may have changed in form or content.
LEMMA PartOk ==
  ASSUME NEW f, FileOk(f), NEW g, DOMAIN g \subseteq DOMAIN f,
         \A n \in DOMAIN g : Alike(f[n], g[n])
  PROVE  FileOk(g)
<1>1. \A n \in DOMAIN g : n \in DOMAIN f /\ g[n].id = f[n].id /\ g[n].hash = f[n].hash
  BY DEF Alike
<1>2. ASSUME NEW a \in DOMAIN g, IsAnchor(g[a]) PROVE IsAnchor(f[a]) /\ g[a].payload = f[a].payload
  BY <1>2 DEF Alike, IsAnchor
<1>3. ASSUME NEW a \in DOMAIN g, NEW n \in DOMAIN g, IsAnchor(g[a]), g[n].id = g[a].payload.entry
      PROVE  n < a /\ g[a].payload.stored = g[n].hash
  BY <1>1, <1>2, <1>3 DEF FileOk
<1> QED BY <1>1, <1>3 DEF FileOk

LEMMA PartKeepsAInv ==
  ASSUME AInv, DOMAIN file' \subseteq DOMAIN file,
         \A n \in DOMAIN file' : Alike(file[n], file'[n]),
         ops' = ops,
         \A p \in Proc : pc'[p] # "idle" =>
           req'[p] = req[p] /\ pc[p] # "idle" /\ (Pending(p)' => Pending(p))
  PROVE  AInv'
<1>1. FileOk(file')
  BY PartOk DEF AInv
<1>2. ASSUME NEW n \in DOMAIN file'
      PROVE  /\ n \in DOMAIN file /\ file'[n].id = file[n].id /\ file'[n].hash = file[n].hash
             /\ IsAnchor(file'[n]) => IsAnchor(file[n]) /\ file'[n].payload = file[n].payload
  BY DEF Alike, IsAnchor
<1>3. Numbered'
  BY <1>2 DEF AInv, Numbered
<1>4. ASSUME NEW p \in Proc PROVE Vouching(p)'
  BY <1>2 DEF AInv, Calls, Vouching, IsAnchor
<1>5. ASSUME NEW p \in Proc PROVE Unused(p)'
  <2> SUFFICES ASSUME Pending(p)' PROVE Unused(p)'
    BY DEF Unused
  <2>1. pc'[p] # "idle" /\ Pending(p) /\ req'[p] = req[p] /\ Unused(p)
    BY DEF Pending, AInv, Calls
  <2>2. \A n \in DOMAIN file' : /\ file'[n].id # req'[p].id
                                /\ IsAnchor(file'[n]) => file'[n].payload.entry # req'[p].id
    BY <1>2, <2>1 DEF Unused
  <2>3. \A q \in Proc : q # p /\ pc'[q] # "idle" =>
          /\ req'[q].id # req'[p].id
          /\ IsAnchor(req'[q]) => req'[q].payload.entry # req'[p].id
    BY <2>1 DEF Unused
  <2> QED BY <2>2, <2>3 DEF Unused
<1> QED BY <1>1, <1>3, <1>4, <1>5 DEF AInv, Calls

-----------------------------------------------------------------------------
(* Steps that add one.                                                     *)

LEMMA CallKeepsAInv ==
  ASSUME IInv, AInv, NEW p \in Proc, NEW payload, Call(p, payload),
         payload \notin Body =>
           /\ \E n \in DOMAIN file : payload.entry = file[n].id
           /\ \A n \in DOMAIN file : file[n].id = payload.entry => payload.stored = file[n].hash
  PROVE  AInv'
<1>t. /\ pc \in [Proc -> {"idle", "lock"} \cup Critical] /\ req \in [Proc -> [id : 0..MaxOps, payload : Payload]]
      /\ ops \in Nat /\ file \in Seq(Line)
  BY DEF IInv, TypeOK
<1>1. /\ pc' = [pc EXCEPT ![p] = "lock"] /\ pc[p] = "idle" /\ ops' = ops + 1 /\ UNCHANGED file
      /\ req' = [req EXCEPT ![p] = [id |-> ops + 1, payload |-> payload]]
  BY DEF Call, disk
<1>2. /\ pc'[p] = "lock" /\ req'[p].id = ops + 1 /\ req'[p].payload = payload
      /\ \A q \in Proc : q # p => pc'[q] = pc[q] /\ req'[q] = req[q]
  BY <1>t, <1>1
<1>3. /\ \A n \in DOMAIN file : /\ file[n].id \in Nat /\ file[n].id <= ops
                                /\ IsAnchor(file[n]) => file[n].payload.entry \in Nat /\ file[n].payload.entry <= ops
  <2> SUFFICES ASSUME NEW n \in DOMAIN file
               PROVE  /\ file[n].id \in Nat /\ file[n].id <= ops
                      /\ IsAnchor(file[n]) => file[n].payload.entry \in Nat /\ file[n].payload.entry <= ops
    OBVIOUS
  <2>1. file[n] \in Line
    BY <1>t, ElementOfSeq, LenProperties
  <2>2. file[n].id \in Nat
    BY <2>1, BoundAssumption DEF Line, Id
  <2>3. IsAnchor(file[n]) => file[n].payload.entry \in Nat
    BY <2>1, BoundAssumption DEF Line, Id, IsAnchor, Payload, Vouch
  <2> QED BY <2>2, <2>3 DEF AInv, Numbered
<1>4. ASSUME NEW q \in Proc, q # p, pc[q] # "idle"
      PROVE  /\ req[q].id \in Nat /\ req[q].id <= ops
             /\ IsAnchor(req[q]) => /\ req[q].payload.entry \in Nat /\ req[q].payload.entry < req[q].id
  <2>1. req[q].id \in Nat /\ req[q].payload \in Payload
    BY <1>t, BoundAssumption
  <2>2. IsAnchor(req[q]) => req[q].payload.entry \in Nat
    BY <2>1, BoundAssumption DEF Id, IsAnchor, Payload, Vouch
  <2> QED BY <1>4, <2>1, <2>2 DEF AInv, Numbered, Calls, Vouching
<1>5. IsAnchor(req'[p]) => payload.entry \in Nat /\ payload.entry <= ops
  BY <1>2, <1>3 DEF IsAnchor
<1>6. FileOk(file')
  BY <1>1 DEF AInv
<1>7. Numbered'
  <2>1. \A n \in DOMAIN file' : file'[n].id <= ops' /\ (IsAnchor(file'[n]) => file'[n].payload.entry <= ops')
    BY <1>t, <1>1, <1>3
  <2>2. \A q \in Proc : pc'[q] # "idle" => req'[q].id <= ops'
    BY <1>t, <1>1, <1>2, <1>4
  <2> QED BY <2>1, <2>2 DEF Numbered
<1>8. Vouching(p)'
  BY <1>t, <1>1, <1>2, <1>5 DEF Vouching, IsAnchor
<1>9. Unused(p)'
  <2>1. \A n \in DOMAIN file' : /\ file'[n].id # req'[p].id
                                /\ IsAnchor(file'[n]) => file'[n].payload.entry # req'[p].id
    BY <1>t, <1>1, <1>2, <1>3
  <2>2. \A q \in Proc : q # p /\ pc'[q] # "idle" =>
          /\ req'[q].id # req'[p].id
          /\ IsAnchor(req'[q]) => req'[q].payload.entry # req'[p].id
    BY <1>t, <1>2, <1>4
  <2> QED BY <2>1, <2>2 DEF Unused
<1>10. ASSUME NEW q \in Proc, q # p PROVE Vouching(q)' /\ Unused(q)'
  <2>1. Vouching(q) /\ Unused(q)
    BY DEF AInv, Calls
  <2>2. Vouching(q)'
    BY <1>1, <1>2, <1>10, <2>1 DEF Vouching
  <2> SUFFICES ASSUME Pending(q)' PROVE Unused(q)'
    BY <2>2 DEF Unused
  <2>3. Pending(q) /\ req'[q] = req[q] /\ pc[q] # "idle"
    BY <1>2, <1>10 DEF Pending
  <2>4. req'[p].id # req'[q].id
    BY <1>t, <1>2, <1>4, <1>10, <2>3
  <2>5. IsAnchor(req'[p]) => req'[p].payload.entry # req'[q].id
    BY <1>2, <2>1, <2>3 DEF Unused, IsAnchor
  <2>6. \A c \in Proc : c # q /\ pc'[c] # "idle" =>
          /\ req'[c].id # req'[q].id
          /\ IsAnchor(req'[c]) => req'[c].payload.entry # req'[q].id
    BY <1>2, <2>1, <2>3, <2>4, <2>5 DEF Unused
  <2> QED BY <1>1, <2>1, <2>3, <2>6 DEF Unused
<1> QED BY <1>6, <1>7, <1>8, <1>9, <1>10 DEF AInv, Calls

LEMMA AddKeepsAInv ==
  ASSUME IInv, AInv, NEW p \in Proc, pc[p] = "write", NEW l \in Line, file' = Append(file, l),
         l.id = req[p].id, l.payload = req[p].payload, ops' = ops,
         pc'[p] \in {"idle", "fsync"}, pc'[p] = "fsync" => req'[p] = req[p],
         \A q \in Proc : q # p => pc'[q] = pc[q] /\ (pc[q] # "idle" => req'[q] = req[q])
  PROVE  AInv'
<1> DEFINE k == Len(file) + 1
<1>t. file \in Seq(Line) /\ Len(file) \in Nat /\ DOMAIN file = 1..Len(file) /\ ops \in Nat
  BY LenProperties DEF IInv, TypeOK
<1>1. /\ file' \in Seq(Line) /\ Len(file') = k /\ file'[k] = l
      /\ \A n \in 1..Len(file) : file'[n] = file[n]
  BY <1>t, AppendProperties
<1>2. DOMAIN file' = 1..k
  BY <1>1, LenProperties
<1> HIDE DEF k
<1>3. k \in Nat /\ k = Len(file) + 1
  BY <1>t DEF k
<1>4. ASSUME NEW n \in DOMAIN file', n # k PROVE n \in DOMAIN file /\ n < k /\ file'[n] = file[n]
  BY <1>t, <1>1, <1>2, <1>3, <1>4
<1>5. Vouching(p) /\ Unused(p) /\ Pending(p) /\ pc[p] # "idle" /\ l.id <= ops
  BY DEF AInv, Calls, Pending, Numbered
<1>6. l.id \in Nat /\ (IsAnchor(l) => l.payload.entry \in Nat)
  BY BoundAssumption DEF Line, Id, IsAnchor, Payload, Vouch
<1>7. IsAnchor(l) =>
        /\ l.payload.entry < l.id
        /\ \A n \in DOMAIN file : file[n].id = l.payload.entry => l.payload.stored = file[n].hash
  BY <1>5 DEF Vouching, IsAnchor
<1>8. \A n \in DOMAIN file : file[n].id # l.id /\ (IsAnchor(file[n]) => file[n].payload.entry # l.id)
  BY <1>5 DEF Unused
<1>9. FileOk(file')
  <2>1. ASSUME NEW m \in DOMAIN file', NEW n \in DOMAIN file', file'[m].id = file'[n].id PROVE m = n
    BY <1>1, <1>4, <1>8, <2>1 DEF AInv, FileOk
  <2>2. ASSUME NEW a \in DOMAIN file', NEW n \in DOMAIN file',
               IsAnchor(file'[a]), file'[n].id = file'[a].payload.entry
        PROVE  n < a /\ file'[a].payload.stored = file'[n].hash
    <3>1. CASE a # k /\ n # k
      BY <1>4, <2>2, <3>1 DEF AInv, FileOk
    <3>2. CASE a # k /\ n = k
      BY <1>1, <1>4, <1>8, <2>2, <3>2
    <3>3. CASE a = k /\ n = k
      BY <1>1, <1>6, <1>7, <2>2, <3>3
    <3>4. CASE a = k /\ n # k
      BY <1>1, <1>4, <1>7, <2>2, <3>4
    <3> QED BY <3>1, <3>2, <3>3, <3>4
  <2> QED BY <2>1, <2>2 DEF FileOk
<1>10. Numbered'
  <2>1. ASSUME NEW n \in DOMAIN file'
        PROVE  file'[n].id <= ops' /\ (IsAnchor(file'[n]) => file'[n].payload.entry <= ops')
    <3>1. CASE n = k
      BY <1>t, <1>1, <1>5, <1>6, <1>7, <3>1
    <3>2. CASE n # k
      BY <1>4, <3>2 DEF AInv, Numbered
    <3> QED BY <3>1, <3>2
  <2>2. \A q \in Proc : pc'[q] # "idle" => req'[q].id <= ops'
    BY <1>5 DEF AInv, Numbered
  <2> QED BY <2>1, <2>2 DEF Numbered
<1>11. ASSUME NEW q \in Proc, pc'[q] # "idle", IsAnchor(req'[q]) PROVE Vouching(q)'
  <2>1. req'[q] = req[q] /\ pc[q] # "idle" /\ Vouching(q) /\ IsAnchor(req[q])
    BY <1>5, <1>11 DEF AInv, Calls, IsAnchor
  <2>2. l.id # req[q].payload.entry
    <3>1. CASE q = p
      BY <1>6, <1>7, <2>1, <3>1 DEF IsAnchor
    <3>2. CASE q # p
      BY <1>5, <2>1, <3>2 DEF Unused
    <3> QED BY <3>1, <3>2
  <2>3. ASSUME NEW n \in DOMAIN file', file'[n].id = req[q].payload.entry
        PROVE  req[q].payload.stored = file'[n].hash
    <3>1. n # k
      BY <1>1, <2>2, <2>3
    <3> QED BY <1>4, <2>1, <2>3, <3>1 DEF Vouching
  <2> QED BY <2>1, <2>3 DEF Vouching
<1>12. ASSUME NEW q \in Proc, Pending(q)' PROVE Unused(q)'
  <2>1. q # p /\ Pending(q) /\ pc[q] # "idle" /\ req'[q] = req[q] /\ Unused(q)
    BY <1>12 DEF Pending, AInv, Calls
  <2>2. l.id # req[q].id /\ (IsAnchor(l) => l.payload.entry # req[q].id)
    BY <1>5, <2>1 DEF Unused, IsAnchor
  <2>3. \A n \in DOMAIN file' : /\ file'[n].id # req'[q].id
                                /\ IsAnchor(file'[n]) => file'[n].payload.entry # req'[q].id
    BY <1>1, <1>4, <2>1, <2>2 DEF Unused
  <2>4. \A c \in Proc : pc'[c] # "idle" => pc[c] # "idle" /\ req'[c] = req[c]
    BY <1>5
  <2>5. \A c \in Proc : c # q /\ pc'[c] # "idle" =>
          /\ req'[c].id # req'[q].id
          /\ IsAnchor(req'[c]) => req'[c].payload.entry # req'[q].id
    BY <2>1, <2>4 DEF Unused, IsAnchor
  <2> QED BY <2>3, <2>5 DEF Unused
<1> QED BY <1>9, <1>10, <1>11, <1>12 DEF AInv, Calls, Vouching, Unused

\* A write that joins the line before it adds no entry.
LEMMA WriteKeepsAInv ==
  ASSUME IInv, AInv, NEW p \in Proc, pc[p] = "write", NEW l \in Line, file' = WithLine(file, l),
         l.id = req[p].id, l.payload = req[p].payload, ops' = ops,
         pc'[p] \in {"idle", "fsync"}, pc'[p] = "fsync" => req'[p] = req[p],
         \A q \in Proc : q # p => pc'[q] = pc[q] /\ (pc[q] # "idle" => req'[q] = req[q])
  PROVE  AInv'
<1>t. file \in Seq(Line) /\ DOMAIN file = 1..Len(file)
  BY LenProperties DEF IInv, TypeOK
<1>1. CASE Joins(file)
  <2>1. file' = [file EXCEPT ![Len(file)].form = "joined"]
    BY <1>1 DEF WithLine
  <2>2. ASSUME NEW n \in DOMAIN file PROVE Alike(file[n], file'[n])
    <3>1. file[n] \in Line
      BY <1>t, ElementOfSeq
    <3> QED BY <2>1, <3>1 DEF Alike, Line
  <2>3. DOMAIN file' = DOMAIN file
    BY <2>1
  <2>4. \A q \in Proc : pc'[q] # "idle" =>
          req'[q] = req[q] /\ pc[q] # "idle" /\ (Pending(q)' => Pending(q))
    BY DEF Pending
  <2> QED BY <2>2, <2>3, <2>4, PartKeepsAInv
<1>2. CASE ~Joins(file)
  BY <1>2, AddKeepsAInv DEF WithLine
<1> QED BY <1>1, <1>2

\* The file stays, and a call goes on or ends.
LEMMA GoesOnKeepsAInv ==
  ASSUME IInv, AInv, NEW p \in Proc, UNCHANGED <<file, ops>>,
         pc'[p] # "idle" => req'[p] = req[p] /\ pc[p] # "idle" /\ (Pending(p)' => Pending(p)),
         \A q \in Proc : q # p => pc'[q] = pc[q] /\ req'[q] = req[q]
  PROVE  AInv'
<1>1. \A n \in DOMAIN file' : Alike(file[n], file'[n])
  BY DEF Alike
<1>2. ASSUME NEW q \in Proc, pc'[q] # "idle"
      PROVE  req'[q] = req[q] /\ pc[q] # "idle" /\ (Pending(q)' => Pending(q))
  BY <1>2 DEF Pending
<1> QED BY <1>1, <1>2, PartKeepsAInv

LEMMA NextAInv == ASSUME IInv, AInv, [Next]_vars PROVE AInv'
<1>t. /\ pc \in [Proc -> {"idle", "lock"} \cup Critical] /\ req \in [Proc -> [id : 0..MaxOps, payload : Payload]]
      /\ file \in Seq(Line) /\ Len(file) \in Nat /\ DOMAIN file = 1..Len(file) /\ synced \in Nat
  BY LenProperties DEF IInv, TypeOK
<1>1. ASSUME NEW p \in Proc, CallAppend(p) PROVE AInv'
  BY <1>1, CallKeepsAInv DEF CallAppend
<1>2. ASSUME NEW p \in Proc, CallAnchor(p) PROVE AInv'
  <2>1. PICK n \in DOMAIN file :
          Call(p, [entry |-> file[n].id, stored |-> file[n].hash, recomputed |-> HashOf(file[n])])
    BY <1>2 DEF CallAnchor
  <2> DEFINE payload == [entry |-> file[n].id, stored |-> file[n].hash, recomputed |-> HashOf(file[n])]
  <2>2. payload.entry = file[n].id /\ payload.stored = file[n].hash
    OBVIOUS
  <2>3. \A m \in DOMAIN file : file[m].id = payload.entry => payload.stored = file[m].hash
    BY <2>2 DEF AInv, FileOk
  <2>4. Call(p, payload)
    BY <2>1
  <2> HIDE DEF payload
  <2> QED BY <2>2, <2>3, <2>4, CallKeepsAInv
<1>3. ASSUME NEW p \in Proc, Acquire(p) PROVE AInv'
  <2>1. /\ pc'[p] # "idle" => req'[p] = req[p] /\ pc[p] # "idle" /\ (Pending(p)' => Pending(p))
        /\ \A q \in Proc : q # p => pc'[q] = pc[q] /\ req'[q] = req[q]
        /\ UNCHANGED <<file, ops>>
    BY <1>t, <1>3 DEF Acquire, disk, local, Pending
  <2> QED BY <2>1, GoesOnKeepsAInv
<1>4. ASSUME NEW p \in Proc, OpenAndReadTail(p) \/ Fsync(p) PROVE AInv'
  <2>1. /\ pc'[p] # "idle" => req'[p] = req[p] /\ pc[p] # "idle" /\ (Pending(p)' => Pending(p))
        /\ \A q \in Proc : q # p => pc'[q] = pc[q] /\ req'[q] = req[q]
        /\ UNCHANGED <<file, ops>>
    BY <1>t, <1>4 DEF OpenAndReadTail, Fsync, local, Pending
  <2> QED BY <2>1, GoesOnKeepsAInv
<1>5. ASSUME NEW p \in Proc, RefuseCorrupt(p) \/ FsyncFails(p) \/ Return(p) \/ Kill(p) PROVE AInv'
  <2>1. Gone(p) /\ UNCHANGED <<file, ops>>
    BY <1>5 DEF RefuseCorrupt, FsyncFails, Return, Kill, Leave, disk
  <2>2. pc'[p] = "idle" /\ \A q \in Proc : q # p => pc'[q] = pc[q] /\ req'[q] = req[q]
    BY <1>t, <2>1 DEF Gone
  <2> QED BY <2>1, <2>2, GoesOnKeepsAInv
<1>6. ASSUME NEW p \in Proc, pc[p] = "write" PROVE NewLine(p) \in Line
  <2>1. req[p].id \in Id /\ req[p].payload \in Payload /\ tail[p] \in Digest
    BY <1>6 DEF IInv, TypeOK, ReqHasId
  <2> QED BY <2>1 DEF NewLine, Line, Digest, Form
<1>7. ASSUME NEW p \in Proc, Write(p) PROVE AInv'
  <2>1. /\ pc[p] = "write" /\ file' = WithLine(file, NewLine(p)) /\ ops' = ops
        /\ pc'[p] = "fsync" /\ req' = req /\ \A q \in Proc : q # p => pc'[q] = pc[q]
    BY <1>t, <1>7 DEF Write, local
  <2>2. NewLine(p).id = req[p].id /\ NewLine(p).payload = req[p].payload
    BY DEF NewLine
  <2> QED BY <1>6, <2>1, <2>2, WriteKeepsAInv
<1>8. ASSUME NEW p \in Proc, WriteFails(p) PROVE AInv'
  <2>1. /\ pc[p] = "write" /\ ops' = ops /\ pc'[p] = "idle"
        /\ \A q \in Proc : q # p => pc'[q] = pc[q] /\ req'[q] = req[q]
    BY <1>t, <1>8 DEF WriteFails, Leave, Gone
  <2>2. CASE file' = file
    BY <2>1, <2>2, GoesOnKeepsAInv
  <2>3. ASSUME NEW l \in Cuts(NewLine(p)), file' = WithLine(file, l) PROVE AInv'
    <3>1. l \in Line
      BY <1>6, <2>1, CutsOfLine
    <3>2. l.id = req[p].id /\ l.payload = req[p].payload
      BY DEF Cuts, NewLine
    <3> QED BY <2>1, <2>3, <3>1, <3>2, WriteKeepsAInv
  <2> QED BY <1>8, <2>2, <2>3 DEF WriteFails
<1>9. ASSUME PowerCut PROVE AInv'
  <2>1. ops' = ops /\ \A p \in Proc : pc'[p] = "idle"
    BY <1>9 DEF PowerCut
  <2> SUFFICES DOMAIN file' \subseteq DOMAIN file /\ \A n \in DOMAIN file' : Alike(file[n], file'[n])
    BY <2>1, PartKeepsAInv
  <2>2. CASE file' = <<>>
    BY <2>2
  <2>3. ASSUME NEW n \in synced..Len(file), file' = SubSeq(file, 1, n)
        PROVE  DOMAIN file' \subseteq DOMAIN file /\ \A m \in DOMAIN file' : Alike(file[m], file'[m])
    <3>1. n \in 0..Len(file)
      BY <1>t
    <3>2. file' \in Seq(Line) /\ Len(file') = n /\ \A m \in 1..n : file'[m] = file[m]
      BY <1>t, <2>3, <3>1, PrefixChained DEF IInv
    <3>3. DOMAIN file' = 1..n
      BY <3>2, LenProperties
    <3> QED BY <1>t, <3>1, <3>2, <3>3 DEF Alike
  <2>4. ASSUME NEW n \in (synced+1)..Len(file), NEW l \in Cuts(file[n]),
               file' = Append(SubSeq(file, 1, n - 1), l)
        PROVE  DOMAIN file' \subseteq DOMAIN file /\ \A m \in DOMAIN file' : Alike(file[m], file'[m])
    <3> DEFINE g == SubSeq(file, 1, n - 1)
    <3>1. n - 1 \in 0..Len(file) /\ n \in DOMAIN file
      BY <1>t
    <3>2. g \in Seq(Line) /\ Len(g) = n - 1 /\ \A m \in 1..(n-1) : g[m] = file[m]
      BY <1>t, <3>1, PrefixChained DEF IInv
    <3>3. file[n] \in Line
      BY <1>t, <3>1, ElementOfSeq
    <3>4. l \in Line /\ Alike(file[n], l)
      BY <3>3 DEF Cuts, Line, Form, Alike
    <3> HIDE DEF g
    <3>5. file' = Append(g, l)
      BY <2>4 DEF g
    <3>6. /\ file' \in Seq(Line) /\ Len(file') = n /\ file'[n] = l
          /\ \A m \in 1..(n-1) : file'[m] = g[m]
      <4>1. Len(g) + 1 = n
        BY <1>t, <3>2
      <4> QED BY <3>2, <3>4, <3>5, <4>1, AppendProperties
    <3>7. DOMAIN file' = 1..n
      BY <3>6, LenProperties
    <3>8. ASSUME NEW m \in DOMAIN file' PROVE Alike(file[m], file'[m])
      <4>1. CASE m = n
        BY <3>4, <3>6, <4>1
      <4>2. CASE m # n
        <5>1. m \in 1..(n-1)
          BY <1>t, <3>7, <4>2
        <5> QED BY <3>2, <3>6, <5>1 DEF Alike
      <4> QED BY <4>1, <4>2
    <3> QED BY <1>t, <3>1, <3>7, <3>8
  <2> QED BY <1>9, <2>2, <2>3, <2>4 DEF PowerCut, Survivors
<1>10. ASSUME Edit PROVE AInv'
  <2>1. PICK n \in DOMAIN file, b \in Body :
          file[n].payload \in Body /\ file' = [file EXCEPT ![n].payload = b]
    BY <1>10 DEF Edit
  <2>2. ASSUME NEW m \in DOMAIN file PROVE Alike(file[m], file'[m])
    <3>1. file[m] \in Line
      BY <1>t, ElementOfSeq
    <3> QED BY <2>1, <3>1 DEF Alike, Line
  <2>3. DOMAIN file' = DOMAIN file
    BY <2>1
  <2>4. \A p \in Proc : pc'[p] = pc[p] /\ req'[p] = req[p]
    BY <1>10 DEF Edit, local
  <2>5. ops' = ops
    BY <1>10 DEF Edit
  <2> QED BY <2>2, <2>3, <2>4, <2>5, PartKeepsAInv DEF Pending
<1>11. CASE UNCHANGED vars
  <2>1. file' = file /\ ops' = ops /\ pc' = pc /\ req' = req
    BY <1>11 DEF vars
  <2>2. \A n \in DOMAIN file' : Alike(file[n], file'[n])
    BY <2>1 DEF Alike
  <2> QED BY <2>1, <2>2, PartKeepsAInv DEF Pending
<1> QED BY <1>1, <1>2, <1>3, <1>4, <1>5, <1>7, <1>8, <1>9, <1>10, <1>11 DEF Next, Advance

\* What Anchor decided on a snapshot that it read without the lock is what
\* Verify needs, wherever the anchor landed: a readable ledger is accepted exactly
\* when every entry whose content no longer matches its hash has an anchor.
THEOREM AnchorsAreEnough == Spec => []AnchorsSuffice
<1>1. Init => AInv
  BY DEF Init, AInv, FileOk, Numbered, Calls, Vouching, Unused, Pending
<1>2. IInv /\ AInv /\ [Next]_vars => AInv'
  BY NextAInv
<1>3. IInv /\ AInv => AnchorsSuffice
  BY Suffices
<1> QED BY <1>1, <1>2, <1>3, Invariance, PTL DEF Spec

-----------------------------------------------------------------------------
(* The audit trail that the ledger implements, where the loss of power is the *)
(* only failure, and where it is none of the failures.                      *)

\* A line goes behind the lines there are.
LEMMA LineAdded ==
  ASSUME IInv, InPlace, NEW l \in Line, l.form \in {"whole", "torn"}, file' = WithLine(file, l)
  PROVE  /\ file' = Append(file, l) /\ file' \in Seq(Line) /\ Len(file') = Len(file) + 1
         /\ DOMAIN file' = 1..(Len(file) + 1) /\ \A m \in 1..Len(file) : file'[m] = file[m]
         /\ file'[Len(file) + 1] = l /\ \A n \in DOMAIN file' : file'[n].form \in {"whole", "torn"}
<1>t. file \in Seq(Line) /\ Len(file) \in Nat /\ DOMAIN file = 1..Len(file)
  BY LenProperties DEF IInv, TypeOK
<1>1. ~Joins(file)
  <2>1. file # <<>> => Len(file) \in DOMAIN file
    BY <1>t, EmptySeq
  <2> QED BY <2>1 DEF Joins, InPlace
<1>2. file' = Append(file, l)
  BY <1>1 DEF WithLine
<1>3. /\ file' \in Seq(Line) /\ Len(file') = Len(file) + 1 /\ file'[Len(file) + 1] = l
      /\ \A m \in 1..Len(file) : file'[m] = file[m]
  BY <1>t, <1>2, AppendProperties
<1>4. DOMAIN file' = 1..(Len(file) + 1)
  BY <1>3, LenProperties
<1>5. ASSUME NEW n \in DOMAIN file' PROVE file'[n].form \in {"whole", "torn"}
  <2>1. n = Len(file) + 1 \/ n \in 1..Len(file)
    BY <1>t, <1>4
  <2> QED BY <1>t, <1>3, <2>1 DEF InPlace
<1> QED BY <1>2, <1>3, <1>4, <1>5

\* What is left of a line whose write fails, where none is cut just before its
\* newline.
LEMMA WriteLeaves ==
  ASSUME "unended" \notin Faults, IInv, NEW p \in Proc, pc[p] = "write", NEW l \in Cuts(NewLine(p))
  PROVE  l \in Line /\ l.form = "torn"
<1>1. NewLine(p) \in Line
  <2>1. req[p].id \in Id /\ req[p].payload \in Payload /\ tail[p] \in Digest
    BY DEF IInv, TypeOK, ReqHasId
  <2> QED BY <2>1 DEF NewLine, Line, Digest, Form
<1>2. l = [NewLine(p) EXCEPT !.form = "torn"]
  BY DEF Cuts
<1> QED BY <1>1, <1>2 DEF Line, Form

\* Only the last line may be one that cannot be read.
TornLast(f) == \A n \in DOMAIN f : n # Len(f) => LineParses(f[n])

\* The readable lines of f are the first k, and t lists their ids.
ReadAs(f, k, t) ==
  /\ k \in 0..Len(f) /\ \A n \in DOMAIN f : LineParses(f[n]) <=> n <= k
  /\ t \in Seq(Id) /\ Len(t) = k /\ DOMAIN t = 1..k /\ \A n \in 1..k : t[n] = f[n].id

LEMMA Reading ==
  ASSUME NEW f \in Seq(Line), TornLast(f)
  PROVE  \E k : ReadAs(f, k, [n \in {m \in DOMAIN f : LineParses(f[m])} |-> f[n].id])
<1> DEFINE t == [n \in {m \in DOMAIN f : LineParses(f[m])} |-> f[n].id]
<1>1. Len(f) \in Nat /\ DOMAIN f = 1..Len(f) /\ \A n \in 1..Len(f) : f[n] \in Line
  BY LenProperties, ElementOfSeq
<1>2. \E k \in 0..Len(f) : \A n \in DOMAIN f : LineParses(f[n]) <=> n <= k
  <2>1. CASE Parses(f)
    <3>1. Len(f) \in 0..Len(f) /\ \A n \in DOMAIN f : LineParses(f[n]) /\ n <= Len(f)
      BY <1>1, <2>1 DEF Parses
    <3> QED BY <3>1
  <2>2. CASE ~Parses(f)
    <3>1. PICK m \in DOMAIN f : ~LineParses(f[m])
      BY <2>2 DEF Parses
    <3>2. m = Len(f)
      BY <3>1 DEF TornLast
    <3>3. \A n \in DOMAIN f : LineParses(f[n]) <=> n <= Len(f) - 1
      BY <1>1, <3>1, <3>2 DEF TornLast
    <3>4. Len(f) - 1 \in 0..Len(f)
      BY <1>1, <3>1, <3>2
    <3> QED BY <3>3, <3>4
  <2> QED BY <2>1, <2>2
<1>3. PICK k \in 0..Len(f) : \A n \in DOMAIN f : LineParses(f[n]) <=> n <= k
  BY <1>2
<1>4. k \in Nat /\ \A n \in 1..k : n \in DOMAIN f
  BY <1>1
<1>5. {m \in DOMAIN f : LineParses(f[m])} = 1..k
  BY <1>1, <1>3, <1>4
<1>6. DOMAIN t = 1..k /\ \A n \in 1..k : t[n] = f[n].id
  BY <1>5
<1>7. \A n \in 1..k : f[n].id \in Id
  BY <1>1, <1>4 DEF Line
<1>8. t = [n \in 1..k |-> f[n].id]
  BY <1>5
<1> HIDE DEF t
<1>9. t \in [1..k -> Id]
  BY <1>7, <1>8
<1>10. t \in Seq(Id)
  BY <1>4, <1>9, SeqDef
<1>11. Len(t) = k
  BY <1>4, <1>6, <1>10, LenProperties
<1>12. ReadAs(f, k, t)
  BY <1>3, <1>6, <1>10, <1>11 DEF ReadAs
<1> QED BY <1>12 DEF t

\* A write by a process that has read the whole file adds its line behind it.
LEMMA WriteAdds ==
  ASSUME IInv, InPlace, NEW p \in Proc, Write(p)
  PROVE  /\ file' = Append(file, NewLine(p)) /\ file' \in Seq(Line) /\ Len(file') = Len(file) + 1
         /\ DOMAIN file' = 1..(Len(file) + 1) /\ \A m \in 1..Len(file) : file'[m] = file[m]
         /\ file'[Len(file) + 1].id = req[p].id /\ LineParses(file'[Len(file) + 1])
         /\ \A n \in DOMAIN file' : file'[n].form \in {"whole", "torn"}
<1>1. NewLine(p) \in Line /\ NewLine(p).id = req[p].id /\ NewLine(p).form = "whole"
  <2>1. req[p].id \in Id /\ req[p].payload \in Payload /\ tail[p] \in Digest
    BY DEF Write, IInv, TypeOK, ReqHasId
  <2> QED BY <2>1 DEF NewLine, Line, Digest, Form
<1>2. file' = WithLine(file, NewLine(p))
  BY DEF Write
<1> QED BY <1>1, <1>2, LineAdded DEF LineParses

\* What survives a loss of power is a part of the file, with its last line cut
\* or not.
LEMMA SurvivorIsPart ==
  ASSUME IInv, NEW f \in Survivors
  PROVE  /\ f \in Seq(Line) /\ Len(f) <= Len(file)
         /\ \A m \in 1..Len(f) : f[m].id = file[m].id
         /\ \A m \in 1..Len(f) : m # Len(f) \/ f[m].form = "whole" => f[m] = file[m]
<1>1. file \in Seq(Line) /\ Len(file) \in Nat /\ DOMAIN file = 1..Len(file) /\ synced \in Nat
  BY LenProperties DEF IInv, TypeOK
<1>2. ASSUME NEW n \in synced..Len(file), f = SubSeq(file, 1, n)
      PROVE  f \in Seq(Line) /\ Len(f) = n /\ \A m \in 1..n : f[m] = file[m]
  <2>1. n \in 0..Len(file)
    BY <1>1
  <2> QED BY <1>1, <1>2, <2>1, PrefixChained DEF IInv
<1>3. ASSUME NEW n \in (synced+1)..Len(file), NEW l \in Cuts(file[n]),
             f = Append(SubSeq(file, 1, n - 1), l)
      PROVE  /\ f \in Seq(Line) /\ Len(f) = n /\ f[n].id = file[n].id /\ f[n].form \in {"torn", "unended"}
             /\ \A m \in 1..(n - 1) : f[m] = file[m]
  <2> DEFINE g == SubSeq(file, 1, n - 1)
  <2>1. n - 1 \in 0..Len(file) /\ n \in DOMAIN file
    BY <1>1
  <2>2. g \in Seq(Line) /\ Len(g) = n - 1 /\ \A m \in 1..(n-1) : g[m] = file[m]
    BY <1>1, <2>1, PrefixChained DEF IInv
  <2>3. file[n] \in Line
    BY <1>1, <2>1, ElementOfSeq
  <2>4. l \in Line /\ l.id = file[n].id /\ l.form \in {"torn", "unended"}
    BY <1>3, <2>3 DEF Cuts, Line, Form
  <2> HIDE DEF g
  <2>5. f = Append(g, l) /\ Len(g) + 1 = n
    BY <1>1, <1>3, <2>2 DEF g
  <2>6. /\ f \in Seq(Line) /\ Len(f) = n /\ f[n] = l
        /\ \A m \in 1..(n-1) : f[m] = g[m]
    BY <2>2, <2>4, <2>5, AppendProperties
  <2> QED BY <2>2, <2>4, <2>6
<1>4. CASE \E n \in synced..Len(file) : f = SubSeq(file, 1, n)
  BY <1>1, <1>2, <1>4
<1>5. CASE \E n \in (synced+1)..Len(file) : \E l \in Cuts(file[n]) : f = Append(SubSeq(file, 1, n - 1), l)
  <2>1. PICK n \in (synced+1)..Len(file) :
          /\ f \in Seq(Line) /\ Len(f) = n /\ f[n].id = file[n].id /\ f[n].form \in {"torn", "unended"}
          /\ \A m \in 1..(n - 1) : f[m] = file[m]
    BY <1>3, <1>5
  <2>2. \A m \in 1..n : m = n \/ m \in 1..(n - 1)
    BY <1>1
  <2> QED BY <1>1, <2>1, <2>2 DEF LineParses
<1> QED BY <1>4, <1>5 DEF Survivors

LEMMA InPart == \A m, n \in Nat : m <= n => \A i \in 1..m : i \in 1..n /\ (i # m => i # n)
OBVIOUS

\* Where no write ends just before a newline: nobody but the holder of the lock
\* writes, so that its line stays the last one until it returns.
LEMMA NextInPlace ==
  ASSUME "unended" \notin Faults, IInv, InPlace, [Next]_vars
  PROVE  InPlace'
<1>t. /\ file \in Seq(Line) /\ Len(file) \in Nat /\ DOMAIN file = 1..Len(file)
      /\ pc \in [Proc -> {"idle", "lock"} \cup Critical] /\ req \in [Proc -> [id : 0..MaxOps, payload : Payload]]
  BY LenProperties DEF IInv, TypeOK
<1>1. ASSUME NEW p \in Proc, NEW x \in {"idle", "lock", "open", "write"}, pc' = [pc EXCEPT ![p] = x],
             \A q \in Proc : q # p => req'[q] = req[q], UNCHANGED file
      PROVE  InPlace'
  BY <1>1, <1>t DEF InPlace
<1>2. ASSUME NEW p \in Proc, CallAppend(p) \/ CallAnchor(p) \/ Acquire(p) \/ OpenAndReadTail(p) PROVE InPlace'
  <2>1. /\ \E x \in {"lock", "open", "write"} : pc' = [pc EXCEPT ![p] = x]
        /\ \A q \in Proc : q # p => req'[q] = req[q]
        /\ UNCHANGED file
    BY <1>2, <1>t DEF CallAppend, CallAnchor, Call, Acquire, OpenAndReadTail, disk, local
  <2> QED BY <1>1, <2>1
<1>3. ASSUME NEW p \in Proc, Gone(p), UNCHANGED file PROVE InPlace'
  BY <1>1, <1>3, <1>t DEF Gone
<1>4. ASSUME NEW p \in Proc, RefuseCorrupt(p) \/ FsyncFails(p) \/ Return(p) \/ Kill(p) PROVE InPlace'
  BY <1>3, <1>4 DEF RefuseCorrupt, FsyncFails, Return, Kill, Leave, disk
<1>5. ASSUME NEW p \in Proc, Write(p) PROVE InPlace'
  <2>1. pc' = [pc EXCEPT ![p] = "fsync"] /\ pc[p] = "write" /\ req' = req
    BY <1>5 DEF Write, local
  <2>2. \A q \in Proc : q # p => pc[q] \in {"idle", "lock"}
    BY <2>1, Alone DEF Critical
  <2>3. /\ file' \in Seq(Line) /\ Len(file') = Len(file) + 1
        /\ file'[Len(file) + 1].id = req[p].id /\ LineParses(file'[Len(file) + 1])
        /\ \A n \in DOMAIN file' : file'[n].form \in {"whole", "torn"}
    BY <1>5, WriteAdds
  <2>4. file' # <<>>
    BY <1>t, <2>3, EmptySeq
  <2>5. \A q \in Proc : pc'[q] \in {"fsync", "return"} => q = p
    BY <1>t, <2>1, <2>2
  <2> QED BY <2>1, <2>3, <2>4, <2>5 DEF InPlace
<1>6. ASSUME NEW p \in Proc, WriteFails(p) PROVE InPlace'
  <2>1. pc[p] = "write" /\ Gone(p)
    BY <1>6 DEF WriteFails, Leave
  <2>2. CASE file' = file
    BY <1>3, <2>1, <2>2
  <2>3. ASSUME NEW l \in Cuts(NewLine(p)), file' = WithLine(file, l) PROVE InPlace'
    <3>1. \A n \in DOMAIN file' : file'[n].form \in {"whole", "torn"}
      BY <2>1, <2>3, WriteLeaves, LineAdded
    <3>2. \A q \in Proc : q # p => pc[q] \in {"idle", "lock"}
      BY <2>1, Alone DEF Critical
    <3>3. \A q \in Proc : pc'[q] \notin {"fsync", "return"}
      BY <1>t, <2>1, <3>2 DEF Gone
    <3> QED BY <3>1, <3>3 DEF InPlace
  <2> QED BY <1>6, <2>2, <2>3 DEF WriteFails
<1>7. ASSUME NEW p \in Proc, Fsync(p) PROVE InPlace'
  <2>1. pc' = [pc EXCEPT ![p] = "return"] /\ pc[p] = "fsync" /\ req' = req /\ file' = file
    BY <1>7 DEF Fsync, local
  <2> QED BY <1>t, <2>1 DEF InPlace
<1>8. ASSUME PowerCut PROVE InPlace'
  <2>1. pc' = [q \in Proc |-> "idle"]
    BY <1>8 DEF PowerCut
  <2>2. CASE file' = <<>>
    BY <2>1, <2>2 DEF InPlace
  <2>3. CASE file' \in Survivors
    <3>1. \A m \in DOMAIN file' : file'[m].form \in {"whole", "torn"}
      BY <2>3, CutKept
    <3> QED BY <2>1, <3>1 DEF InPlace
  <2> QED BY <1>8, <2>2, <2>3 DEF PowerCut
<1>9. ASSUME Edit PROVE InPlace'
  <2>1. PICK n \in DOMAIN file, b \in Body : file' = [file EXCEPT ![n].payload = b]
    BY <1>9 DEF Edit
  <2>2. UNCHANGED <<pc, req>>
    BY <1>9 DEF Edit, local
  <2>3. file[n] \in Line
    BY <1>t, ElementOfSeq
  <2>4. \A m \in DOMAIN file : file'[m].form = file[m].form /\ file'[m].id = file[m].id
    BY <2>1, <2>3 DEF Line
  <2>5. DOMAIN file' = DOMAIN file /\ file' \in Seq(Line)
    BY <1>9, <2>1, NextIInv DEF Next, IInv, TypeOK
  <2>6. Len(file') = Len(file) /\ (file # <<>> => Len(file) \in DOMAIN file /\ file' # <<>>)
    BY <1>t, <2>5, LenProperties, EmptySeq
  <2> QED BY <2>2, <2>4, <2>5, <2>6 DEF InPlace, LineParses
<1>10. CASE UNCHANGED vars
  BY <1>10 DEF vars, local, InPlace
<1> QED BY <1>2, <1>4, <1>5, <1>6, <1>7, <1>8, <1>9, <1>10 DEF Next, Advance

\* Only the last line is ever one that cannot be read.
LEMMA NextTornLast ==
  ASSUME "unended" \notin Faults, IInv, InPlace, HasRead, TornLast(file), [Next]_vars
  PROVE  TornLast(file')
<1>t. file \in Seq(Line) /\ Len(file) \in Nat /\ DOMAIN file = 1..Len(file)
  BY LenProperties DEF IInv, TypeOK
<1>1. CASE UNCHANGED file
  BY <1>1
<1>2. ASSUME Parses(file), Len(file') = Len(file) + 1, DOMAIN file' = 1..(Len(file) + 1),
             \A m \in 1..Len(file) : file'[m] = file[m]
      PROVE  TornLast(file')
  <2>1. \A m \in 1..Len(file) : file'[m] = file[m] /\ LineParses(file[m])
    BY <1>t, <1>2 DEF Parses
  <2>2. \A m \in DOMAIN file' : m # Len(file') => m \in 1..Len(file)
    BY <1>t, <1>2
  <2> QED BY <2>1, <2>2 DEF TornLast
<1>3. ASSUME NEW p \in Proc, Write(p) \/ WriteFails(p) PROVE TornLast(file')
  <2>1. pc[p] = "write" /\ Parses(file)
    BY <1>3 DEF HasRead, Write, WriteFails
  <2>2. CASE Write(p)
    BY <1>2, <2>1, <2>2, WriteAdds
  <2>3. ASSUME NEW l \in Cuts(NewLine(p)), file' = WithLine(file, l) PROVE TornLast(file')
    <3>1. l \in Line /\ l.form \in {"whole", "torn"}
      BY <2>1, WriteLeaves
    <3> QED BY <1>2, <2>1, <2>3, <3>1, LineAdded
  <2> QED BY <1>1, <1>3, <2>2, <2>3 DEF WriteFails
<1>4. ASSUME PowerCut PROVE TornLast(file')
  <2>1. CASE file' \in Survivors
    <3>1. /\ file' \in Seq(Line) /\ Len(file') <= Len(file)
          /\ \A m \in 1..Len(file') : m # Len(file') \/ file'[m].form = "whole" => file'[m] = file[m]
      BY <2>1, SurvivorIsPart
    <3>2. DOMAIN file' = 1..Len(file') /\ Len(file') \in Nat
      BY <3>1, LenProperties
    <3>3. ASSUME NEW m \in DOMAIN file', m # Len(file') PROVE LineParses(file'[m])
      <4>1. m \in 1..Len(file')
        BY <3>2
      <4>2. file'[m] = file[m]
        BY <3>1, <3>3, <4>1
      <4>3. m \in 1..Len(file) /\ m # Len(file)
        BY <1>t, <3>1, <3>2, <3>3, <4>1, InPart
      <4> QED BY <1>t, <4>2, <4>3 DEF TornLast
    <3> QED BY <3>3 DEF TornLast
  <2>2. CASE file' = <<>>
    BY <2>2 DEF TornLast
  <2> QED BY <1>4, <2>1, <2>2 DEF PowerCut
<1>5. ASSUME Edit PROVE TornLast(file')
  <2>1. PICK n \in DOMAIN file, b \in Body : LineParses(file[n]) /\ file' = [file EXCEPT ![n].payload = b]
    BY <1>5 DEF Edit
  <2>2. file' \in Seq(Line)
    BY <1>5, NextIInv DEF Next, IInv, TypeOK
  <2>3. DOMAIN file' = DOMAIN file
    BY <2>1
  <2>4. Len(file') = Len(file)
    BY <1>t, <2>2, <2>3, LenProperties
  <2>5. file[n] \in Line
    BY <1>t, ElementOfSeq
  <2>6. \A m \in DOMAIN file : file'[m].form = file[m].form
    BY <2>1, <2>5 DEF Line
  <2> QED BY <2>3, <2>4, <2>6 DEF TornLast, LineParses
<1>6. ASSUME NEW p \in Proc, CallAppend(p) \/ CallAnchor(p) PROVE UNCHANGED file
  BY <1>6 DEF CallAppend, CallAnchor, Call, disk
<1>7. ASSUME NEW p \in Proc, \/ Acquire(p) \/ OpenAndReadTail(p) \/ RefuseCorrupt(p) \/ Fsync(p)
                              \/ FsyncFails(p) \/ Return(p) \/ Kill(p)
      PROVE  UNCHANGED file
  BY <1>7 DEF Acquire, OpenAndReadTail, RefuseCorrupt, Fsync, FsyncFails, Return, Kill, disk
<1>8. CASE UNCHANGED vars
  BY <1>1, <1>8 DEF vars
<1> QED BY <1>1, <1>2, <1>3, <1>4, <1>5, <1>6, <1>7, <1>8 DEF Next, Advance

\* What makes the readable lines a trail, whatever is lost with the power.
TInv == IInv /\ HasRead /\ AInv /\ InPlace /\ TornLast(file)

LEMMA InitTInv == Init => TInv
BY InitIInv
   DEF Init, TInv, HasRead, AInv, FileOk, Numbered, Calls, Vouching, Unused, Pending, InPlace, TornLast

LEMMA NextTInv == ASSUME "unended" \notin Faults, TInv, [Next]_vars PROVE TInv'
BY NextIInv, NextHasRead, NextAInv, NextInPlace, NextTornLast DEF TInv

RInv == TInv /\ DInv

\* The trail of the file in the states that are reached.
LEMMA TrailReads == ASSUME TInv PROVE \E k : ReadAs(file, k, Trail)
<1>1. file \in Seq(Line)
  BY DEF TInv, IInv, TypeOK
<1> QED BY <1>1, Reading DEF TInv, Trail

\* Its write adds an entry that the trail never had.
LEMMA WriteImplementsAdd ==
  ASSUME TInv, TInv', NEW p \in Proc, Write(p)
  PROVE  Abstract!Add
<1>t. file \in Seq(Line) /\ Len(file) \in Nat /\ DOMAIN file = 1..Len(file) /\ file' \in Seq(Line)
  BY LenProperties DEF TInv, IInv, TypeOK
<1>1. PICK k : ReadAs(file, k, Trail)
  BY TrailReads
<1>2. PICK l : ReadAs(file', l, Trail')
  BY <1>t, Reading DEF TInv, Trail
<1>3. Parses(file)
  BY DEF TInv, HasRead, Write
<1>4. /\ Len(file') = Len(file) + 1 /\ DOMAIN file' = 1..(Len(file) + 1)
      /\ \A m \in 1..Len(file) : file'[m] = file[m]
      /\ file'[Len(file) + 1].id = req[p].id /\ LineParses(file'[Len(file) + 1])
  BY WriteAdds DEF TInv
<1>5. k = Len(file)
  <2>1. k \in 0..Len(file) /\ \A n \in 1..Len(file) : n <= k
    BY <1>t, <1>1, <1>3 DEF ReadAs, Parses
  <2>2. Len(file) # 0 => Len(file) \in 1..Len(file)
    BY <1>t
  <2>3. Len(file) # 0 => Len(file) <= k
    BY <2>1, <2>2
  <2>4. k \in Nat /\ k <= Len(file)
    BY <1>t, <2>1
  <2>5. \A i, j \in Nat : i <= j /\ (j # 0 => j <= i) => i = j
    OBVIOUS
  <2> QED BY <1>t, <2>3, <2>4, <2>5
<1>6. l = k + 1
  <2>1. l \in 0..(k + 1) /\ k + 1 \in DOMAIN file' /\ LineParses(file'[k + 1])
    BY <1>t, <1>2, <1>4, <1>5 DEF ReadAs
  <2>2. k + 1 <= l
    BY <1>2, <2>1 DEF ReadAs
  <2> QED BY <1>t, <1>5, <2>1, <2>2
<1>7. req[p].id \in 1..MaxOps
  BY DEF Write, TInv, IInv, ReqHasId, Id
<1>8. req[p].id \notin Abstract!Logged(Trail)
  <2>1. \A n \in DOMAIN file : file[n].id # req[p].id
    BY DEF TInv, AInv, Calls, Unused, Pending, Write
  <2>2. \A n \in DOMAIN Trail : n \in DOMAIN file /\ Trail[n] = file[n].id
    BY <1>t, <1>1, <1>5 DEF ReadAs
  <2> QED BY <2>1, <2>2 DEF Abstract!Logged
<1>9. Trail' = Append(Trail, req[p].id)
  <2>1. Trail \in Seq(Id) /\ Len(Trail) = k /\ \A n \in 1..k : Trail[n] = file[n].id
    BY <1>1 DEF ReadAs
  <2>2. /\ Trail' \in Seq(Id) /\ Len(Trail') = k + 1 /\ \A n \in 1..(k + 1) : Trail'[n] = file'[n].id
    BY <1>2, <1>6 DEF ReadAs
  <2> DEFINE a == Append(Trail, req[p].id)
  <2>3. /\ a \in Seq(Id) /\ Len(a) = k + 1 /\ a[k + 1] = req[p].id
        /\ \A n \in 1..k : a[n] = Trail[n]
    BY <1>7, <2>1, AppendProperties DEF Id
  <2>4. k \in Nat /\ \A n \in 1..(k + 1) : n = k + 1 \/ n \in 1..k
    BY <1>t, <1>5
  <2>5. ASSUME NEW n \in 1..(k + 1) PROVE Trail'[n] = a[n]
    <3>1. CASE n = k + 1
      BY <1>4, <1>5, <2>2, <2>3, <3>1
    <3>2. CASE n \in 1..k
      BY <1>4, <1>5, <2>1, <2>2, <2>3, <3>2
    <3> QED BY <2>4, <3>1, <3>2
  <2> HIDE DEF a
  <2>6. Trail' = a
    BY <2>2, <2>3, <2>5, SeqEqual
  <2> QED BY <2>6 DEF a
<1>10. acked' = acked
  BY DEF Write
<1> QED BY <1>7, <1>8, <1>9, <1>10 DEF Abstract!Add

\* A call that returns tells its caller of an entry that is in the trail.
LEMMA ReturnImplementsAcknowledge ==
  ASSUME TInv, NEW p \in Proc, Return(p)
  PROVE  Abstract!Acknowledge \/ UNCHANGED Abstract!vars
<1>t. file \in Seq(Line) /\ Len(file) \in Nat /\ DOMAIN file = 1..Len(file)
  BY LenProperties DEF TInv, IInv, TypeOK
<1>1. PICK k : ReadAs(file, k, Trail)
  BY TrailReads
<1>2. pc[p] = "return" /\ acked' = acked \cup {req[p].id} /\ UNCHANGED file
  BY DEF Return
<1>3. Trail' = Trail
  BY <1>2 DEF Trail
<1>4. Len(file) \in DOMAIN file /\ file[Len(file)].id = req[p].id /\ LineParses(file[Len(file)])
  BY <1>t, <1>2, EmptySeq DEF TInv, InPlace
<1>5. Len(file) \in DOMAIN Trail /\ Trail[Len(file)] = req[p].id
  BY <1>t, <1>1, <1>4 DEF ReadAs
<1>6. req[p].id \in Abstract!Logged(Trail)
  BY <1>5 DEF Abstract!Logged
<1>7. CASE req[p].id \in acked
  BY <1>2, <1>3, <1>7 DEF Abstract!vars
<1>8. CASE req[p].id \notin acked
  BY <1>2, <1>3, <1>6, <1>8 DEF Abstract!Acknowledge
<1> QED BY <1>7, <1>8

\* A loss of power forgets a suffix of entries whose callers were never told.
LEMMA PowerCutImplementsForget ==
  ASSUME RInv, RInv', PowerCut
  PROVE  Abstract!Forget
<1>t. /\ file \in Seq(Line) /\ Len(file) \in Nat /\ DOMAIN file = 1..Len(file)
      /\ file' \in Seq(Line) /\ Len(file') \in Nat /\ DOMAIN file' = 1..Len(file')
  BY LenProperties DEF RInv, TInv, IInv, TypeOK
<1>1. PICK k : ReadAs(file, k, Trail)
  BY TrailReads DEF RInv
<1>2. PICK l : ReadAs(file', l, Trail')
  BY <1>t, Reading DEF RInv, TInv, Trail
<1>3. ASSUME NEW n \in 1..l PROVE n \in 1..k /\ Trail'[n] = Trail[n]
  <2>1. n \in DOMAIN file' /\ LineParses(file'[n]) /\ Trail'[n] = file'[n].id
    BY <1>t, <1>2 DEF ReadAs
  <2>2. file' \in Survivors
    <3>1. file' # <<>>
      BY <2>1
    <3> QED BY <3>1 DEF PowerCut
  <2>3. /\ Len(file') <= Len(file) /\ \A m \in 1..Len(file') : file'[m].id = file[m].id
        /\ \A m \in 1..Len(file') : m # Len(file') \/ file'[m].form = "whole" => file'[m] = file[m]
    BY <2>2, SurvivorIsPart DEF RInv, TInv
  <2>4. file'[n].form = "whole"
    BY <2>1 DEF RInv, TInv, InPlace, LineParses
  <2>5. file'[n] = file[n] /\ n \in DOMAIN file /\ LineParses(file[n])
    <3>1. n \in 1..Len(file') /\ n \in 1..Len(file)
      BY <1>t, <2>1, <2>3, InPart
    <3>2. file'[n] = file[n]
      BY <2>3, <2>4, <3>1
    <3> QED BY <1>t, <2>1, <3>1, <3>2
  <2>6. n <= k
    BY <1>1, <2>5 DEF ReadAs
  <2>7. n \in 1..k
    BY <1>t, <1>1, <2>5, <2>6 DEF ReadAs
  <2> QED BY <1>1, <2>1, <2>5, <2>7 DEF ReadAs
<1>4. k \in Nat /\ l \in Nat /\ Trail \in Seq(Id) /\ Trail' \in Seq(Id) /\ Len(Trail) = k /\ Len(Trail') = l
      /\ DOMAIN Trail' = 1..l /\ \A n \in 1..l : Trail'[n] = file'[n].id
  BY <1>t, <1>1, <1>2 DEF ReadAs
<1>5. l \in 0..Len(Trail)
  <2>1. CASE l = 0
    BY <1>4, <2>1
  <2>2. CASE l # 0
    <3>1. l \in 1..l
      BY <1>4, <2>2
    <3> QED BY <1>3, <1>4, <3>1
  <2> QED BY <2>1, <2>2
<1>6. Trail' = SubSeq(Trail, 1, l)
  <2> DEFINE s == SubSeq(Trail, 1, l)
  <2>1. s \in Seq(Id) /\ Len(s) = l /\ \A n \in 1..l : s[n] = Trail[n]
    BY <1>4, <1>5, SubSeqProperties
  <2> HIDE DEF s
  <2>2. Trail' = s
    BY <1>3, <1>4, <2>1, SeqEqual
  <2> QED BY <2>2 DEF s
<1>7. acked' = acked
  BY DEF PowerCut
<1>8. ASSUME NEW id \in acked PROVE id \in Abstract!Logged(Trail')
  <2>1. PICK m \in 1..synced' : file'[m].id = id /\ LineParses(file'[m])
    BY <1>7 DEF RInv, DInv, Kept, Readable
  <2>2. m \in DOMAIN file'
    BY <1>t, <2>1 DEF PowerCut
  <2>3. m <= l
    BY <1>2, <2>1, <2>2 DEF ReadAs
  <2>4. m \in 1..l
    BY <1>t, <1>4, <2>2, <2>3
  <2> QED BY <1>4, <2>1, <2>4 DEF Abstract!Logged
<1> QED BY <1>5, <1>6, <1>7, <1>8 DEF Abstract!Forget

\* A change of an entry's content leaves the trail as it was.
LEMMA EditKeepsTrail ==
  ASSUME TInv, Edit
  PROVE  UNCHANGED Abstract!vars
<1>t. file \in Seq(Line) /\ DOMAIN file = 1..Len(file)
  BY LenProperties DEF TInv, IInv, TypeOK
<1>1. PICK n \in DOMAIN file, b \in Body : file' = [file EXCEPT ![n].payload = b]
  BY DEF Edit
<1>2. file[n] \in Line
  BY <1>t, ElementOfSeq
<1>3. DOMAIN file' = DOMAIN file
  BY <1>1
<1>4. \A m \in DOMAIN file : file'[m].form = file[m].form /\ file'[m].id = file[m].id
  BY <1>1, <1>2 DEF Line
<1>5. {m \in DOMAIN file' : LineParses(file'[m])} = {m \in DOMAIN file : LineParses(file[m])}
  BY <1>3, <1>4 DEF LineParses
<1>6. Trail' = Trail
  BY <1>4, <1>5 DEF Trail
<1>7. acked' = acked
  BY DEF Edit
<1> QED BY <1>6, <1>7 DEF Abstract!vars

\* A write that fails adds nothing that can be read.
LEMMA FailedWriteKeepsTrail ==
  ASSUME "unended" \notin Faults, TInv, NEW p \in Proc, WriteFails(p)
  PROVE  UNCHANGED Abstract!vars
<1>1. acked' = acked /\ pc[p] = "write"
  BY DEF WriteFails
<1>2. CASE file' = file
  BY <1>1, <1>2 DEF Abstract!vars, Trail
<1>3. ASSUME NEW l \in Cuts(NewLine(p)), file' = WithLine(file, l) PROVE UNCHANGED Abstract!vars
  <2>1. Len(file) \in Nat /\ DOMAIN file = 1..Len(file)
    BY LenProperties DEF TInv, IInv, TypeOK
  <2>2. l \in Line /\ l.form = "torn"
    BY <1>1, WriteLeaves DEF TInv
  <2>3. /\ DOMAIN file' = 1..(Len(file) + 1) /\ file'[Len(file) + 1] = l
        /\ \A m \in 1..Len(file) : file'[m] = file[m]
    BY <1>3, <2>2, LineAdded DEF TInv
  <2>4. ~LineParses(file'[Len(file) + 1])
    BY <2>2, <2>3 DEF LineParses
  <2>5. \A m \in DOMAIN file' : m \in DOMAIN file \/ m = Len(file) + 1
    BY <2>1, <2>3
  <2>6. \A m \in DOMAIN file : m \in DOMAIN file' /\ file'[m] = file[m]
    BY <2>1, <2>3
  <2>7. {m \in DOMAIN file' : LineParses(file'[m])} = {m \in DOMAIN file : LineParses(file[m])}
    BY <2>4, <2>5, <2>6
  <2>8. Trail' = Trail
    BY <2>6, <2>7 DEF Trail
  <2> QED BY <1>1, <2>8 DEF Abstract!vars
<1> QED BY <1>2, <1>3 DEF WriteFails

\* Every step but a loss of power.
LEMMA StepImplementsAuditLog ==
  ASSUME "unended" \notin Faults, TInv, TInv', [Next]_vars, ~PowerCut
  PROVE  [Abstract!Next]_(Abstract!vars)
<1>1. ASSUME NEW p \in Proc, CallAppend(p) \/ CallAnchor(p) PROVE UNCHANGED <<file, acked>>
  BY <1>1 DEF CallAppend, CallAnchor, Call, disk
<1>2. ASSUME NEW p \in Proc, \/ Acquire(p) \/ OpenAndReadTail(p) \/ RefuseCorrupt(p) \/ Fsync(p)
                              \/ FsyncFails(p) \/ Kill(p)
      PROVE  UNCHANGED <<file, acked>>
  BY <1>2 DEF Acquire, OpenAndReadTail, RefuseCorrupt, Fsync, FsyncFails, Kill, disk
<1>3. CASE UNCHANGED <<file, acked>>
  BY <1>3 DEF Abstract!vars, Trail
<1>4. ASSUME NEW p \in Proc, Write(p) PROVE Abstract!Next
  BY <1>4, WriteImplementsAdd DEF Abstract!Next
<1>5. ASSUME NEW p \in Proc, Return(p) PROVE [Abstract!Next]_(Abstract!vars)
  BY <1>5, ReturnImplementsAcknowledge DEF Abstract!Next
<1>6. ASSUME NEW p \in Proc, WriteFails(p) PROVE UNCHANGED Abstract!vars
  BY <1>6, FailedWriteKeepsTrail
<1>7. ASSUME Edit PROVE UNCHANGED Abstract!vars
  BY <1>7, EditKeepsTrail
<1>8. CASE UNCHANGED vars
  BY <1>3, <1>8 DEF vars
<1> QED BY <1>1, <1>2, <1>3, <1>4, <1>5, <1>6, <1>7, <1>8 DEF Next, Advance

LEMMA InitImplementsAuditLog == Init => Abstract!Init
<1> SUFFICES ASSUME Init PROVE Abstract!Init
  OBVIOUS
<1>1. PICK k : ReadAs(file, k, Trail)
  BY InitTInv, TrailReads
<1>2. Len(file) = 0
  BY DEF Init
<1>3. Trail \in Seq(Id) /\ Len(Trail) = 0
  BY <1>1, <1>2 DEF ReadAs
<1>4. Trail = <<>>
  BY <1>3, EmptySeq
<1> QED BY <1>4 DEF Init, Abstract!Init

\* Where calls do not fail or die half-way, the appends of any number of processes,
\* however they interleave with each other and with losses of power, implement
\* one audit trail that grows at its end and loses no acknowledged entry.
THEOREM ImplementsAuditLog ==
  ASSUME Faults \subseteq {"powercut"}
  PROVE  Spec => Implements
<1>1. Init => RInv
  BY InitTInv, InitDInv DEF RInv
<1>2. RInv /\ [Next]_vars => RInv'
  BY NextTInv, NextDInv DEF RInv, TInv
<1>3. RInv /\ RInv' /\ [Next]_vars => [Abstract!Next]_(Abstract!vars)
  BY StepImplementsAuditLog, PowerCutImplementsForget DEF RInv, Abstract!Next
<1> QED BY <1>1, <1>2, <1>3, InitImplementsAuditLog, PTL DEF Spec, Implements, Abstract!Spec

\* While power is not lost, the appends implement the same trail although processes
\* die at any step of theirs and writes, fsyncs and syncs of the directory fail:
\* what a death or a failed fsync leaves is an entry of the trail whose caller was
\* not told, and what a failed write leaves is no entry and stops the trail.  A
\* write that ends just before its newline is excluded: the next entry is glued
\* onto it, and its caller is told of success.
THEOREM ImplementsWhilePowered ==
  ASSUME Faults \subseteq {"kill", "writefail", "fsyncfail", "syncdirfail"}
  PROVE  Spec => Implements
<1>1. "unended" \notin Faults /\ ~PowerCut
  BY DEF PowerCut
<1>2. TInv /\ [Next]_vars => TInv'
  BY <1>1, NextTInv
<1>3. TInv /\ TInv' /\ [Next]_vars => [Abstract!Next]_(Abstract!vars)
  BY <1>1, StepImplementsAuditLog
<1> QED BY <1>2, <1>3, InitTInv, InitImplementsAuditLog, PTL DEF Spec, Implements, Abstract!Spec
=============================================================================
