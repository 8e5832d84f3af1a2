---------------------------- MODULE SftpProofs -----------------------------
(***************************************************************************)
(* Proofs about the SFTP server (Sftp.tla), for every volume, every set of *)
(* handles and every size: the types, the framing of the input, what a     *)
(* handle, a read-only file, an OK and a cursor are worth, and that the    *)
(* server keeps the protocol of SftpService.                               *)
(*                                                                         *)
(* One invariant carries most of it.  Between two steps the server is in   *)
(* one of seven modes: at rest, in a READ, a WRITE or a SETSTAT that       *)
(* grows, about to send a reply, to announce data, or to deliver a chunk.  *)
(* A mode says which piece of work there is, what of the payload in the    *)
(* input belongs to it, and which of the requests the client waits for     *)
(* have left the input.  Lemmas on the frames and on those requests say    *)
(* what each end of the input may do to that; lemmas on the requests say   *)
(* what one step of dispatch makes of the volume and of the handles.  The  *)
(* OK and the cursors have invariants of their own on top of that one.     *)
(***************************************************************************)
EXTENDS Sftp, SequenceTheorems, FunctionTheorems, FiniteSetTheorems, TLAPS

-----------------------------------------------------------------------------
(* Numbers, sets and sequences.                                            *)

(* A set of natural numbers has a least element: of the initial segments   *)
(* that end in one of its elements, one contains no other.                 *)
LEMMA LeastNumber ==
    ASSUME NEW S \in SUBSET Nat, S # {}
    PROVE  \E m \in S : \A k \in S : m <= k
  <1>1. PICK top \in S : TRUE
    OBVIOUS
  <1> DEFINE Segments == {0 .. k : k \in {j \in S : j <= top}}
  <1>2. Segments \subseteq FiniteSubsetsOf(Nat)
    <2> SUFFICES ASSUME NEW k \in S
                 PROVE  0 .. k \in FiniteSubsetsOf(Nat)
      OBVIOUS
    <2>1. IsFiniteSet(0 .. k)
      BY FS_Interval
    <2> QED
      BY <2>1 DEF FiniteSubsetsOf
  <1>3. Segments # {}
    BY <1>1
  <1>4. PICK I \in Segments : \A J \in Segments : ~(<<J, I>> \in StrictSubsetOrdering(Nat))
    <2> HIDE DEF Segments
    <2> QED
      BY <1>2, <1>3, FS_StrictSubsetOrderingWellFounded, WFMin
  <1>5. PICK m \in S : m <= top /\ I = 0 .. m
    OBVIOUS
  <1>6. \A k \in S : m <= k
    <2> SUFFICES ASSUME NEW k \in S, k < m PROVE FALSE
      OBVIOUS
    <2>1. 0 .. k \in Segments
      BY <1>5
    <2>2. 0 .. k \subseteq 0 .. m /\ 0 .. k # 0 .. m
      <3>1. m \in 0 .. m /\ ~(m \in 0 .. k)
        OBVIOUS
      <3> QED
        BY <3>1
    <2>3. <<0 .. k, I>> \in StrictSubsetOrdering(Nat)
      <3>1. 0 .. k \in SUBSET Nat /\ I \in SUBSET Nat
        BY <1>5
      <3> QED
        BY <3>1, <2>2, <1>5 DEF StrictSubsetOrdering
    <2> QED
      BY <2>1, <2>3, <1>4
  <1> QED
    BY <1>6

(* An element that none is below is the minimum.                            *)
LEMMA MinIs ==
    ASSUME NEW S \in SUBSET Int, NEW m \in S, \A k \in S : m <= k
    PROVE  Min(S) = m
  <1>1. Min(S) \in S /\ \A k \in S : Min(S) <= k
    BY Zenon DEF Min
  <1>2. PICK least \in S : least = Min(S)
    BY <1>1
  <1>3. least <= m /\ m <= least /\ least \in Int /\ m \in Int
    BY <1>1, <1>2
  <1> QED
    BY <1>2, <1>3

(* An element that none is above is the maximum.                            *)
LEMMA MaxIs ==
    ASSUME NEW S \in SUBSET Int, NEW m \in S, \A k \in S : k <= m
    PROVE  Max(S) = m
  <1>1. Max(S) \in S /\ \A k \in S : Max(S) >= k
    <2>1. \E j \in S : \A k \in S : j >= k
      <3>1. \A k \in S : m >= k
        OBVIOUS
      <3> QED
        BY <3>1
    <2> QED
      BY ONLY <2>1, Zenon DEF Max
  <1>2. PICK most \in S : most = Max(S)
    BY <1>1
  <1>3. most <= m /\ m <= most /\ most \in Int /\ m \in Int
    BY <1>1, <1>2
  <1> QED
    BY <1>2, <1>3

(* The minimum of some natural numbers is one of them.                      *)
LEMMA MinOfNumbers ==
    ASSUME NEW S \in SUBSET Nat, S # {}
    PROVE  Min(S) \in S /\ \A k \in S : Min(S) <= k
  BY LeastNumber, MinIs

(* The smaller of two integers.                                             *)
LEMMA MinOfTwo ==
    ASSUME NEW j \in Int, NEW k \in Int
    PROVE  Min({j, k}) = IF j <= k THEN j ELSE k
  <1>1. CASE j <= k
    BY <1>1, MinIs
  <1>2. CASE ~(j <= k)
    BY <1>2, MinIs
  <1> QED
    BY <1>1, <1>2

(* The larger of two integers.                                              *)
LEMMA MaxOfTwo ==
    ASSUME NEW j \in Int, NEW k \in Int
    PROVE  Max({j, k}) = IF j <= k THEN k ELSE j
  <1>1. CASE j <= k
    BY <1>1, MaxIs
  <1>2. CASE ~(j <= k)
    BY <1>2, MaxIs
  <1> QED
    BY <1>1, <1>2

(* The largest payload, of which the assumptions say that it exists.       *)
LEMMA MostPayload ==
    Max(Payloads) \in Nat /\ \A n \in Payloads : n \in 0 .. Max(Payloads)
  <1>1. Payloads \subseteq Nat
    BY SftpAssumption
  <1>2. PICK most \in Payloads : \A n \in Payloads : n <= most
    BY SftpAssumption
  <1>3. Max(Payloads) = most
    BY <1>1, <1>2, MaxIs
  <1> QED
    BY <1>1, <1>2, <1>3

(* What is left of a sequence without its first elements.                  *)
LEMMA Suffix ==
    ASSUME NEW S, NEW q \in Seq(S), NEW k \in 0 .. Len(q)
    PROVE  /\ SubSeq(q, k + 1, Len(q)) \in Seq(S)
           /\ Len(SubSeq(q, k + 1, Len(q))) = Len(q) - k
           /\ \A i \in 1 .. Len(q) - k : SubSeq(q, k + 1, Len(q))[i] = q[i + k]
  <1>1. Len(q) \in Nat
    OBVIOUS
  <1> QED
    BY <1>1, SubSeqProperties

-----------------------------------------------------------------------------
(* The frames of the input, and the requests the client waits for.         *)

(* An empty input is framed when nothing is due or owed.                    *)
LEMMA FramesEmpty == Framed(<<>>, 0, 0)
  <1> DEFINE q == <<>>  due == [i \in 0 .. Len(q) |-> 0]
  <1>1. Len(q) = 0 /\ DOMAIN q = {}
    OBVIOUS
  <1>2. due \in [0 .. Len(q) -> 0 .. Max(Payloads)] /\ due[0] = 0 /\ due[Len(q)] = 0
    BY <1>1, MostPayload
  <1> QED
    BY <1>1, <1>2 DEF Framed

(* A header stands where nothing is due, and its payload is due next.      *)
LEMMA FramesHeader ==
    ASSUME NEW q \in Seq(FrameType), q # <<>>, NEW last, Framed(q, 0, last)
    PROVE  /\ Head(q).kind # "payload"
           /\ Framed(Tail(q), Head(q).n, last)
  <1> DEFINE t == Tail(q)
  <1>1. /\ Len(q) \in Nat /\ Len(q) > 0 /\ DOMAIN q = 1 .. Len(q)
        /\ t \in Seq(FrameType) /\ Len(t) = Len(q) - 1 /\ DOMAIN t = 1 .. Len(t)
        /\ Head(q) = q[1]
        /\ \A i \in 1 .. Len(t) : t[i] = q[i + 1]
    BY HeadTailProperties, LenProperties, EmptySeq
  <1>2. PICK due \in [0 .. Len(q) -> 0 .. Max(Payloads)] :
          /\ due[0] = 0 /\ due[Len(q)] = last
          /\ \A i \in DOMAIN q :
                IF q[i].kind = "payload" THEN due[i - 1] = due[i] + 1
                ELSE due[i - 1] = 0 /\ due[i] = q[i].n
    BY DEF Framed
  <1> HIDE DEF t
  <1>3. q[1].kind # "payload" /\ due[1] = q[1].n
    <2>1. due[0] = 0 /\ due[1] \in Nat /\ 1 \in DOMAIN q
      BY <1>1, <1>2, MostPayload
    <2> QED
      BY <2>1, <1>2
  <1> DEFINE d == [i \in 0 .. Len(t) |-> due[i + 1]]
  <1>4. d \in [0 .. Len(t) -> 0 .. Max(Payloads)]
    BY <1>1, <1>2, MostPayload
  <1>5. d[0] = q[1].n /\ d[Len(t)] = last
    BY <1>1, <1>2, <1>3
  <1>6. ASSUME NEW i \in DOMAIN t
        PROVE  IF t[i].kind = "payload" THEN d[i - 1] = d[i] + 1
               ELSE d[i - 1] = 0 /\ d[i] = t[i].n
    <2>1. /\ t[i] = q[i + 1] /\ i + 1 \in DOMAIN q
          /\ d[i - 1] = due[i] /\ d[i] = due[i + 1] /\ (i + 1) - 1 = i
      BY <1>1
    <2> QED
      BY ONLY <2>1, <1>2
  <1>7. Framed(t, q[1].n, last)
    <2> HIDE DEF d
    <2> QED
      BY <1>4, <1>5, <1>6 DEF Framed
  <1> QED
    BY <1>1, <1>3, <1>7 DEF t

(* As many frames as are due are payload.                                  *)
LEMMA FramesDue ==
    ASSUME NEW q \in Seq(FrameType), NEW first \in Nat, NEW last,
           Framed(q, first, last),
           NEW k \in Nat, k <= Len(q), k <= first
    PROVE  /\ \A i \in 1 .. k : q[i].kind = "payload"
           /\ Framed(SubSeq(q, k + 1, Len(q)), first - k, last)
  <1> DEFINE t == SubSeq(q, k + 1, Len(q))
  <1>1. /\ Len(q) \in Nat /\ DOMAIN q = 1 .. Len(q)
        /\ t \in Seq(FrameType) /\ Len(t) = Len(q) - k /\ DOMAIN t = 1 .. Len(t)
        /\ \A i \in 1 .. Len(t) : t[i] = q[i + k]
    BY Suffix, LenProperties
  <1>2. PICK due \in [0 .. Len(q) -> 0 .. Max(Payloads)] :
          /\ due[0] = first /\ due[Len(q)] = last
          /\ \A i \in DOMAIN q :
                IF q[i].kind = "payload" THEN due[i - 1] = due[i] + 1
                ELSE due[i - 1] = 0 /\ due[i] = q[i].n
    BY DEF Framed
  <1> HIDE DEF t
  <1>3. \A i \in 0 .. Len(q) : due[i] \in Nat
    BY <1>2, MostPayload
  <1>4. ASSUME NEW i \in 1 .. k, due[i - 1] = first - (i - 1)
        PROVE  q[i].kind = "payload" /\ due[i] = first - i
    <2>1. i \in DOMAIN q /\ i - 1 \in 0 .. Len(q) /\ i \in 0 .. Len(q) /\ due[i - 1] > 0
      BY <1>1, <1>4
    <2>2. q[i].kind = "payload" /\ due[i - 1] = due[i] + 1
      BY <2>1, <1>2
    <2>3. due[i] \in Nat
      BY <2>1, <1>3
    <2> QED
      BY <2>2, <2>3, <1>4
  <1>5. \A i \in 0 .. k : due[i] = first - i
    <2> DEFINE Wrong == {i \in 0 .. k : due[i] # first - i}
    <2> SUFFICES ASSUME Wrong # {} PROVE FALSE
      OBVIOUS
    <2>1. PICK i \in Wrong : \A j \in Wrong : i <= j
      <3>1. Wrong \in SUBSET Nat
        OBVIOUS
      <3> HIDE DEF Wrong
      <3> QED
        BY <3>1, LeastNumber
    <2>2. i # 0
      BY <1>2
    <2>3. i - 1 \in 0 .. k /\ ~(i - 1 \in Wrong)
      BY <2>1, <2>2
    <2>4. i \in 1 .. k /\ due[i - 1] = first - (i - 1)
      BY <2>2, <2>3
    <2> QED
      BY <2>4, <1>4
  <1>6. ASSUME NEW i \in 1 .. k PROVE q[i].kind = "payload"
    <2>1. i - 1 \in 0 .. k
      OBVIOUS
    <2> QED
      BY <2>1, <1>4, <1>5
  <1> DEFINE d == [i \in 0 .. Len(t) |-> due[i + k]]
  <1>7. d \in [0 .. Len(t) -> 0 .. Max(Payloads)]
    BY <1>1, <1>2, MostPayload
  <1>8. d[0] = first - k /\ d[Len(t)] = last
    BY <1>1, <1>2, <1>5
  <1>9. ASSUME NEW i \in DOMAIN t
        PROVE  IF t[i].kind = "payload" THEN d[i - 1] = d[i] + 1
               ELSE d[i - 1] = 0 /\ d[i] = t[i].n
    <2>1. /\ t[i] = q[i + k] /\ i + k \in DOMAIN q
          /\ d[i - 1] = due[(i + k) - 1] /\ d[i] = due[i + k]
      <3>1. /\ i \in 1 .. Len(t) /\ i + k \in 1 .. Len(q) /\ (i - 1) + k = (i + k) - 1
            /\ i \in 0 .. Len(t) /\ i - 1 \in 0 .. Len(t)
        BY ONLY <1>1, i \in DOMAIN t, k \in Nat
      <3>2. d[i - 1] = due[(i - 1) + k] /\ d[i] = due[i + k]
        BY ONLY <3>1
      <3> QED
        BY ONLY <3>1, <3>2, <1>1
    <2>2. IF q[i + k].kind = "payload" THEN due[(i + k) - 1] = due[i + k] + 1
          ELSE due[(i + k) - 1] = 0 /\ due[i + k] = q[i + k].n
      BY ONLY <2>1, <1>2
    <2> QED
      BY ONLY <2>1, <2>2
  <1>10. Framed(t, first - k, last)
    <2> HIDE DEF d
    <2> QED
      BY <1>7, <1>8, <1>9 DEF Framed
  <1> QED
    BY <1>6, <1>10 DEF t

(* One more frame: a header when nothing is owed, or a unit of payload.    *)
LEMMA FramesAppend ==
    ASSUME NEW q \in Seq(FrameType), NEW first, NEW last \in Nat,
           Framed(q, first, last),
           NEW frame \in FrameType, NEW next \in 0 .. Max(Payloads),
           IF frame.kind = "payload" THEN last = next + 1
           ELSE last = 0 /\ next = frame.n
    PROVE  Framed(Append(q, frame), first, next)
  <1> DEFINE t == Append(q, frame)
  <1>1. /\ Len(q) \in Nat /\ DOMAIN q = 1 .. Len(q)
        /\ t \in Seq(FrameType) /\ Len(t) = Len(q) + 1 /\ DOMAIN t = 1 .. Len(t)
        /\ \A i \in 1 .. Len(q) : t[i] = q[i]
        /\ t[Len(q) + 1] = frame
    BY AppendProperties, LenProperties
  <1>2. PICK due \in [0 .. Len(q) -> 0 .. Max(Payloads)] :
          /\ due[0] = first /\ due[Len(q)] = last
          /\ \A i \in DOMAIN q :
                IF q[i].kind = "payload" THEN due[i - 1] = due[i] + 1
                ELSE due[i - 1] = 0 /\ due[i] = q[i].n
    BY DEF Framed
  <1> HIDE DEF t
  <1> DEFINE d == [i \in 0 .. Len(t) |-> IF i <= Len(q) THEN due[i] ELSE next]
  <1>3. d \in [0 .. Len(t) -> 0 .. Max(Payloads)]
    BY <1>1, <1>2, MostPayload
  <1>4. d[0] = first /\ d[Len(t)] = next
    BY <1>1, <1>2
  <1>5. ASSUME NEW i \in DOMAIN t
        PROVE  IF t[i].kind = "payload" THEN d[i - 1] = d[i] + 1
               ELSE d[i - 1] = 0 /\ d[i] = t[i].n
    <2>1. CASE i <= Len(q)
      <3>1. t[i] = q[i] /\ i \in DOMAIN q /\ d[i - 1] = due[i - 1] /\ d[i] = due[i]
        BY <2>1, <1>1
      <3> QED
        BY ONLY <3>1, <1>2
    <2>2. CASE i > Len(q)
      <3>1. t[i] = frame /\ d[i - 1] = last /\ d[i] = next
        <4>1. i = Len(q) + 1
          BY <2>2, <1>1
        <4> QED
          BY <4>1, <1>1, <1>2
      <3> QED
        BY <3>1
    <2> QED
      BY <2>1, <2>2, <1>1
  <1>6. Framed(t, first, next)
    <2> HIDE DEF d
    <2> QED
      BY <1>3, <1>4, <1>5 DEF Framed
  <1> QED
    BY <1>6 DEF t

(* Of the requests `ids` the client waits for, `taken` have left the       *)
(* input; the others are there, in the same order.                         *)
Queued(q, ids, taken) ==
    \E pos \in [0 .. Len(q) -> 0 .. Len(ids)] :
        /\ pos[0] = taken /\ pos[Len(q)] = Len(ids)
        /\ \A i \in DOMAIN q :
              IF q[i].kind \in {"payload", "broken"} THEN pos[i] = pos[i - 1]
              ELSE pos[i] = pos[i - 1] + 1 /\ ids[pos[i]] = q[i].id

(* Nothing is waited for when nothing was asked.                            *)
LEMMA QueueEmpty == Queued(<<>>, <<>>, 0)
  <1> DEFINE q == <<>>  pos == [i \in 0 .. Len(q) |-> 0]
  <1>1. Len(q) = 0 /\ DOMAIN q = {}
    OBVIOUS
  <1>2. pos \in [0 .. Len(q) -> 0 .. Len(q)] /\ pos[0] = 0 /\ pos[Len(q)] = Len(q)
    BY <1>1
  <1> QED
    BY <1>1, <1>2 DEF Queued

(* The header that is parsed next is the oldest request still in the input. *)
LEMMA QueueHeader ==
    ASSUME NEW q \in Seq(FrameType), q # <<>>, NEW ids \in Seq(Ids), NEW taken \in Nat,
           Queued(q, ids, taken),
           Head(q).kind # "payload", Head(q).kind # "broken"
    PROVE  /\ taken < Len(ids) /\ ids[taken + 1] = Head(q).id
           /\ Queued(Tail(q), ids, taken + 1)
  <1> DEFINE t == Tail(q)
  <1>1. /\ Len(q) \in Nat /\ Len(q) > 0 /\ DOMAIN q = 1 .. Len(q)
        /\ t \in Seq(FrameType) /\ Len(t) = Len(q) - 1 /\ DOMAIN t = 1 .. Len(t)
        /\ Head(q) = q[1] /\ Len(ids) \in Nat
        /\ \A i \in 1 .. Len(t) : t[i] = q[i + 1]
    BY HeadTailProperties, LenProperties, EmptySeq
  <1>2. PICK pos \in [0 .. Len(q) -> 0 .. Len(ids)] :
          /\ pos[0] = taken /\ pos[Len(q)] = Len(ids)
          /\ \A i \in DOMAIN q :
                IF q[i].kind \in {"payload", "broken"} THEN pos[i] = pos[i - 1]
                ELSE pos[i] = pos[i - 1] + 1 /\ ids[pos[i]] = q[i].id
    BY DEF Queued
  <1> HIDE DEF t
  <1>3. pos[1] = taken + 1 /\ ids[pos[1]] = q[1].id /\ pos[1] <= Len(ids)
    <2>1. 1 \in DOMAIN q /\ 1 \in 0 .. Len(q) /\ 1 - 1 = 0
      BY ONLY <1>1
    <2>2. pos[1] \in 0 .. Len(ids)
      BY ONLY <2>1, <1>2
    <2>3. ~(q[1].kind \in {"payload", "broken"})
      BY <1>1
    <2>4. pos[1] = pos[1 - 1] + 1 /\ ids[pos[1]] = q[1].id
      BY ONLY <2>1, <2>3, <1>2
    <2> QED
      BY ONLY <2>1, <2>2, <2>4, <1>1, <1>2
  <1> DEFINE p == [i \in 0 .. Len(t) |-> pos[i + 1]]
  <1>4. p \in [0 .. Len(t) -> 0 .. Len(ids)]
    BY <1>1, <1>2
  <1>5. p[0] = taken + 1 /\ p[Len(t)] = Len(ids)
    BY <1>1, <1>2, <1>3
  <1>6. ASSUME NEW i \in DOMAIN t
        PROVE  IF t[i].kind \in {"payload", "broken"} THEN p[i] = p[i - 1]
               ELSE p[i] = p[i - 1] + 1 /\ ids[p[i]] = t[i].id
    <2>1. /\ t[i] = q[i + 1] /\ i + 1 \in DOMAIN q
          /\ p[i - 1] = pos[i] /\ p[i] = pos[i + 1] /\ (i + 1) - 1 = i
      BY <1>1
    <2> QED
      BY ONLY <2>1, <1>2
  <1>7. Queued(t, ids, taken + 1)
    <2> HIDE DEF p
    <2> QED
      BY <1>4, <1>5, <1>6 DEF Queued
  <1> QED
    BY <1>1, <1>3, <1>7 DEF t

(* Payload that is taken leaves the requests where they are.                *)
LEMMA QueueSkip ==
    ASSUME NEW q \in Seq(FrameType), NEW ids \in Seq(Ids), NEW taken \in Nat,
           Queued(q, ids, taken),
           NEW k \in 0 .. Len(q), \A i \in 1 .. k : q[i].kind = "payload"
    PROVE  Queued(SubSeq(q, k + 1, Len(q)), ids, taken)
  <1> DEFINE t == SubSeq(q, k + 1, Len(q))
  <1>1. /\ Len(q) \in Nat /\ DOMAIN q = 1 .. Len(q)
        /\ t \in Seq(FrameType) /\ Len(t) = Len(q) - k /\ DOMAIN t = 1 .. Len(t)
        /\ \A i \in 1 .. Len(t) : t[i] = q[i + k]
    BY Suffix, LenProperties
  <1>2. PICK pos \in [0 .. Len(q) -> 0 .. Len(ids)] :
          /\ pos[0] = taken /\ pos[Len(q)] = Len(ids)
          /\ \A i \in DOMAIN q :
                IF q[i].kind \in {"payload", "broken"} THEN pos[i] = pos[i - 1]
                ELSE pos[i] = pos[i - 1] + 1 /\ ids[pos[i]] = q[i].id
    BY DEF Queued
  <1> HIDE DEF t
  <1>3. \A i \in 0 .. k : pos[i] = taken
    <2> DEFINE Wrong == {i \in 0 .. k : pos[i] # taken}
    <2> SUFFICES ASSUME Wrong # {} PROVE FALSE
      OBVIOUS
    <2>1. PICK i \in Wrong : \A j \in Wrong : i <= j
      <3>1. Wrong \in SUBSET Nat
        OBVIOUS
      <3> HIDE DEF Wrong
      <3> QED
        BY <3>1, LeastNumber
    <2>2. i # 0
      BY <1>2
    <2>3. i - 1 \in 0 .. k /\ ~(i - 1 \in Wrong)
      BY <2>1, <2>2
    <2>4. i \in 1 .. k /\ i \in DOMAIN q
      BY <2>2, <1>1
    <2>5. pos[i] = pos[i - 1]
      BY <2>4, <1>2
    <2> QED
      BY <2>3, <2>5
  <1> DEFINE p == [i \in 0 .. Len(t) |-> pos[i + k]]
  <1>4. p \in [0 .. Len(t) -> 0 .. Len(ids)]
    BY <1>1, <1>2
  <1>5. p[0] = taken /\ p[Len(t)] = Len(ids)
    BY <1>1, <1>2, <1>3
  <1>6. ASSUME NEW i \in DOMAIN t
        PROVE  IF t[i].kind \in {"payload", "broken"} THEN p[i] = p[i - 1]
               ELSE p[i] = p[i - 1] + 1 /\ ids[p[i]] = t[i].id
    <2>1. /\ t[i] = q[i + k] /\ i + k \in DOMAIN q
          /\ p[i - 1] = pos[(i + k) - 1] /\ p[i] = pos[i + k]
      <3>1. /\ i \in 1 .. Len(t) /\ i + k \in 1 .. Len(q) /\ (i - 1) + k = (i + k) - 1
            /\ i \in 0 .. Len(t) /\ i - 1 \in 0 .. Len(t)
        BY ONLY <1>1, i \in DOMAIN t, k \in Nat
      <3>2. p[i - 1] = pos[(i - 1) + k] /\ p[i] = pos[i + k]
        BY ONLY <3>1
      <3> QED
        BY ONLY <3>1, <3>2, <1>1
    <2>2. IF q[i + k].kind \in {"payload", "broken"} THEN pos[i + k] = pos[(i + k) - 1]
          ELSE pos[i + k] = pos[(i + k) - 1] + 1 /\ ids[pos[i + k]] = q[i + k].id
      BY ONLY <2>1, <1>2
    <2> QED
      BY ONLY <2>1, <2>2
  <1>7. Queued(t, ids, taken)
    <2> HIDE DEF p
    <2> QED
      BY <1>4, <1>5, <1>6 DEF Queued
  <1> QED
    BY <1>7 DEF t

(* One more frame: a request joins those the client waits for.              *)
LEMMA QueueAppend ==
    ASSUME NEW q \in Seq(FrameType), NEW ids \in Seq(Ids), NEW taken \in Nat,
           Queued(q, ids, taken),
           NEW frame \in FrameType, NEW longer \in Seq(Ids),
           IF frame.kind \in {"payload", "broken"} THEN longer = ids
           ELSE longer = Append(ids, frame.id) /\ frame.id \in Ids
    PROVE  Queued(Append(q, frame), longer, taken)
  <1> DEFINE t == Append(q, frame)
  <1>1. /\ Len(q) \in Nat /\ DOMAIN q = 1 .. Len(q)
        /\ t \in Seq(FrameType) /\ Len(t) = Len(q) + 1 /\ DOMAIN t = 1 .. Len(t)
        /\ \A i \in 1 .. Len(q) : t[i] = q[i]
        /\ t[Len(q) + 1] = frame
    BY AppendProperties, LenProperties
  <1>2. /\ Len(ids) \in Nat /\ Len(longer) \in Nat /\ Len(ids) <= Len(longer)
        /\ \A i \in 1 .. Len(ids) : longer[i] = ids[i]
        /\ IF frame.kind \in {"payload", "broken"} THEN Len(longer) = Len(ids)
           ELSE Len(longer) = Len(ids) + 1 /\ longer[Len(longer)] = frame.id
    <2>1. Len(ids) \in Nat /\ Len(longer) \in Nat
      BY LenProperties
    <2>2. CASE frame.kind \in {"payload", "broken"}
      BY <2>1, <2>2
    <2>3. CASE ~(frame.kind \in {"payload", "broken"})
      BY <2>1, <2>3, AppendProperties
    <2> QED
      BY <2>2, <2>3
  <1>3. PICK pos \in [0 .. Len(q) -> 0 .. Len(ids)] :
          /\ pos[0] = taken /\ pos[Len(q)] = Len(ids)
          /\ \A i \in DOMAIN q :
                IF q[i].kind \in {"payload", "broken"} THEN pos[i] = pos[i - 1]
                ELSE pos[i] = pos[i - 1] + 1 /\ ids[pos[i]] = q[i].id
    BY DEF Queued
  <1> HIDE DEF t
  <1> DEFINE p == [i \in 0 .. Len(t) |-> IF i <= Len(q) THEN pos[i] ELSE Len(longer)]
  <1>4. p \in [0 .. Len(t) -> 0 .. Len(longer)]
    BY <1>1, <1>2, <1>3
  <1>5. p[0] = taken /\ p[Len(t)] = Len(longer)
    BY <1>1, <1>3
  <1>6. ASSUME NEW i \in DOMAIN t
        PROVE  IF t[i].kind \in {"payload", "broken"} THEN p[i] = p[i - 1]
               ELSE p[i] = p[i - 1] + 1 /\ longer[p[i]] = t[i].id
    <2>1. CASE i <= Len(q)
      <3>1. /\ t[i] = q[i] /\ i \in DOMAIN q /\ p[i - 1] = pos[i - 1] /\ p[i] = pos[i]
            /\ i \in 0 .. Len(q) /\ i - 1 \in 0 .. Len(q)
        BY <2>1, <1>1
      <3>2. pos[i] \in 0 .. Len(ids) /\ pos[i - 1] \in 0 .. Len(ids)
        BY <3>1, <1>3
      <3>3. CASE q[i].kind \in {"payload", "broken"}
        BY ONLY <3>1, <3>3, <1>3
      <3>4. CASE ~(q[i].kind \in {"payload", "broken"})
        <4>1. pos[i] = pos[i - 1] + 1 /\ ids[pos[i]] = q[i].id
          BY ONLY <3>1, <3>4, <1>3
        <4>2. pos[i] \in 1 .. Len(ids)
          BY ONLY <4>1, <3>2, <1>2
        <4> QED
          BY ONLY <4>1, <4>2, <3>1, <3>4, <1>2
      <3> QED
        BY <3>3, <3>4
    <2>2. CASE i > Len(q)
      <3>1. i = Len(q) + 1
        BY <2>2, <1>1
      <3>2. t[i] = frame /\ p[i - 1] = Len(ids) /\ p[i] = Len(longer)
        BY <3>1, <1>1, <1>3
      <3> QED
        BY ONLY <3>2, <1>2
    <2> QED
      BY <2>1, <2>2, <1>1
  <1>7. Queued(t, longer, taken)
    <2> HIDE DEF p
    <2> QED
      BY <1>4, <1>5, <1>6 DEF Queued
  <1> QED
    BY <1>7 DEF t

(* The oldest request, which has left the input, is answered.              *)
LEMMA QueueAnswered ==
    ASSUME NEW q \in Seq(FrameType), NEW ids \in Seq(Ids), ids # <<>>, Queued(q, ids, 1)
    PROVE  Queued(q, Tail(ids), 0)
  <1> DEFINE t == Tail(ids)
  <1>1. /\ Len(ids) \in Nat /\ Len(ids) > 0
        /\ t \in Seq(Ids) /\ Len(t) = Len(ids) - 1
        /\ \A i \in 1 .. Len(t) : t[i] = ids[i + 1]
        /\ Len(q) \in Nat /\ DOMAIN q = 1 .. Len(q)
    BY HeadTailProperties, LenProperties, EmptySeq
  <1>2. PICK pos \in [0 .. Len(q) -> 0 .. Len(ids)] :
          /\ pos[0] = 1 /\ pos[Len(q)] = Len(ids)
          /\ \A i \in DOMAIN q :
                IF q[i].kind \in {"payload", "broken"} THEN pos[i] = pos[i - 1]
                ELSE pos[i] = pos[i - 1] + 1 /\ ids[pos[i]] = q[i].id
    BY DEF Queued
  <1> HIDE DEF t
  <1>3. ASSUME NEW i \in 1 .. Len(q), pos[i - 1] >= 1
        PROVE  pos[i] >= 1
    <2>1. i \in DOMAIN q /\ pos[i - 1] \in Nat
      <3>1. i \in DOMAIN q /\ i - 1 \in 0 .. Len(q)
        BY ONLY <1>1, i \in 1 .. Len(q)
      <3> QED
        BY ONLY <3>1, <1>1, <1>2
    <2>2. pos[i] = pos[i - 1] \/ pos[i] = pos[i - 1] + 1
      BY <2>1, <1>2
    <2> QED
      BY <2>1, <2>2, <1>3
  <1>4. \A i \in 0 .. Len(q) : pos[i] \in 1 .. Len(ids)
    <2> DEFINE Wrong == {i \in 0 .. Len(q) : ~(pos[i] >= 1)}
    <2>1. Wrong = {}
      <3> SUFFICES ASSUME Wrong # {} PROVE FALSE
        OBVIOUS
      <3>1. PICK i \in Wrong : \A j \in Wrong : i <= j
        <4>1. Wrong \in SUBSET Nat
          OBVIOUS
        <4> HIDE DEF Wrong
        <4> QED
          BY <4>1, LeastNumber
      <3>2. i # 0
        BY <1>2
      <3>3. i - 1 \in 0 .. Len(q) /\ ~(i - 1 \in Wrong) /\ i \in 1 .. Len(q)
        BY <3>1, <3>2, <1>1
      <3> QED
        BY <3>3, <1>3
    <2>2. ASSUME NEW i \in 0 .. Len(q) PROVE pos[i] \in 1 .. Len(ids)
      <3>1. pos[i] \in 0 .. Len(ids)
        BY <1>2
      <3>2. pos[i] >= 1
        BY <2>1
      <3> QED
        BY ONLY <3>1, <3>2, <1>1
    <2> QED
      BY <2>2
  <1> DEFINE p == [i \in 0 .. Len(q) |-> pos[i] - 1]
  <1>5. p \in [0 .. Len(q) -> 0 .. Len(t)]
    BY <1>1, <1>4
  <1>6. p[0] = 0 /\ p[Len(q)] = Len(t)
    BY <1>1, <1>2
  <1>7. ASSUME NEW i \in DOMAIN q
        PROVE  IF q[i].kind \in {"payload", "broken"} THEN p[i] = p[i - 1]
               ELSE p[i] = p[i - 1] + 1 /\ t[p[i]] = q[i].id
    <2>1. /\ p[i - 1] = pos[i - 1] - 1 /\ p[i] = pos[i] - 1
          /\ pos[i - 1] \in 1 .. Len(ids) /\ pos[i] \in 1 .. Len(ids)
      BY <1>1, <1>4
    <2>2. CASE q[i].kind \in {"payload", "broken"}
      BY <2>1, <2>2, <1>2
    <2>3. CASE ~(q[i].kind \in {"payload", "broken"})
      <3>1. pos[i] = pos[i - 1] + 1 /\ ids[pos[i]] = q[i].id
        BY ONLY <2>3, <1>2, i \in DOMAIN q
      <3>2. pos[i] - 1 \in 1 .. Len(t)
        BY ONLY <3>1, <2>1, <1>1
      <3>3. t[pos[i] - 1] = ids[pos[i]]
        <4>1. (pos[i] - 1) + 1 = pos[i]
          BY ONLY <2>1, <1>1
        <4>2. t[pos[i] - 1] = ids[(pos[i] - 1) + 1]
          BY ONLY <3>2, <1>1
        <4> QED
          BY ONLY <4>1, <4>2
      <3> QED
        BY ONLY <2>1, <2>3, <3>1, <3>3, <1>1
    <2> QED
      BY <2>2, <2>3
  <1>8. Queued(q, t, 0)
    <2> HIDE DEF p
    <2> QED
      BY <1>5, <1>6, <1>7 DEF Queued
  <1> QED
    BY <1>8 DEF t

-----------------------------------------------------------------------------
(* Files and handles.                                                      *)

FilesTyped(fs) == DOMAIN fs \subseteq Names /\ \A n \in DOMAIN fs : IsFile(fs[n])

HandlesTyped(hs) == DOMAIN hs \subseteq Slots /\ \A s \in DOMAIN hs : hs[s] \in HandleType

(* What Optional says of a set.                                            *)
LEMMA OptionalSet ==
    ASSUME NEW S, NEW v
    PROVE  v \in Optional(S) <=> v \subseteq S /\ \A x, y \in v : x = y
  <1>1. ASSUME v \subseteq S, \A x, y \in v : x = y, v # {}
        PROVE  v \in Optional(S)
    <2>1. PICK x \in v : TRUE
      BY <1>1
    <2>2. v = {x}
      BY <2>1, <1>1
    <2> QED
      BY <2>2, <1>1 DEF Optional
  <1>2. ASSUME v \in Optional(S)
        PROVE  v \subseteq S /\ \A x, y \in v : x = y
    BY <1>2 DEF Optional
  <1> QED
    BY <1>1, <1>2 DEF Optional

(* The values of a function are no more than the places they stand at.     *)
LEMMA ImageBound ==
    ASSUME NEW S, IsFiniteSet(S), NEW D \in SUBSET S, NEW f, f \in [D -> Range(f)]
    PROVE  IsFiniteSet(Range(f)) /\ Cardinality(Range(f)) <= Cardinality(S)
  <1>1. IsFiniteSet(D) /\ Cardinality(D) <= Cardinality(S)
    BY FS_Subset
  <1>2. f \in Surjection(D, Range(f))
    BY Fun_RangeProperties
  <1>3. IsFiniteSet(Range(f)) /\ Cardinality(Range(f)) <= Cardinality(D)
    BY <1>1, <1>2, FS_Surjection
  <1>4. /\ Cardinality(Range(f)) \in Nat /\ Cardinality(D) \in Nat
        /\ Cardinality(S) \in Nat
    BY <1>1, <1>3, FS_CardinalityType
  <1> QED
    BY <1>1, <1>3, <1>4

(* There is a value of `born` that no file has and no cursor remembers:    *)
(* each path holds one file, and each handle two cursors.                  *)
LEMMA BirthsLeft ==
    ASSUME FilesTyped(files), HandlesTyped(handles)
    PROVE  Births \ Remembered # {}
  <1> DEFINE Reads   == {s \in DOMAIN handles : handles[s].read # {}}
             Appends == {s \in DOMAIN handles : handles[s].append # {}}
             f == [n \in DOMAIN files |-> files[n].born]
             r == [s \in Reads |-> (CHOOSE c \in handles[s].read : TRUE).born]
             a == [s \in Appends |-> (CHOOSE c \in handles[s].append : TRUE).born]
  <1>1. IsFiniteSet(Names) /\ IsFiniteSet(Slots)
    BY SftpAssumption
  <1>2. Cardinality(Names) \in Nat /\ Cardinality(Slots) \in Nat
    BY <1>1, FS_CardinalityType
  <1>3. DOMAIN files \in SUBSET Names /\ Reads \in SUBSET Slots /\ Appends \in SUBSET Slots
    BY DEF FilesTyped, HandlesTyped
  <1>4. /\ IsFiniteSet(Range(f)) /\ Cardinality(Range(f)) <= Cardinality(Names)
        /\ IsFiniteSet(Range(r)) /\ Cardinality(Range(r)) <= Cardinality(Slots)
        /\ IsFiniteSet(Range(a)) /\ Cardinality(Range(a)) <= Cardinality(Slots)
    <2>1. f \in [DOMAIN files -> Range(f)]
      BY DEF Range
    <2>2. r \in [Reads -> Range(r)]
      BY DEF Range
    <2>3. a \in [Appends -> Range(a)]
      BY DEF Range
    <2> HIDE DEF f, r, a, Reads, Appends
    <2> QED
      BY <2>1, <2>2, <2>3, <1>1, <1>3, ImageBound
  <1>5. Remembered \subseteq Range(f) \cup Range(r) \cup Range(a)
    <2> SUFFICES ASSUME NEW b \in Remembered
                 PROVE  b \in Range(f) \cup Range(r) \cup Range(a)
      OBVIOUS
    <2>1. CASE \E n \in DOMAIN files : b = files[n].born
      <3>1. PICK n \in DOMAIN files : b = files[n].born
        BY <2>1
      <3>2. n \in DOMAIN f /\ f[n] = b
        BY <3>1
      <3>3. b \in Range(f)
        BY <3>2, Zenon DEF Range
      <3> QED
        BY <3>3
    <2>2. CASE \E s \in DOMAIN handles : \E c \in Cursors(handles[s]) : b = c.born
      <3>1. PICK s \in DOMAIN handles : \E c \in Cursors(handles[s]) : b = c.born
        BY <2>2
      <3>2. PICK c \in Cursors(handles[s]) : b = c.born
        BY <3>1
      <3>3. handles[s].read \in Optional(CursorType) /\ handles[s].append \in Optional(CursorType)
        BY DEF HandlesTyped, HandleType
      <3>4. CASE c \in handles[s].read
        <4>1. (CHOOSE d \in handles[s].read : TRUE) = c
          BY <3>3, <3>4, OptionalSet
        <4>2. s \in DOMAIN r /\ r[s] = b
          BY <4>1, <3>2, <3>4
        <4>3. b \in Range(r)
          BY <4>2, Zenon DEF Range
        <4> QED
          BY <4>3
      <3>5. CASE c \in handles[s].append
        <4>1. (CHOOSE d \in handles[s].append : TRUE) = c
          BY <3>3, <3>5, OptionalSet
        <4>2. s \in DOMAIN a /\ a[s] = b
          BY <4>1, <3>2, <3>5
        <4>3. b \in Range(a)
          BY <4>2, Zenon DEF Range
        <4> QED
          BY <4>3
      <3> QED
        BY <3>4, <3>5 DEF Cursors
    <2> QED
      BY <2>1, <2>2 DEF Remembered
  <1> HIDE DEF f, r, a, Reads, Appends
  <1> DEFINE All == Range(f) \cup Range(r) \cup Range(a)
             k == Cardinality(Names) + 2 * Cardinality(Slots) + 1
  <1>6. IsFiniteSet(All) /\ Cardinality(All) \in Nat /\ Cardinality(All) < k
    <2> DEFINE Some == Range(f) \cup Range(r)
    <2>1. /\ Cardinality(Range(f)) \in Nat /\ Cardinality(Range(r)) \in Nat
          /\ Cardinality(Range(a)) \in Nat
      BY <1>4, FS_CardinalityType
    <2>2. /\ IsFiniteSet(Some)
          /\ Cardinality(Some) =
               Cardinality(Range(f)) + Cardinality(Range(r)) - Cardinality(Range(f) \cap Range(r))
      BY <1>4, FS_Union
    <2>3. Cardinality(Some) \in Nat /\ Cardinality(Range(f) \cap Range(r)) \in Nat
      <3>1. IsFiniteSet(Range(f) \cap Range(r))
        BY <1>4, FS_Subset
      <3> QED
        BY <2>2, <3>1, FS_CardinalityType
    <2> HIDE DEF Some
    <2>4. /\ IsFiniteSet(Some \cup Range(a))
          /\ Cardinality(Some \cup Range(a)) =
               Cardinality(Some) + Cardinality(Range(a)) - Cardinality(Some \cap Range(a))
      BY <1>4, <2>2, FS_Union
    <2>5. /\ Cardinality(Some \cup Range(a)) \in Nat
          /\ Cardinality(Some \cap Range(a)) \in Nat
      <3>1. IsFiniteSet(Some \cap Range(a))
        BY <1>4, FS_Subset
      <3> QED
        BY <2>4, <3>1, FS_CardinalityType
    <2>6. Cardinality(Some \cup Range(a)) < k
      BY ONLY <2>1, <2>2, <2>3, <2>4, <2>5, <1>2, <1>4
    <2> QED
      BY <2>4, <2>5, <2>6 DEF Some
  <1>7. IsFiniteSet(Births) /\ Cardinality(Births) = k /\ k \in Nat
    <2>1. k \in Nat /\ k >= 1 /\ Births = 1 .. k
      BY <1>2 DEF Births
    <2> HIDE DEF k
    <2>2. IsFiniteSet(1 .. k) /\ Cardinality(1 .. k) = k
      BY <2>1, FS_Interval
    <2> QED
      BY <2>1, <2>2
  <1> HIDE DEF All, k
  <1> SUFFICES ASSUME Births \subseteq Remembered PROVE FALSE
    OBVIOUS
  <1>8. Births \in SUBSET All
    BY <1>5 DEF All
  <1>9. Cardinality(Births) <= Cardinality(All)
    BY <1>6, <1>8, FS_Subset
  <1> QED
    BY ONLY <1>6, <1>7, <1>9

Contents == Seq(Symbols \cup {Zero})

(* A new file is empty and differs from all that is remembered.             *)
LEMMA NewFileTyped ==
    ASSUME FilesTyped(files), HandlesTyped(handles)
    PROVE  /\ IsFile(NewFile) /\ NewFile.born \notin Remembered
           /\ NewFile.data = <<>> /\ NewFile.readonly = FALSE
  <1>1. Births \ Remembered \in SUBSET Nat
    BY DEF Births
  <1>2. Min(Births \ Remembered) \in Births \ Remembered
    BY <1>1, BirthsLeft, MinOfNumbers
  <1>3. NewFile.born = Min(Births \ Remembered) /\ NewFile.readonly = FALSE /\ NewFile.data = <<>>
    BY DEF NewFile
  <1>4. NewFile \in [born : Births, readonly : BOOLEAN, data : Contents]
    BY <1>2 DEF NewFile, Contents
  <1>5. Len(NewFile.data) = 0 /\ MaxSize \in Nat
    BY <1>3, SftpAssumption
  <1>6. Len(NewFile.data) <= MaxSize
    BY <1>5
  <1> QED
    BY <1>2, <1>3, <1>4, <1>6 DEF IsFile, Contents

(* A file put among the others.                                             *)
LEMMA PutFile ==
    ASSUME NEW fs, FilesTyped(fs), NEW n \in Names, NEW f, IsFile(f)
    PROVE  FilesTyped(Put(fs, n, f))
  <1> DEFINE gs == Put(fs, n, f)
  <1>1. DOMAIN gs = DOMAIN fs \cup {n} /\ gs[n] = f /\ \A y \in DOMAIN fs : y # n => gs[y] = fs[y]
    BY DEF Put
  <1> HIDE DEF gs
  <1>2. FilesTyped(gs)
    BY <1>1 DEF FilesTyped
  <1> QED
    BY <1>2 DEF gs

(* A handle put among the others.                                           *)
LEMMA PutHandle ==
    ASSUME NEW hs, HandlesTyped(hs), NEW s \in Slots, NEW h \in HandleType
    PROVE  HandlesTyped(Put(hs, s, h))
  <1> DEFINE gs == Put(hs, s, h)
  <1>1. DOMAIN gs = DOMAIN hs \cup {s} /\ gs[s] = h /\ \A y \in DOMAIN hs : y # s => gs[y] = hs[y]
    BY DEF Put
  <1> HIDE DEF gs
  <1>2. HandlesTyped(gs)
    BY <1>1 DEF HandlesTyped
  <1> QED
    BY <1>2 DEF gs

(* The same handles with other cursors.                                    *)
SameHandles(hs, gs) ==
    /\ DOMAIN gs = DOMAIN hs
    /\ \A s \in DOMAIN hs :
          /\ gs[s] \in HandleType /\ gs[s].name = hs[s].name
          /\ gs[s].readable = hs[s].readable /\ gs[s].writable = hs[s].writable
          /\ gs[s].appends = hs[s].appends

(* Such handles have the right type.                                        *)
LEMMA SameHandlesTyped ==
    ASSUME NEW hs, HandlesTyped(hs), NEW gs, SameHandles(hs, gs)
    PROVE  HandlesTyped(gs)
  BY DEF HandlesTyped, SameHandles

(* A handle may have no cursor.                                             *)
LEMMA NoCursor == {} \in Optional(CursorType)
  BY DEF Optional

(* invalidate_file takes the cursors of the handles at a path, and no more. *)
LEMMA InvalidatedFileIs ==
    ASSUME NEW hs, HandlesTyped(hs), NEW n
    PROVE  /\ SameHandles(hs, InvalidatedFile(hs, n))
           /\ \A s \in DOMAIN hs :
                 LET g == InvalidatedFile(hs, n)[s] IN
                 IF hs[s].name = n THEN Cursors(g) = {} ELSE g = hs[s]
  <1> DEFINE gs == InvalidatedFile(hs, n)
  <1>1. DOMAIN gs = DOMAIN hs
    BY DEF InvalidatedFile
  <1>2. ASSUME NEW s \in DOMAIN hs, hs[s].name = n
        PROVE  /\ gs[s] \in HandleType /\ gs[s].name = hs[s].name
               /\ gs[s].readable = hs[s].readable /\ gs[s].writable = hs[s].writable
               /\ gs[s].appends = hs[s].appends
               /\ Cursors(gs[s]) = {}
    <2>1. gs[s] = [hs[s] EXCEPT !.append = {}, !.read = {}]
      BY <1>2 DEF InvalidatedFile, SamePath
    <2>2. hs[s] \in HandleType
      BY DEF HandlesTyped
    <2> HIDE DEF gs
    <2>3. PICK h \in HandleType : h = hs[s]
      BY <2>2
    <2>4. PICK g : g = gs[s] /\ g = [h EXCEPT !.append = {}, !.read = {}]
      BY <2>1, <2>3
    <2>5. /\ g \in HandleType /\ g.name = h.name /\ g.readable = h.readable
          /\ g.writable = h.writable /\ g.appends = h.appends
          /\ g.read = {} /\ g.append = {}
      BY ONLY <2>4, h \in HandleType, NoCursor DEF HandleType
    <2> QED
      BY ONLY <2>3, <2>4, <2>5 DEF Cursors
  <1>3. ASSUME NEW s \in DOMAIN hs, hs[s].name # n
        PROVE  gs[s] = hs[s] /\ gs[s] \in HandleType
    BY <1>3 DEF InvalidatedFile, SamePath, HandlesTyped
  <1> HIDE DEF gs
  <1>4. SameHandles(hs, gs)
    BY <1>1, <1>2, <1>3 DEF SameHandles
  <1> QED
    BY <1>2, <1>3, <1>4 DEF gs

(* invalidate_written takes all but the append cursor of the handle         *)
(* written.                                                                 *)
LEMMA InvalidatedWrittenIs ==
    ASSUME NEW hs, HandlesTyped(hs), NEW slot
    PROVE  /\ SameHandles(hs, InvalidatedWritten(hs, slot))
           /\ \A s \in DOMAIN hs :
                 LET g == InvalidatedWritten(hs, slot)[s] IN
                 IF s = slot THEN g.read = {} /\ g.append = hs[s].append
                 ELSE IF hs[s].name = hs[slot].name THEN Cursors(g) = {}
                 ELSE g = hs[s]
  <1> DEFINE gs == InvalidatedWritten(hs, slot)
  <1>1. DOMAIN gs = DOMAIN hs
    BY DEF InvalidatedWritten
  <1>2. ASSUME NEW s \in DOMAIN hs, s = slot
        PROVE  /\ gs[s] \in HandleType /\ gs[s].name = hs[s].name
               /\ gs[s].readable = hs[s].readable /\ gs[s].writable = hs[s].writable
               /\ gs[s].appends = hs[s].appends
               /\ gs[s].read = {} /\ gs[s].append = hs[s].append
    <2>1. gs[s] = [hs[s] EXCEPT !.read = {}]
      BY <1>2 DEF InvalidatedWritten
    <2>2. hs[s] \in HandleType
      BY DEF HandlesTyped
    <2> HIDE DEF gs
    <2> QED
      BY <2>1, <2>2, NoCursor DEF HandleType
  <1>3. ASSUME NEW s \in DOMAIN hs, s # slot, hs[s].name = hs[slot].name
        PROVE  /\ gs[s] \in HandleType /\ gs[s].name = hs[s].name
               /\ gs[s].readable = hs[s].readable /\ gs[s].writable = hs[s].writable
               /\ gs[s].appends = hs[s].appends
               /\ Cursors(gs[s]) = {}
    <2>1. gs[s] = [hs[s] EXCEPT !.append = {}, !.read = {}]
      BY <1>3 DEF InvalidatedWritten, SamePath
    <2>2. hs[s] \in HandleType
      BY DEF HandlesTyped
    <2> HIDE DEF gs
    <2>3. PICK h \in HandleType : h = hs[s]
      BY <2>2
    <2>4. PICK g : g = gs[s] /\ g = [h EXCEPT !.append = {}, !.read = {}]
      BY <2>1, <2>3
    <2>5. /\ g \in HandleType /\ g.name = h.name /\ g.readable = h.readable
          /\ g.writable = h.writable /\ g.appends = h.appends
          /\ g.read = {} /\ g.append = {}
      BY ONLY <2>4, h \in HandleType, NoCursor DEF HandleType
    <2> QED
      BY ONLY <2>3, <2>4, <2>5 DEF Cursors
  <1>4. ASSUME NEW s \in DOMAIN hs, s # slot, hs[s].name # hs[slot].name
        PROVE  gs[s] = hs[s] /\ gs[s] \in HandleType
    BY <1>4 DEF InvalidatedWritten, SamePath, HandlesTyped
  <1> HIDE DEF gs
  <1>5. SameHandles(hs, gs)
    BY <1>1, <1>2, <1>3, <1>4 DEF SameHandles
  <1>6. \A s \in DOMAIN hs :
          IF s = slot THEN gs[s].read = {} /\ gs[s].append = hs[s].append
          ELSE IF hs[s].name = hs[slot].name THEN Cursors(gs[s]) = {}
          ELSE gs[s] = hs[s]
    BY <1>2, <1>3, <1>4
  <1> QED
    BY <1>5, <1>6 DEF gs

Image(F, C) == {F[c] : c \in C}
WithCursors(h, R, A) == [h EXCEPT !.read = R, !.append = A]

(* A change of cursors, given as a function, keeps a handle what it is.    *)
LEMMA MappedHandle ==
    ASSUME NEW h \in HandleType, NEW F \in [CursorType -> CursorType],
           NEW g, g = WithCursors(h, Image(F, h.read), Image(F, h.append))
    PROVE  /\ g \in HandleType /\ g.name = h.name /\ g.readable = h.readable
           /\ g.writable = h.writable /\ g.appends = h.appends
           /\ Cursors(g) = Image(F, Cursors(h))
  <1> DEFINE R == Image(F, h.read)  A == Image(F, h.append)
  <1>1. h.read \in Optional(CursorType) /\ h.append \in Optional(CursorType)
    BY DEF HandleType
  <1>2. R \in Optional(CursorType)
    <2>1. h.read \subseteq CursorType /\ \A x, y \in h.read : x = y
      BY <1>1, OptionalSet
    <2>2. R \subseteq CursorType /\ \A x, y \in R : x = y
      BY <2>1 DEF Image
    <2> QED
      BY <2>2, OptionalSet
  <1>3. A \in Optional(CursorType)
    <2>1. h.append \subseteq CursorType /\ \A x, y \in h.append : x = y
      BY <1>1, OptionalSet
    <2>2. A \subseteq CursorType /\ \A x, y \in A : x = y
      BY <2>1 DEF Image
    <2> QED
      BY <2>2, OptionalSet
  <1>4. R \cup A = Image(F, Cursors(h))
    BY DEF Cursors, Image
  <1>5. g = WithCursors(h, R, A)
    OBVIOUS
  <1> HIDE DEF R, A
  <1>6. /\ g \in HandleType /\ g.name = h.name /\ g.readable = h.readable
        /\ g.writable = h.writable /\ g.appends = h.appends
        /\ g.read = R /\ g.append = A
    BY ONLY <1>2, <1>3, <1>5, h \in HandleType DEF HandleType, WithCursors
  <1> QED
    BY <1>4, <1>6 DEF Cursors

(* What a cut, a rename and a removal do to one cursor.                    *)
ShrinkOne(b) ==
    [c \in CursorType |->
        IF c.born = b
        THEN IF c.fate = "intact" THEN [c EXCEPT !.fate = "shrunk"] ELSE c
        ELSE c]
MoveOne(b) == [c \in CursorType |-> IF c.born = b THEN [c EXCEPT !.fate = "moved"] ELSE c]
OrphanOne(b) ==
    [c \in CursorType |->
        IF c.born = b THEN [c EXCEPT !.fate = "moved", !.born = 0, !.size = 0] ELSE c]

(* These changes keep a cursor a cursor.                                    *)
LEMMA ChangesTyped ==
    ASSUME NEW b
    PROVE  /\ ShrinkOne(b) \in [CursorType -> CursorType]
           /\ MoveOne(b) \in [CursorType -> CursorType]
           /\ OrphanOne(b) \in [CursorType -> CursorType]
  <1>1. MaxSize \in Nat
    BY SftpAssumption
  <1> SUFFICES ASSUME NEW c \in CursorType
               PROVE  /\ [c EXCEPT !.fate = "shrunk"] \in CursorType
                      /\ [c EXCEPT !.fate = "moved"] \in CursorType
                      /\ [c EXCEPT !.fate = "moved", !.born = 0, !.size = 0] \in CursorType
    BY DEF ShrinkOne, MoveOne, OrphanOne
  <1>2. 0 \in 0 .. MaxSize /\ 0 \in {0} \cup Births
    BY <1>1
  <1>3. [c EXCEPT !.fate = "shrunk"] \in CursorType /\ [c EXCEPT !.fate = "moved"] \in CursorType
    BY DEF CursorType
  <1>4. [c EXCEPT !.fate = "moved", !.born = 0, !.size = 0] \in CursorType
    <2> DEFINE B == {0} \cup Births  Z == 0 .. MaxSize
    <2>1. 0 \in B /\ 0 \in Z /\ c \in [at : Z, born : B, size : Z, fate : {"intact", "shrunk", "moved"}]
      BY <1>2 DEF CursorType
    <2> HIDE DEF B, Z
    <2>2. [c EXCEPT !.fate = "moved", !.born = 0, !.size = 0]
             \in [at : Z, born : B, size : Z, fate : {"intact", "shrunk", "moved"}]
      BY ONLY <2>1
    <2> QED
      BY <2>2 DEF B, Z, CursorType
  <1> QED
    BY <1>3, <1>4

(* The handles `gs` are the handles `hs`, each cursor changed by F.        *)
MappedBy(hs, gs, F) ==
    /\ SameHandles(hs, gs)
    /\ \A s \in DOMAIN hs : Cursors(gs[s]) = Image(F, Cursors(hs[s]))

(* The handles after a change of their cursors.                             *)
LEMMA MappedHandles ==
    ASSUME NEW hs, HandlesTyped(hs), NEW F \in [CursorType -> CursorType], NEW gs,
           DOMAIN gs = DOMAIN hs,
           \A s \in DOMAIN hs :
              gs[s] = [hs[s] EXCEPT !.read = Image(F, hs[s].read),
                                    !.append = Image(F, hs[s].append)]
    PROVE  MappedBy(hs, gs, F)
  <1>1. ASSUME NEW s \in DOMAIN hs
        PROVE  /\ gs[s] \in HandleType /\ gs[s].name = hs[s].name
               /\ gs[s].readable = hs[s].readable /\ gs[s].writable = hs[s].writable
               /\ gs[s].appends = hs[s].appends
               /\ Cursors(gs[s]) = Image(F, Cursors(hs[s]))
    <2>1. PICK h \in HandleType : h = hs[s]
      BY DEF HandlesTyped
    <2>2. PICK g : g = gs[s]
      OBVIOUS
    <2>3. g = WithCursors(h, Image(F, h.read), Image(F, h.append))
      BY <2>1, <2>2 DEF WithCursors
    <2>4. /\ g \in HandleType /\ g.name = h.name /\ g.readable = h.readable
          /\ g.writable = h.writable /\ g.appends = h.appends
          /\ Cursors(g) = Image(F, Cursors(h))
      BY ONLY <2>3, h \in HandleType, F \in [CursorType -> CursorType], MappedHandle
    <2> QED
      BY <2>1, <2>2, <2>4
  <1> QED
    BY <1>1 DEF MappedBy, SameHandles

(* What Shrunk does to the handles.                                         *)
LEMMA ShrunkIs ==
    ASSUME NEW hs, HandlesTyped(hs), NEW b
    PROVE  MappedBy(hs, Shrunk(hs, b), ShrinkOne(b))
  <1> DEFINE gs == Shrunk(hs, b)  F == ShrinkOne(b)
  <1>1. DOMAIN gs = DOMAIN hs
    BY DEF Shrunk, MapCursors
  <1>2. ASSUME NEW s \in DOMAIN hs
        PROVE  gs[s] = [hs[s] EXCEPT !.read = Image(F, hs[s].read),
                                     !.append = Image(F, hs[s].append)]
    <2>1. hs[s] \in HandleType
      BY DEF HandlesTyped
    <2>2. hs[s].read \subseteq CursorType /\ hs[s].append \subseteq CursorType
      BY <2>1, OptionalSet DEF HandleType
    <2> DEFINE To(c) == IF c.born = b
                        THEN IF c.fate = "intact" THEN [c EXCEPT !.fate = "shrunk"] ELSE c
                        ELSE c
    <2>3. gs[s] = [hs[s] EXCEPT !.read = {To(c) : c \in hs[s].read},
                                !.append = {To(c) : c \in hs[s].append}]
      BY <2>1 DEF Shrunk, MapCursors, HandleType
    <2>4. \A c \in CursorType : F[c] = To(c)
      BY DEF ShrinkOne
    <2>5. /\ {To(c) : c \in hs[s].read} = Image(F, hs[s].read)
          /\ {To(c) : c \in hs[s].append} = Image(F, hs[s].append)
      <3> HIDE DEF To, F
      <3> QED
        BY <2>2, <2>4 DEF Image
    <2> QED
      BY <2>3, <2>5
  <1> HIDE DEF gs, F
  <1>3. F \in [CursorType -> CursorType]
    BY ChangesTyped DEF F
  <1>4. MappedBy(hs, gs, F)
    BY <1>1, <1>2, <1>3, MappedHandles
  <1> QED
    BY <1>4 DEF gs, F

(* What Moved does to the handles.                                          *)
LEMMA MovedIs ==
    ASSUME NEW hs, HandlesTyped(hs), NEW b
    PROVE  MappedBy(hs, Moved(hs, b), MoveOne(b))
  <1> DEFINE gs == Moved(hs, b)  F == MoveOne(b)
  <1>1. DOMAIN gs = DOMAIN hs
    BY DEF Moved, MapCursors
  <1>2. ASSUME NEW s \in DOMAIN hs
        PROVE  gs[s] = [hs[s] EXCEPT !.read = Image(F, hs[s].read),
                                     !.append = Image(F, hs[s].append)]
    <2>1. hs[s] \in HandleType
      BY DEF HandlesTyped
    <2>2. hs[s].read \subseteq CursorType /\ hs[s].append \subseteq CursorType
      BY <2>1, OptionalSet DEF HandleType
    <2> DEFINE To(c) == IF c.born = b THEN [c EXCEPT !.fate = "moved"] ELSE c
    <2>3. gs[s] = [hs[s] EXCEPT !.read = {To(c) : c \in hs[s].read},
                                !.append = {To(c) : c \in hs[s].append}]
      BY <2>1 DEF Moved, MapCursors, HandleType
    <2>4. \A c \in CursorType : F[c] = To(c)
      BY DEF MoveOne
    <2>5. /\ {To(c) : c \in hs[s].read} = Image(F, hs[s].read)
          /\ {To(c) : c \in hs[s].append} = Image(F, hs[s].append)
      <3> HIDE DEF To, F
      <3> QED
        BY <2>2, <2>4 DEF Image
    <2> QED
      BY <2>3, <2>5
  <1> HIDE DEF gs, F
  <1>3. F \in [CursorType -> CursorType]
    BY ChangesTyped DEF F
  <1>4. MappedBy(hs, gs, F)
    BY <1>1, <1>2, <1>3, MappedHandles
  <1> QED
    BY <1>4 DEF gs, F

(* What Orphaned does to the handles.                                       *)
LEMMA OrphanedIs ==
    ASSUME NEW hs, HandlesTyped(hs), NEW b
    PROVE  MappedBy(hs, Orphaned(hs, b), OrphanOne(b))
  <1> DEFINE gs == Orphaned(hs, b)  F == OrphanOne(b)
  <1>1. DOMAIN gs = DOMAIN hs
    BY DEF Orphaned, MapCursors
  <1>2. ASSUME NEW s \in DOMAIN hs
        PROVE  gs[s] = [hs[s] EXCEPT !.read = Image(F, hs[s].read),
                                     !.append = Image(F, hs[s].append)]
    <2>1. hs[s] \in HandleType
      BY DEF HandlesTyped
    <2>2. hs[s].read \subseteq CursorType /\ hs[s].append \subseteq CursorType
      BY <2>1, OptionalSet DEF HandleType
    <2> DEFINE To(c) == IF c.born = b THEN [c EXCEPT !.fate = "moved", !.born = 0, !.size = 0]
                        ELSE c
    <2>3. gs[s] = [hs[s] EXCEPT !.read = {To(c) : c \in hs[s].read},
                                !.append = {To(c) : c \in hs[s].append}]
      BY <2>1 DEF Orphaned, MapCursors, HandleType
    <2>4. \A c \in CursorType : F[c] = To(c)
      BY DEF OrphanOne
    <2>5. /\ {To(c) : c \in hs[s].read} = Image(F, hs[s].read)
          /\ {To(c) : c \in hs[s].append} = Image(F, hs[s].append)
      <3> HIDE DEF To, F
      <3> QED
        BY <2>2, <2>4 DEF Image
    <2> QED
      BY <2>3, <2>5
  <1> HIDE DEF gs, F
  <1>3. F \in [CursorType -> CursorType]
    BY ChangesTyped DEF F
  <1>4. MappedBy(hs, gs, F)
    BY <1>1, <1>2, <1>3, MappedHandles
  <1> QED
    BY <1>4 DEF gs, F

-----------------------------------------------------------------------------
(* Contents, and what a write leaves.                                      *)

(* What Overlay leaves: the units at their place, zeros before, the rest as *)
(* it was.                                                                  *)
LEMMA OverlayIs ==
    ASSUME NEW data \in Contents, NEW at \in Nat, NEW units \in Contents
    PROVE  /\ Overlay(data, at, units) \in Contents
           /\ Len(Overlay(data, at, units)) =
                IF Len(data) <= at + Len(units) THEN at + Len(units) ELSE Len(data)
           /\ \A i \in 1 .. Len(Overlay(data, at, units)) :
                Overlay(data, at, units)[i] =
                   IF i > at /\ i <= at + Len(units) THEN units[i - at]
                   ELSE IF i <= Len(data) THEN data[i] ELSE Zero
  <1> DEFINE k == Max({Len(data), at + Len(units)})
             value(i) == IF i > at /\ i <= at + Len(units) THEN units[i - at]
                         ELSE IF i <= Len(data) THEN data[i] ELSE Zero
             result == [i \in 1 .. k |-> value(i)]
  <1>1. Len(data) \in Nat /\ Len(units) \in Nat
    BY DEF Contents
  <1>2. k \in Nat /\ k = IF Len(data) <= at + Len(units) THEN at + Len(units) ELSE Len(data)
    BY <1>1, MaxOfTwo
  <1>3. result = Overlay(data, at, units)
    BY DEF Overlay
  <1> HIDE DEF k
  <1>4. ASSUME NEW i \in 1 .. k PROVE value(i) \in Symbols \cup {Zero}
    <2>1. CASE i > at /\ i <= at + Len(units)
      <3>1. i - at \in 1 .. Len(units)
        BY <2>1, <1>1, <1>2
      <3>2. units[i - at] \in Symbols \cup {Zero}
        BY <3>1, ElementOfSeq DEF Contents
      <3> QED
        BY <2>1, <3>2
    <2>2. CASE ~(i > at /\ i <= at + Len(units)) /\ i <= Len(data)
      <3>1. i \in 1 .. Len(data)
        BY <2>2, <1>1, <1>2
      <3>2. data[i] \in Symbols \cup {Zero}
        BY <3>1, ElementOfSeq DEF Contents
      <3> QED
        BY <2>2, <3>2
    <2>3. CASE ~(i > at /\ i <= at + Len(units)) /\ ~(i <= Len(data))
      BY <2>3
    <2> QED
      BY <2>1, <2>2, <2>3
  <1>5. result \in [1 .. k -> Symbols \cup {Zero}]
    <2> HIDE DEF value
    <2> QED
      BY <1>4
  <1>6. result \in Contents /\ Len(result) = k /\ \A i \in 1 .. k : result[i] = value(i)
    <2> HIDE DEF value
    <2>1. \A i \in 1 .. k : result[i] = value(i)
      OBVIOUS
    <2>2. result \in Seq(Symbols \cup {Zero}) /\ Len(result) = k
      <3> HIDE DEF result
      <3> QED
        BY <1>2, <1>5, IsASeq, LenProperties
    <2> QED
      BY <2>1, <2>2 DEF Contents
  <1> QED
    BY <1>2, <1>3, <1>6

(* Zeros are contents of a file.                                            *)
LEMMA ZerosAre ==
    ASSUME NEW k \in Nat
    PROVE  Zeros(k) \in Contents /\ Len(Zeros(k)) = k /\ \A i \in 1 .. k : Zeros(k)[i] = Zero
  <1>1. Zeros(k) \in [1 .. k -> Symbols \cup {Zero}]
    BY DEF Zeros
  <1>2. \A i \in 1 .. k : Zeros(k)[i] = Zero
    BY DEF Zeros
  <1> QED
    BY <1>1, <1>2, IsASeq, LenProperties DEF Contents

(* The units of a chunk of payload are contents of a file.                  *)
LEMMA UnitsAre ==
    ASSUME NEW k \in Nat, NEW units \in [1 .. k -> Symbols]
    PROVE  units \in Contents /\ Len(units) = k
  <1>1. units \in [1 .. k -> Symbols \cup {Zero}]
    OBVIOUS
  <1>2. DOMAIN units = 1 .. k
    OBVIOUS
  <1>3. units \in Seq(Symbols \cup {Zero})
    BY ONLY <1>1, k \in Nat, IsASeq
  <1>4. Len(units) \in Nat /\ DOMAIN units = 1 .. Len(units)
    BY <1>3, LenProperties
  <1>5. Len(units) = k
    BY ONLY <1>2, <1>4, k \in Nat
  <1> QED
    BY <1>3, <1>5 DEF Contents

(* The cursor a read or a write leaves has the right type.                  *)
LEMMA CursorTyped ==
    ASSUME NEW f, IsFile(f), NEW at \in 0 .. MaxSize
    PROVE  Cursor(f, at) \in CursorType /\ {Cursor(f, at)} \in Optional(CursorType)
  <1>1. MaxSize \in Nat
    BY SftpAssumption
  <1>2. f.born \in {0} \cup Births /\ Len(f.data) \in 0 .. MaxSize
    BY <1>1 DEF IsFile
  <1>3. Cursor(f, at) \in CursorType
    BY <1>2 DEF Cursor, CursorType
  <1> QED
    BY <1>3 DEF Optional

(* What every outcome of a write has in common, with the outcomes that     *)
(* report success.                                                         *)
Written(h, f, at, units, r) ==
    /\ r.ok \in BOOLEAN
    /\ IsFile(r.file) /\ r.file.born = f.born /\ r.file.readonly = f.readonly
    /\ Len(r.file.data) >= Len(f.data)
    /\ f.readonly => r.file.data = f.data
    /\ r.ok => r.file.data = Overlay(f.data, at, units)
    /\ r.handle \in HandleType /\ r.handle.name = h.name
    /\ r.handle.readable = h.readable /\ r.handle.writable = h.writable
    /\ r.handle.appends = h.appends
    /\ r.handle.read \in {h.read, {}}
    /\ \/ r.handle.append \subseteq h.append /\ (~r.ok => r.handle.append = {} \/ r.file = f)
       \/ r.ok /\ r.handle.append = {Cursor(r.file, at + Len(units))}

(* Every outcome of write_chunk is such a result.                           *)
LEMMA OutcomesOfWrite ==
    ASSUME FilesTyped(files), NEW h \in HandleType, h.name \in DOMAIN files,
           NEW at \in Nat, NEW units \in Contents,
           NEW r \in WriteOutcomes(h, at, units)
    PROVE  Written(h, files[h.name], at, units, r)
  <1> DEFINE f == files[h.name]
             end == at + Len(units)
             After(k) == [f EXCEPT !.data = Overlay(@, at, SubSeq(units, 1, k))]
             done == After(Len(units))
             lost == [h EXCEPT !.append = {}]
             moved == [h EXCEPT !.read = {},
                                !.append = IF end >= Len(f.data)
                                           THEN {Cursor(done, end)} ELSE {}]
             inPlace == {k \in 0 .. Len(units) : at + k <= Len(f.data)}
             Result(ok, g, hh) == [ok |-> ok, file |-> g, handle |-> hh]
  <1> SUFFICES Written(h, f, at, units, r)
    OBVIOUS
  <1>1. \/ r = Result(FALSE, f, h)
        \/ r = Result(FALSE, f, lost)
        \/ Writable(f, end) /\ r = Result(TRUE, done, moved)
        \/ Writable(f, end) /\ \E k \in inPlace : r = Result(FALSE, After(k), lost)
        \/ Writable(f, end) /\ r = Result(FALSE, done, lost)
    BY DEF WriteOutcomes
  <1>2. IsFile(f)
    BY DEF FilesTyped
  <1>3. /\ Len(units) \in Nat /\ f.data \in Contents /\ Len(f.data) \in Nat
        /\ MaxSize \in Nat /\ Len(f.data) <= MaxSize
    BY <1>2, SftpAssumption DEF Contents, IsFile
  <1>4. lost \in HandleType /\ lost.append = {} /\ lost.read = h.read /\ lost.name = h.name
        /\ lost.readable = h.readable /\ lost.writable = h.writable /\ lost.appends = h.appends
    BY NoCursor DEF HandleType
  <1>5. ASSUME NEW k \in 0 .. Len(units), Writable(f, end)
        PROVE  /\ IsFile(After(k)) /\ After(k).born = f.born /\ After(k).readonly = f.readonly
               /\ After(k).data = Overlay(f.data, at, SubSeq(units, 1, k))
               /\ Len(After(k).data) >= Len(f.data)
               /\ ~f.readonly
    <2> DEFINE part == SubSeq(units, 1, k)  data == Overlay(f.data, at, part)
    <2>1. part \in Contents /\ Len(part) = k
      BY <1>3, SubSeqProperties, ElementOfSeq DEF Contents
    <2>2. data \in Contents /\ Len(data) = IF Len(f.data) <= at + k THEN at + k ELSE Len(f.data)
      <3> HIDE DEF part
      <3>1. f.data \in Contents /\ part \in Contents
        BY <1>3, <2>1
      <3>2. /\ data \in Contents
            /\ Len(data) = IF Len(f.data) <= at + Len(part) THEN at + Len(part)
                           ELSE Len(f.data)
        BY ONLY <3>1, OverlayIs, at \in Nat
      <3> QED
        BY ONLY <3>2, <2>1
    <2>3. ~f.readonly /\ at + Len(units) <= MaxSize
      BY <1>5 DEF Writable
    <2>4. Len(data) <= MaxSize /\ Len(data) >= Len(f.data)
      <3> HIDE DEF data
      <3> QED
        BY ONLY <1>3, <2>2, <2>3, k \in 0 .. Len(units), at \in Nat
    <2>5. After(k) = [f EXCEPT !.data = data]
      BY <1>2 DEF IsFile
    <2> HIDE DEF data
    <2>6. PICK g : g = [f EXCEPT !.data = data] /\ g = After(k)
      BY <2>5
    <2> HIDE DEF f, After
    <2>7. /\ g \in [born : Births, readonly : BOOLEAN, data : Contents]
          /\ g.born = f.born /\ g.readonly = f.readonly /\ g.data = data
      BY ONLY <1>2, <2>2, <2>6 DEF IsFile, Contents
    <2>8. IsFile(g)
      BY ONLY <2>4, <2>7 DEF IsFile, Contents
    <2> QED
      BY <2>3, <2>4, <2>6, <2>7, <2>8 DEF data
  <1>6. SubSeq(units, 1, Len(units)) = units
    BY SubSeqFull DEF Contents
  <1>7. ASSUME Writable(f, end)
        PROVE  /\ IsFile(done) /\ done.born = f.born /\ done.readonly = f.readonly
               /\ done.data = Overlay(f.data, at, units)
               /\ Len(done.data) >= Len(f.data)
               /\ ~f.readonly
               /\ end \in 0 .. MaxSize
    <2>1. Len(units) \in 0 .. Len(units)
      BY <1>3
    <2>2. end \in 0 .. MaxSize
      BY <1>3, <1>7 DEF Writable
    <2> QED
      BY <2>1, <2>2, <1>5, <1>6, <1>7
  <1>8. ASSUME Writable(f, end)
        PROVE  /\ moved \in HandleType /\ moved.read = {} /\ moved.name = h.name
               /\ moved.append = {} \/ moved.append = {Cursor(done, end)}
               /\ moved.readable = h.readable /\ moved.writable = h.writable
               /\ moved.appends = h.appends
    <2> DEFINE tail == IF end >= Len(f.data) THEN {Cursor(done, end)} ELSE {}
    <2>1. tail \in Optional(CursorType)
      BY <1>7, <1>8, CursorTyped, NoCursor
    <2>2. tail = {} \/ tail = {Cursor(done, end)}
      OBVIOUS
    <2>3. PICK A : A = tail
      OBVIOUS
    <2>4. PICK g : g = moved /\ g = [h EXCEPT !.read = {}, !.append = A]
      BY <2>3
    <2>5. /\ g \in HandleType /\ g.read = {} /\ g.name = h.name /\ g.append = A
          /\ g.readable = h.readable /\ g.writable = h.writable /\ g.appends = h.appends
      <3>1. A \in Optional(CursorType)
        BY <2>1, <2>3
      <3> QED
        BY ONLY <3>1, <2>4, NoCursor, h \in HandleType DEF HandleType
    <2> HIDE DEF tail, moved
    <2> QED
      BY ONLY <2>2, <2>3, <2>4, <2>5
  <1> HIDE DEF lost, done, moved, After, f, end
  <1>9. CASE r = Result(FALSE, f, h)
    BY ONLY <1>9, <1>2, <1>3, h \in HandleType DEF Written
  <1>10. CASE r = Result(FALSE, f, lost)
    BY ONLY <1>10, <1>2, <1>3, <1>4 DEF Written
  <1>11. CASE Writable(f, end) /\ r = Result(TRUE, done, moved)
    <2>1. r.ok = TRUE /\ r.file = done /\ r.handle = moved
      BY <1>11
    <2> QED
      BY ONLY <2>1, <1>7, <1>8, <1>11 DEF Written, end
  <1>12. CASE Writable(f, end) /\ \E k \in inPlace : r = Result(FALSE, After(k), lost)
    <2>1. PICK k \in inPlace : r = Result(FALSE, After(k), lost)
      BY <1>12
    <2>2. r.ok = FALSE /\ r.file = After(k) /\ r.handle = lost
      BY <2>1
    <2> QED
      BY ONLY <2>2, <1>4, <1>5, <1>12, k \in inPlace DEF Written
  <1>13. CASE Writable(f, end) /\ r = Result(FALSE, done, lost)
    <2>1. r.ok = FALSE /\ r.file = done /\ r.handle = lost
      BY <1>13
    <2> QED
      BY ONLY <2>1, <1>4, <1>7, <1>13 DEF Written
  <1> QED
    BY <1>1, <1>9, <1>10, <1>11, <1>12, <1>13

-----------------------------------------------------------------------------
(* The inductive invariant.                                                *)

VolumeInv ==
    /\ FilesTyped(files) /\ folders \subseteq Names /\ DOMAIN files \cap folders = {}

(* No token is younger than the generation.                                *)
OpenedInv ==
    /\ HandlesTyped(handles) /\ dirHandles \subseteq Slots
    /\ DOMAIN handles \cap dirHandles = {}
    /\ generation \in 0 .. MaxOpens /\ tokens \in [Slots -> 0 .. generation]

(* A piece of work, given the names of the open handles or the files.      *)
ReadOK(s, open) ==
    /\ s \in [slot : Slots, offset : 0 .. MaxSize, remaining : 1 .. MaxSize]
    /\ s.slot \in open
    /\ s.offset + s.remaining <= MaxSize /\ s.remaining <= MaxRead
WriteOK(w, open) ==
    /\ w \in [id : Ids, slot : Slots, remaining : 0 .. Max(Payloads),
              offset : 0 .. MaxSize, failed : BOOLEAN]
    /\ w.failed \/ (w.slot \in open /\ w.offset + w.remaining <= MaxSize)
JobOK(j, fs) ==
    /\ j \in JobType /\ j.file.name \in DOMAIN fs
    /\ Len(fs[j.file.name].data) <= j.size

(* The variables of the wire, each by itself.                              *)
WireTyped ==
    /\ input \in Seq(FrameType) /\ Len(input) <= MaxInput
    /\ fatal \in BOOLEAN /\ budget \in BOOLEAN
    /\ asked \in Seq(Ids) /\ expects \in 0 .. MaxRead
    /\ owes \in 0 .. Max(Payloads) /\ skip \in 0 .. Max(Payloads)

(* Of the input, `first` units of payload belong to the work that goes on; *)
(* of the requests without a reply, `taken` have left it.                  *)
InStep(first, taken) == Framed(input, first, owes) /\ Queued(input, asked, taken)

(* What the server is at, with what it is about to say.                    *)
NoWork == readStream = {} /\ writeStream = {} /\ resize = {}
AtRest ==
    /\ NoWork /\ out = <<>> /\ expects = 0
    /\ InStep(skip, 0)
AtRead(s) ==
    /\ readStream = {s} /\ writeStream = {} /\ resize = {} /\ skip = 0
    /\ ReadOK(s, DOMAIN handles) /\ out = <<>> /\ expects = s.remaining
    /\ InStep(0, 0)
AtWrite(w) ==
    /\ readStream = {} /\ writeStream = {w} /\ resize = {} /\ skip = 0
    /\ WriteOK(w, DOMAIN handles) /\ out = <<>> /\ expects = 0
    /\ InStep(w.remaining, 1) /\ asked[1] = w.id
AtResize(j) ==
    /\ readStream = {} /\ writeStream = {} /\ resize = {j} /\ skip = 0
    /\ JobOK(j, files) /\ out = <<>> /\ expects = 0
    /\ InStep(0, 1) /\ asked[1] = j.id
Replying(r) ==
    /\ NoWork /\ out = <<r>> /\ expects = 0
    /\ r \in ReplyType /\ r.n = 0 /\ r.kind \notin {"data", "chunk"}
    /\ InStep(skip, 1) /\ asked[1] = r.id
Announcing(r, s) ==
    /\ readStream = {s} /\ writeStream = {} /\ resize = {} /\ skip = 0
    /\ ReadOK(s, DOMAIN handles) /\ out = <<r>> /\ expects = 0
    /\ r \in ReplyType /\ r.kind = "data" /\ r.n = s.remaining
    /\ InStep(0, 1) /\ asked[1] = r.id
Delivering(r) ==
    /\ writeStream = {} /\ resize = {} /\ skip = 0
    /\ out = <<r>> /\ r \in ReplyType /\ r.kind = "chunk"
    /\ \/ readStream = {} /\ expects = r.n
       \/ \E s : /\ readStream = {s} /\ ReadOK(s, DOMAIN handles)
                 /\ expects = r.n + s.remaining
    /\ InStep(0, 0)

WorkInv ==
    \/ fatal /\ NoWork /\ out = <<>>
    \/ /\ ~fatal
       /\ \/ AtRest
          \/ \E s : AtRead(s)
          \/ \E w : AtWrite(w)
          \/ \E j : AtResize(j)
          \/ \E r : Replying(r)
          \/ \E r, s : Announcing(r, s)
          \/ \E r : Delivering(r)

IInv == VolumeInv /\ OpenedInv /\ WireTyped /\ WorkInv

-----------------------------------------------------------------------------
(* What a request begins.                                                  *)

SimpleKinds == {"reply", "handle", "eof", "ok", "fail"}

Begun(id) ==
    \/ (\E kind \in SimpleKinds : out' = <<Reply(kind, id)>>) /\ UNCHANGED streams
    \/ /\ \E s : /\ readStream' = {s} /\ ReadOK(s, DOMAIN handles')
                 /\ out' = <<Data(id, s.remaining)>>
       /\ UNCHANGED <<writeStream, resize, skip>>
    \/ /\ \E j : resize' = {j} /\ JobOK(j, files') /\ j.id = id
       /\ UNCHANGED <<readStream, writeStream, skip, out>>

(* A file that is read-only keeps its contents, here or at another path.   *)
KeepsReadOnly ==
    \A n \in DOMAIN files : files[n].readonly =>
        \E m \in DOMAIN files' :
            files'[m].data = files[n].data /\ (m = n \/ n \notin DOMAIN files')

(* A token that is not valid does not become valid.                        *)
KeepsInvalid == \A t \in Presented : ~Valid(t) => ~Valid(t)'

Served(id) ==
    VolumeInv' /\ OpenedInv' /\ Begun(id) /\ KeepsReadOnly /\ KeepsInvalid

(* Files that do not change keep what they say.                             *)
LEMMA SameFiles ==
    ASSUME UNCHANGED files
    PROVE  KeepsReadOnly
  BY DEF KeepsReadOnly

(* No handle becomes valid when no slot is taken.                           *)
LEMMA SameTokens ==
    ASSUME UNCHANGED tokens,
           DOMAIN handles' \cup dirHandles' \subseteq DOMAIN handles \cup dirHandles
    PROVE  KeepsInvalid
  BY DEF KeepsInvalid, Valid, OpenSlots

(* A slot is taken with a token that was never given out before.           *)
LEMMA NewToken ==
    ASSUME OpenedInv, NEW s \in Slots, Allocate(s),
           DOMAIN handles' \cup dirHandles' \subseteq DOMAIN handles \cup dirHandles \cup {s}
    PROVE  /\ KeepsInvalid
           /\ generation' \in 0 .. MaxOpens /\ tokens' \in [Slots -> 0 .. generation']
  <1>1. generation \in Nat /\ MaxOpens \in Nat
    BY SftpAssumption DEF OpenedInv
  <1>2. generation' = generation + 1 /\ generation < MaxOpens
        /\ tokens' = [tokens EXCEPT ![s] = generation + 1]
        /\ tokens \in [Slots -> 0 .. generation]
    BY DEF Allocate, OpenedInv
  <1>3. generation' \in 0 .. MaxOpens /\ tokens' \in [Slots -> 0 .. generation']
    BY <1>1, <1>2
  <1>4. ASSUME NEW t \in Presented, ~Valid(t) PROVE ~Valid(t)'
    <2>1. t[1] \in 0 .. generation /\ t[2] \in Slots
      BY DEF Presented
    <2>2. CASE t[2] = s
      <3>1. tokens'[t[2]] = generation + 1 /\ t[1] # generation + 1
        BY <2>1, <2>2, <1>1, <1>2
      <3> QED
        BY <3>1 DEF Valid
    <2>3. CASE t[2] # s
      <3>1. tokens'[t[2]] = tokens[t[2]]
        BY <2>1, <2>3, <1>2
      <3> QED
        BY <2>3, <3>1, <1>4 DEF Valid, OpenSlots
    <2> QED
      BY <2>2, <2>3
  <1> QED
    BY <1>3, <1>4 DEF KeepsInvalid

(* A reply that comes with no change.                                      *)
LEMMA AnswerServes ==
    ASSUME VolumeInv, OpenedInv, NEW id, NEW kind \in SimpleKinds, Answer(kind, id)
    PROVE  Served(id)
  <1>1. UNCHANGED <<files, folders, handles, dirHandles, tokens, generation>>
        /\ UNCHANGED streams /\ out' = <<Reply(kind, id)>>
    BY DEF Answer, volume, opened
  <1>2. VolumeInv' /\ OpenedInv'
    BY <1>1 DEF VolumeInv, OpenedInv
  <1>3. Begun(id)
    BY <1>1 DEF Begun
  <1>4. KeepsReadOnly /\ KeepsInvalid
    BY <1>1, SameFiles, SameTokens
  <1> QED
    BY <1>2, <1>3, <1>4 DEF Served

(* Requests that change nothing.                                            *)
LEMMA QueryServes ==
    ASSUME VolumeInv, OpenedInv, NEW id, Query(id)
    PROVE  Served(id)
  BY AnswerServes DEF Query, SimpleKinds

(* FSYNC of a file.                                                         *)
LEMMA FsyncServes ==
    ASSUME VolumeInv, OpenedInv, NEW id, NEW t, Fsync(id, t)
    PROVE  Served(id)
  BY AnswerServes DEF Fsync, SimpleKinds

(* READDIR of a directory, whose listing is not modelled.                   *)
LEMMA ReaddirServes ==
    ASSUME VolumeInv, OpenedInv, NEW id, NEW t, Readdir(id, t)
    PROVE  Served(id)
  BY AnswerServes DEF Readdir, SimpleKinds

(* SETSTAT of a directory.                                                  *)
LEMMA SetstatFolderServes ==
    ASSUME VolumeInv, OpenedInv, NEW id, NEW n, SetstatFolder(id, n)
    PROVE  Served(id)
  BY AnswerServes DEF SetstatFolder, SimpleKinds

(* A free slot.                                                            *)
LEMMA FreeSlot ==
    ASSUME FreeSlots # {}
    PROVE  Min(FreeSlots) \in Slots /\ Min(FreeSlots) \notin OpenSlots
  <1>1. FreeSlots \in SUBSET Nat
    BY SftpAssumption DEF FreeSlots
  <1> QED
    BY <1>1, MinOfNumbers DEF FreeSlots

(* OPENDIR takes a free slot.                                               *)
LEMMA OpendirServes ==
    ASSUME VolumeInv, OpenedInv, NEW id, NEW n, Opendir(id, n)
    PROVE  Served(id)
  <1>1. CASE FreeSlots = {}
    BY <1>1, AnswerServes DEF Opendir, Fail, SimpleKinds
  <1>2. CASE FreeSlots # {}
    <2>1. PICK s : s = Min(FreeSlots)
      OBVIOUS
    <2>2. s \in Slots /\ s \notin OpenSlots
      BY <2>1, <1>2, FreeSlot
    <2>3. /\ Allocate(s) /\ dirHandles' = dirHandles \cup {s}
          /\ out' = <<Reply("handle", id)>>
          /\ UNCHANGED <<files, folders, handles>> /\ UNCHANGED streams
      BY <1>2, <2>1 DEF Opendir, volume
    <2>4. /\ KeepsInvalid
          /\ generation' \in 0 .. MaxOpens /\ tokens' \in [Slots -> 0 .. generation']
      <3>1. DOMAIN handles' \cup dirHandles' \subseteq DOMAIN handles \cup dirHandles \cup {s}
        BY <2>3
      <3> QED
        BY <2>2, <2>3, <3>1, NewToken
    <2>5. VolumeInv'
      BY <2>3 DEF VolumeInv
    <2>6. OpenedInv'
      BY <2>2, <2>3, <2>4 DEF OpenedInv, OpenSlots
    <2>7. Begun(id)
      BY <2>3 DEF Begun, SimpleKinds
    <2> QED
      BY <2>3, <2>4, <2>5, <2>6, <2>7, SameFiles DEF Served
  <1> QED
    BY <1>1, <1>2

(* A request that is done begins no work.                                   *)
LEMMA DoneBegins ==
    ASSUME NEW id, Done(id), UNCHANGED streams
    PROVE  Begun(id)
  BY DEF Done, Begun, SimpleKinds

(* Only cursors change.                                                    *)
LEMMA SameSlots ==
    ASSUME OpenedInv, SameHandles(handles, handles'),
           UNCHANGED <<dirHandles, tokens, generation>>
    PROVE  OpenedInv' /\ KeepsInvalid
  <1>1. HandlesTyped(handles') /\ DOMAIN handles' = DOMAIN handles
    BY SameHandlesTyped DEF OpenedInv, SameHandles
  <1>2. OpenedInv'
    BY <1>1 DEF OpenedInv
  <1> QED
    BY <1>1, <1>2, SameTokens

(* CLOSE gives a slot back.                                                 *)
LEMMA CloseServes ==
    ASSUME VolumeInv, OpenedInv, NEW id, NEW t, Close(id, t)
    PROVE  Served(id)
  <1>1. /\ handles' = Without(handles, t[2]) /\ dirHandles' = dirHandles \ {t[2]}
        /\ out' = <<Reply("ok", id)>>
        /\ UNCHANGED <<files, folders, tokens, generation>> /\ UNCHANGED streams
    BY DEF Close, volume
  <1>2. /\ DOMAIN handles' = DOMAIN handles \ {t[2]}
        /\ \A s \in DOMAIN handles' : handles'[s] = handles[s]
    BY <1>1 DEF Without, Restrict
  <1>3. OpenedInv'
    BY <1>1, <1>2 DEF OpenedInv, HandlesTyped
  <1>4. VolumeInv'
    BY <1>1 DEF VolumeInv
  <1>5. Begun(id)
    BY <1>1 DEF Begun, SimpleKinds
  <1>6. KeepsReadOnly /\ KeepsInvalid
    BY <1>1, <1>2, SameFiles, SameTokens
  <1> QED
    BY <1>3, <1>4, <1>5, <1>6 DEF Served

(* READ begins a stream of what the file has from the offset on.            *)
LEMMA ReadServes ==
    ASSUME VolumeInv, OpenedInv, NEW id,
           NEW t, NEW offset \in 0 .. MaxSize, NEW wanted \in 0 .. MaxSize,
           Read(id, t, offset, wanted)
    PROVE  Served(id)
  <1> DEFINE h == handles[t[2]]
             f == files[h.name]
             n == Min({wanted, MaxRead, Len(f.data) - offset})
  <1>1. CASE AtEnd(offset, f) \/ wanted = 0
    BY <1>1, AnswerServes DEF Read, SimpleKinds
  <1>2. CASE ~(AtEnd(offset, f) \/ wanted = 0)
    <2>1. /\ t[2] \in DOMAIN handles /\ h.name \in DOMAIN files
          /\ readStream' = {[slot |-> t[2], offset |-> offset, remaining |-> n]}
          /\ out' = <<Data(id, n)>>
          /\ UNCHANGED <<files, folders, handles, dirHandles, tokens, generation,
                         writeStream, resize, skip>>
      BY <1>2 DEF Read, ValidFile, volume, opened
    <2>2. IsFile(f) /\ MaxSize \in Nat /\ MaxRead \in Nat /\ MaxRead > 0
      BY <2>1, SftpAssumption DEF VolumeInv, FilesTyped
    <2>3. Len(f.data) \in Nat /\ Len(f.data) <= MaxSize
      BY <2>2 DEF IsFile
    <2>4. wanted > 0 /\ offset < Len(f.data)
      BY <1>2, <2>3 DEF AtEnd
    <2>5. PICK left : left = Len(f.data) - offset
      OBVIOUS
    <2>6. left \in Nat /\ left > 0 /\ offset + left <= MaxSize
      BY <2>3, <2>4, <2>5, <2>2
    <2>7. PICK k : k = n /\ k = Min({wanted, MaxRead, left})
      BY <2>5
    <2>8. k \in {wanted, MaxRead, left} /\ k <= wanted /\ k <= MaxRead /\ k <= left
      <3>1. PICK S : S = {wanted, MaxRead, left}
        OBVIOUS
      <3>2. S \in SUBSET Nat /\ S # {} /\ Min(S) = k
        BY <2>2, <2>6, <2>7, <3>1
      <3>3. k \in S /\ \A j \in S : k <= j
        BY ONLY <3>2, MinOfNumbers
      <3> QED
        BY <3>1, <3>3
    <2>9. k \in 1 .. MaxSize /\ k <= MaxRead /\ offset + k <= MaxSize
      BY ONLY <2>2, <2>4, <2>6, <2>8, wanted \in 0 .. MaxSize, offset \in 0 .. MaxSize
    <2>10. t[2] \in Slots
      BY <2>1 DEF OpenedInv, HandlesTyped
    <2>11. PICK s : s = [slot |-> t[2], offset |-> offset, remaining |-> k]
      OBVIOUS
    <2>12. readStream' = {s} /\ out' = <<Data(id, s.remaining)>>
      BY <2>1, <2>7, <2>11
    <2>13. ReadOK(s, DOMAIN handles')
      BY <2>1, <2>9, <2>10, <2>11 DEF ReadOK
    <2>14. Begun(id)
      BY <2>1, <2>12, <2>13 DEF Begun
    <2>15. VolumeInv' /\ OpenedInv'
      BY <2>1 DEF VolumeInv, OpenedInv
    <2> QED
      BY <2>1, <2>14, <2>15, SameFiles, SameTokens DEF Served
  <1> QED
    BY <1>1, <1>2

(* REMOVE of a file that may be written.                                    *)
LEMMA RemoveFileServes ==
    ASSUME VolumeInv, OpenedInv, NEW id, NEW n \in Names, RemoveFile(id, n)
    PROVE  Served(id)
  <1>1. /\ n \in DOMAIN files /\ ~files[n].readonly
        /\ files' = Without(files, n) /\ handles' = Orphaned(handles, files[n].born)
        /\ Done(id)
        /\ UNCHANGED <<folders, dirHandles, tokens, generation>> /\ UNCHANGED streams
    BY DEF RemoveFile
  <1>2. /\ DOMAIN files' = DOMAIN files \ {n}
        /\ \A m \in DOMAIN files' : files'[m] = files[m]
    BY <1>1 DEF Without, Restrict
  <1>3. VolumeInv'
    BY <1>1, <1>2 DEF VolumeInv, FilesTyped
  <1>4. SameHandles(handles, handles')
    BY <1>1, OrphanedIs DEF OpenedInv, MappedBy
  <1>5. OpenedInv' /\ KeepsInvalid
    BY <1>1, <1>4, SameSlots
  <1>6. KeepsReadOnly
    BY <1>1, <1>2 DEF KeepsReadOnly
  <1> QED
    BY <1>1, <1>3, <1>5, <1>6, DoneBegins DEF Served

(* RENAME keeps what the file says, at another path.                        *)
LEMMA RenameServes ==
    ASSUME VolumeInv, OpenedInv, NEW id, NEW from \in Names, NEW to \in Names,
           Rename(id, from, to)
    PROVE  Served(id)
  <1>1. /\ to \notin (DOMAIN files \cup folders) \ {from}
        /\ Done(id)
        /\ UNCHANGED <<dirHandles, tokens, generation>> /\ UNCHANGED streams
    BY DEF Rename
  <1>2. ASSUME NEW born \in Births, from \in DOMAIN files, UNCHANGED folders,
               files' = Put(Without(files, from), to, [files[from] EXCEPT !.born = born])
        PROVE  VolumeInv' /\ KeepsReadOnly
    <2> DEFINE g == [files[from] EXCEPT !.born = born]  rest == Without(files, from)
    <2>1. IsFile(files[from])
      BY <1>2 DEF VolumeInv, FilesTyped
    <2>2. IsFile(g) /\ g.data = files[from].data
      BY <2>1 DEF IsFile
    <2>3. /\ DOMAIN rest = DOMAIN files \ {from}
          /\ \A m \in DOMAIN rest : rest[m] = files[m]
      BY DEF Without, Restrict
    <2> HIDE DEF g, rest
    <2>4. /\ DOMAIN files' = DOMAIN rest \cup {to} /\ files'[to] = g
          /\ \A m \in DOMAIN rest : m # to => files'[m] = rest[m]
      BY <1>2 DEF Put, g, rest
    <2>5. FilesTyped(files')
      BY <2>2, <2>3, <2>4 DEF VolumeInv, FilesTyped
    <2>6. VolumeInv'
      BY <2>3, <2>4, <2>5, <1>1, <1>2 DEF VolumeInv
    <2>7. ASSUME NEW n \in DOMAIN files, files[n].readonly
          PROVE  \E m \in DOMAIN files' :
                    files'[m].data = files[n].data /\ (m = n \/ n \notin DOMAIN files')
      <3>1. CASE n = from
        <4>1. to = from \/ from \notin DOMAIN files'
          BY <2>3, <2>4
        <4> QED
          BY <3>1, <4>1, <2>2, <2>4
      <3>2. CASE n # from
        <4>1. n \in DOMAIN rest /\ n # to
          BY <3>2, <2>3, <1>1
        <4> QED
          BY <4>1, <2>3, <2>4
      <3> QED
        BY <3>1, <3>2
    <2> QED
      BY <2>6, <2>7 DEF KeepsReadOnly
  <1>3. CASE /\ from \in DOMAIN files /\ UNCHANGED folders
             /\ files' = Put(Without(files, from), to,
                             [files[from] EXCEPT !.born = files[from].born])
             /\ handles' = Moved(handles, files[from].born)
    <2>1. files[from].born \in Births
      BY <1>3 DEF VolumeInv, FilesTyped, IsFile
    <2>2. VolumeInv' /\ KeepsReadOnly
      BY <2>1, <1>2, <1>3
    <2>3. SameHandles(handles, handles')
      BY <1>3, MovedIs DEF OpenedInv, MappedBy
    <2> QED
      BY <2>2, <2>3, <1>1, SameSlots, DoneBegins DEF Served
  <1>4. CASE /\ from \in DOMAIN files /\ UNCHANGED folders
             /\ files' = Put(Without(files, from), to,
                             [files[from] EXCEPT !.born = NewFile.born])
             /\ handles' = Orphaned(handles, files[from].born)
    <2>1. NewFile.born \in Births
      BY NewFileTyped DEF VolumeInv, OpenedInv, IsFile
    <2>2. VolumeInv' /\ KeepsReadOnly
      BY <2>1, <1>2, <1>4
    <2>3. SameHandles(handles, handles')
      BY <1>4, OrphanedIs DEF OpenedInv, MappedBy
    <2> QED
      BY <2>2, <2>3, <1>1, SameSlots, DoneBegins DEF Served
  <1>5. CASE /\ from \in folders /\ folders' = (folders \ {from}) \cup {to}
             /\ UNCHANGED <<files, handles>>
    <2>1. VolumeInv'
      BY <1>1, <1>5 DEF VolumeInv
    <2>2. OpenedInv'
      BY <1>1, <1>5 DEF OpenedInv
    <2>3. KeepsInvalid
      BY <1>1, <1>5, SameTokens
    <2> QED
      BY <2>1, <2>2, <2>3, <1>1, <1>5, SameFiles, DoneBegins DEF Served
  <1> QED
    BY <1>3, <1>4, <1>5 DEF Rename

(* MKDIR changes the folders only.                                          *)
LEMMA MkdirServes ==
    ASSUME VolumeInv, OpenedInv, NEW id, NEW n \in Names, Mkdir(id, n)
    PROVE  Served(id)
  <1>1. /\ n \notin DOMAIN files \cup folders /\ folders' = folders \cup {n} /\ Done(id)
        /\ UNCHANGED <<files, handles, dirHandles, tokens, generation>> /\ UNCHANGED streams
    BY DEF Mkdir, opened
  <1>2. VolumeInv' /\ OpenedInv'
    BY <1>1 DEF VolumeInv, OpenedInv
  <1> QED
    BY <1>1, <1>2, SameFiles, SameTokens, DoneBegins DEF Served

(* RMDIR changes the folders only.                                          *)
LEMMA RmdirServes ==
    ASSUME VolumeInv, OpenedInv, NEW id, NEW n \in Names, Rmdir(id, n)
    PROVE  Served(id)
  <1>1. /\ folders' = folders \ {n} /\ Done(id)
        /\ UNCHANGED <<files, handles, dirHandles, tokens, generation>> /\ UNCHANGED streams
    BY DEF Rmdir, opened
  <1>2. VolumeInv' /\ OpenedInv'
    BY <1>1 DEF VolumeInv, OpenedInv
  <1> QED
    BY <1>1, <1>2, SameFiles, SameTokens, DoneBegins DEF Served

(* One file is put; if the old one was read-only, with the same contents.  *)
LEMMA PutServes ==
    ASSUME VolumeInv, NEW n \in Names, n \notin folders, NEW g, IsFile(g),
           n \in DOMAIN files /\ files[n].readonly => g.data = files[n].data,
           files' = Put(files, n, g), UNCHANGED folders
    PROVE  VolumeInv' /\ KeepsReadOnly
  <1>1. /\ DOMAIN files' = DOMAIN files \cup {n} /\ files'[n] = g
        /\ \A m \in DOMAIN files : m # n => files'[m] = files[m]
    BY DEF Put
  <1>2. FilesTyped(files')
    BY PutFile DEF VolumeInv
  <1> QED
    BY <1>1, <1>2 DEF VolumeInv, KeepsReadOnly

(* Permissions change nothing else of a file.                               *)
LEMMA PermittedIs ==
    ASSUME NEW f, IsFile(f), NEW perm
    PROVE  IsFile(Permitted(f, perm)) /\ Permitted(f, perm).data = f.data
           /\ Permitted(f, perm).born = f.born
  BY DEF Permitted, IsFile

(* A file that is cut, and the handles after it.                           *)
LEMMA CutIs ==
    ASSUME NEW f, IsFile(f), NEW data \in Contents, Len(data) <= Len(f.data)
    PROVE  LET cut == [f EXCEPT !.data = data]
           IN  IsFile(cut) /\ cut.data = data /\ cut.born = f.born
  <1>1. f \in [born : Births, readonly : BOOLEAN, data : Contents]
        /\ Len(f.data) <= MaxSize
    BY DEF IsFile, Contents
  <1>2. Len(f.data) \in Nat /\ Len(data) \in Nat /\ MaxSize \in Nat
    BY <1>1, SftpAssumption DEF Contents
  <1>3. Len(data) <= MaxSize
    BY <1>1, <1>2
  <1>4. [f EXCEPT !.data = data] \in [born : Births, readonly : BOOLEAN, data : Contents]
        /\ [f EXCEPT !.data = data].data = data /\ [f EXCEPT !.data = data].born = f.born
    BY <1>1
  <1> QED
    BY <1>3, <1>4 DEF IsFile, Contents

(* Handles that differ in their cursors only, twice over.                   *)
LEMMA SameHandlesTransitive ==
    ASSUME NEW hs, NEW gs, NEW ks, SameHandles(hs, gs), SameHandles(gs, ks)
    PROVE  SameHandles(hs, ks)
  BY DEF SameHandles

(* Handles are the same as themselves.                                      *)
LEMMA SameHandlesReflexive ==
    ASSUME NEW hs, HandlesTyped(hs)
    PROVE  SameHandles(hs, hs)
  BY DEF SameHandles, HandlesTyped

(* OPEN, once the file is there: a handle, or none is free.                 *)
LEMMA OpenDoneServes ==
    ASSUME VolumeInv, OpenedInv, NEW id, NEW n \in Names, n \notin folders,
           NEW flags, NEW f, IsFile(f),
           n \in DOMAIN files /\ files[n].readonly => f.data = files[n].data,
           NEW hs, SameHandles(handles, hs),
           OpenDone(id, n, flags, f, hs),
           UNCHANGED <<folders, dirHandles>>, UNCHANGED streams
    PROVE  Served(id)
  <1>1. files' = Put(files, n, f)
    BY DEF OpenDone
  <1>2. VolumeInv' /\ KeepsReadOnly
    BY <1>1, PutServes
  <1>3. CASE FreeSlots = {}
    <2>1. handles' = hs /\ out' = <<Reply("fail", id)>> /\ UNCHANGED <<tokens, generation>>
      BY <1>3 DEF OpenDone
    <2>2. OpenedInv' /\ KeepsInvalid
      BY <2>1, SameSlots
    <2>3. Begun(id)
      BY <2>1 DEF Begun, SimpleKinds
    <2> QED
      BY <1>2, <2>2, <2>3 DEF Served
  <1>4. CASE FreeSlots # {}
    <2>1. PICK s : s = Min(FreeSlots)
      OBVIOUS
    <2>2. s \in Slots /\ s \notin OpenSlots
      BY <2>1, <1>4, FreeSlot
    <2> DEFINE h == [name |-> n,
                     readable |-> "read" \in flags \/ "write" \notin flags,
                     writable |-> "write" \in flags,
                     appends |-> "append" \in flags, append |-> {}, read |-> {}]
    <2>3. Allocate(s) /\ handles' = Put(hs, s, h) /\ out' = <<Reply("handle", id)>>
      BY <1>4, <2>1 DEF OpenDone
    <2>4. h \in HandleType
      BY NoCursor DEF HandleType
    <2>5. HandlesTyped(hs) /\ DOMAIN hs = DOMAIN handles
      BY SameHandlesTyped DEF OpenedInv, SameHandles
    <2> HIDE DEF h
    <2>6. HandlesTyped(handles') /\ DOMAIN handles' = DOMAIN handles \cup {s}
      <3>1. DOMAIN Put(hs, s, h) = DOMAIN hs \cup {s}
        BY DEF Put
      <3> QED
        BY <2>2, <2>3, <2>4, <2>5, <3>1, PutHandle
    <2>7. /\ KeepsInvalid
          /\ generation' \in 0 .. MaxOpens /\ tokens' \in [Slots -> 0 .. generation']
      <3>1. DOMAIN handles' \cup dirHandles' \subseteq DOMAIN handles \cup dirHandles \cup {s}
        BY <2>6
      <3> QED
        BY <2>2, <2>3, <3>1, NewToken
    <2>8. OpenedInv'
      BY <2>2, <2>6, <2>7 DEF OpenedInv, OpenSlots
    <2>9. Begun(id)
      BY <2>3 DEF Begun, SimpleKinds
    <2> QED
      BY <1>2, <2>7, <2>8, <2>9 DEF Served
  <1> QED
    BY <1>3, <1>4

(* OPEN creates or cuts the file before it looks for a handle.              *)
LEMMA OpenServes ==
    ASSUME VolumeInv, OpenedInv, NEW id, NEW n \in Names,
           NEW flags, NEW perm \in Perms, Open(id, n, flags, perm)
    PROVE  Served(id)
  <1> DEFINE new  == n \notin DOMAIN files
             cut  == ~new /\ {"write", "trunc"} \subseteq flags
             file == IF new THEN NewFile
                     ELSE IF cut THEN [files[n] EXCEPT !.data = <<>>] ELSE files[n]
             hs   == IF cut THEN Shrunk(handles, file.born) ELSE handles
             g    == IF new THEN Permitted(file, perm) ELSE file
             gs   == IF cut THEN InvalidatedFile(hs, n) ELSE hs
  <1>1. ~OpenRefused(n, flags, perm)
    BY DEF Open
  <1>2. /\ n \notin folders
        /\ cut => ~files[n].readonly
    BY <1>1 DEF OpenRefused
  <1>3. IsFile(file) /\ (n \in DOMAIN files /\ files[n].readonly => file.data = files[n].data)
    <2>1. CASE new
      BY <2>1, NewFileTyped DEF VolumeInv, OpenedInv
    <2>2. CASE ~new /\ cut
      <3>1. IsFile(files[n])
        BY <2>2 DEF VolumeInv, FilesTyped
      <3>2. PICK empty : empty = <<>> /\ empty \in Contents /\ Len(empty) = 0
        BY EmptySeq DEF Contents
      <3>3. Len(files[n].data) >= 0
        BY <3>1 DEF IsFile
      <3>4. IsFile([files[n] EXCEPT !.data = empty])
        BY ONLY <3>1, <3>2, <3>3, CutIs
      <3> QED
        BY <2>2, <3>2, <3>4, <1>2
    <2>3. CASE ~new /\ ~cut
      BY <2>3 DEF VolumeInv, FilesTyped
    <2> QED
      BY <2>1, <2>2, <2>3
  <1>4. IsFile(g) /\ (n \in DOMAIN files /\ files[n].readonly => g.data = files[n].data)
    <2>1. CASE new
      BY <2>1, <1>3, PermittedIs
    <2>2. CASE ~new
      BY <2>2, <1>3
    <2> QED
      BY <2>1, <2>2
  <1>5. SameHandles(handles, hs)
    <2>1. CASE cut
      BY <2>1, ShrunkIs DEF OpenedInv, MappedBy
    <2>2. CASE ~cut
      BY <2>2, SameHandlesReflexive DEF OpenedInv
    <2> QED
      BY <2>1, <2>2
  <1>6. SameHandles(handles, gs)
    <2>1. CASE cut
      <3>1. HandlesTyped(hs)
        BY <1>5, SameHandlesTyped DEF OpenedInv
      <3>2. SameHandles(hs, InvalidatedFile(hs, n))
        BY <3>1, InvalidatedFileIs
      <3> QED
        BY <2>1, <1>5, <3>2, SameHandlesTransitive
    <2>2. CASE ~cut
      BY <2>2, <1>5
    <2> QED
      BY <2>1, <2>2
  <1>7. UNCHANGED <<folders, dirHandles>> /\ UNCHANGED streams
    BY DEF Open
  <1>8. \/ OpenDone(id, n, flags, g, gs)
        \/ /\ files' = Put(files, n, file) /\ handles' = hs
           /\ out' = <<Reply("fail", id)>> /\ UNCHANGED <<tokens, generation>>
    BY DEF Open
  <1> HIDE DEF new, cut, file, hs, g, gs
  <1>9. CASE OpenDone(id, n, flags, g, gs)
    BY <1>2, <1>4, <1>6, <1>7, <1>9, OpenDoneServes
  <1>10. CASE /\ files' = Put(files, n, file) /\ handles' = hs
              /\ out' = <<Reply("fail", id)>> /\ UNCHANGED <<tokens, generation>>
    <2>1. VolumeInv' /\ KeepsReadOnly
      BY <1>2, <1>3, <1>7, <1>10, PutServes
    <2>2. OpenedInv' /\ KeepsInvalid
      BY <1>5, <1>7, <1>10, SameSlots
    <2>3. Begun(id)
      BY <1>7, <1>10 DEF Begun, SimpleKinds
    <2> QED
      BY <2>1, <2>2, <2>3 DEF Served
  <1> QED
    BY <1>8, <1>9, <1>10

(* What the zeros of a growing SETSTAT are counted against.                *)
LEMMA StartResizeBegins ==
    ASSUME VolumeInv, OpenedInv, NEW id \in Ids, NEW n \in DOMAIN files,
           NEW k \in 0 .. MaxSize, Len(files[n].data) <= k, NEW perm \in Perms,
           StartResize(id, n, k, perm)
    PROVE  Served(id)
  <1> DEFINE h == [name |-> n, readable |-> FALSE, writable |-> TRUE,
                   appends |-> FALSE, append |-> {}, read |-> {}]
             j == [id |-> id, size |-> k, perm |-> perm, file |-> h]
  <1>1. /\ resize' = {j}
        /\ UNCHANGED <<files, folders, handles, dirHandles, tokens, generation,
                       readStream, writeStream, skip, out>>
    BY DEF StartResize, volume, opened
  <1>2. n \in Names
    BY DEF VolumeInv, FilesTyped
  <1>3. h \in HandleType
    BY <1>2, NoCursor DEF HandleType
  <1>4. JobOK(j, files)
    <2> HIDE DEF h
    <2>1. j \in JobType /\ j.file = h /\ j.size = k
      BY <1>3 DEF JobType
    <2>2. h.name = n
      BY DEF h
    <2> QED
      BY <2>1, <2>2 DEF JobOK
  <1>5. VolumeInv' /\ OpenedInv'
    BY <1>1 DEF VolumeInv, OpenedInv
  <1> HIDE DEF j
  <1>6. j.id = id
    BY DEF j
  <1>7. Begun(id)
    BY <1>1, <1>4, <1>6 DEF Begun
  <1> QED
    BY <1>1, <1>5, <1>7, SameFiles, SameTokens DEF Served

(* SETSTAT cuts the file, changes its permissions, or begins to grow it.    *)
LEMMA ApplySetstatServes ==
    ASSUME VolumeInv, OpenedInv, NEW id \in Ids, NEW n, NEW size \in Sizes,
           NEW perm \in Perms, ApplySetstat(id, n, size, perm)
    PROVE  Served(id)
  <1> DEFINE f    == files[n]
             data == IF size = {} THEN f.data
                     ELSE SubSeq(f.data, 1, Min(size \cup {Len(f.data)}))
             cut  == [f EXCEPT !.data = data]
             hs   == IF data = f.data THEN handles ELSE Shrunk(handles, f.born)
  <1>1. /\ perm # "invalid" /\ n \in DOMAIN files
        /\ \A k \in size : k # Len(f.data) => ~f.readonly
    BY DEF ApplySetstat, SetstatRefused
  <1>2. IsFile(f) /\ n \in Names /\ n \notin folders
    BY <1>1 DEF VolumeInv, FilesTyped
  <1>3. f.data \in Contents /\ Len(f.data) \in Nat /\ MaxSize \in Nat /\ size \in SUBSET (0 .. MaxSize)
    BY <1>2, SftpAssumption DEF IsFile, Contents, Sizes
  <1>4. CASE \E k \in size : k > Len(f.data)
    <2>1. PICK k \in size : StartResize(id, n, k, perm)
      BY <1>4 DEF ApplySetstat
    <2>2. k > Len(f.data) /\ k \in 0 .. MaxSize
      BY <1>4, <2>1, SftpAssumption DEF Sizes
    <2> QED
      BY <2>1, <2>2, <1>1, <1>3, StartResizeBegins
  <1>5. CASE ~\E k \in size : k > Len(f.data)
    <2>1. \/ /\ files' = Put(files, n, Permitted(cut, perm))
             /\ handles' = InvalidatedFile(hs, n)
             /\ out' = <<Reply("ok", id)>>
          \/ /\ files' = Put(files, n, cut) /\ handles' = hs
             /\ out' = <<Reply("fail", id)>>
      BY <1>5 DEF ApplySetstat
    <2>2. UNCHANGED <<folders, dirHandles, tokens, generation>> /\ UNCHANGED streams
      BY <1>5 DEF ApplySetstat
    <2>3. data \in Contents /\ Len(data) <= Len(f.data) /\ (f.readonly => data = f.data)
      <3>1. CASE size = {}
        BY <3>1, <1>3
      <3>2. CASE size # {}
        <4>1. PICK k \in 0 .. MaxSize : size = {k}
          BY <3>2, SftpAssumption DEF Sizes
        <4>2. k <= Len(f.data) /\ (f.readonly => k = Len(f.data))
          BY <4>1, <1>1, <1>3, <1>5
        <4>3. size \cup {Len(f.data)} = {k, Len(f.data)}
          BY <4>1
        <4>4. Min({k, Len(f.data)}) = k
          BY <4>2, <1>3, MinOfTwo
        <4>5. data = SubSeq(f.data, 1, k)
          BY <3>2, <4>3, <4>4
        <4>6. SubSeq(f.data, 1, k) \in Contents /\ Len(SubSeq(f.data, 1, k)) = k
          BY <4>2, <1>3, SubSeqProperties, ElementOfSeq DEF Contents
        <4>7. SubSeq(f.data, 1, Len(f.data)) = f.data
          BY <1>3, SubSeqFull DEF Contents
        <4> HIDE DEF data, f
        <4> QED
          BY <4>2, <4>5, <4>6, <4>7
      <3> QED
        BY <3>1, <3>2
    <2>4. PICK d : d = data
      OBVIOUS
    <2>5. PICK g : g = [f EXCEPT !.data = d] /\ g = cut
      BY <2>4
    <2>6. IsFile(g) /\ g.data = d
      <3>1. d \in Contents /\ Len(d) <= Len(f.data)
        BY <2>3, <2>4
      <3>2. IsFile([f EXCEPT !.data = d]) /\ [f EXCEPT !.data = d].data = d
        BY ONLY <3>1, <1>2, CutIs
      <3> QED
        BY ONLY <3>2, <2>5
    <2>7. SameHandles(handles, hs)
      <3>1. CASE data = f.data
        BY <3>1, SameHandlesReflexive DEF OpenedInv
      <3>2. CASE data # f.data
        BY <3>2, ShrunkIs DEF OpenedInv, MappedBy
      <3> QED
        BY <3>1, <3>2
    <2>8. SameHandles(handles, InvalidatedFile(hs, n))
      <3>1. HandlesTyped(hs)
        BY <2>7, SameHandlesTyped DEF OpenedInv
      <3>2. SameHandles(hs, InvalidatedFile(hs, n))
        BY <3>1, InvalidatedFileIs
      <3> QED
        BY <2>7, <3>2, SameHandlesTransitive
    <2>9. f.readonly => g.data = f.data /\ Permitted(g, perm).data = f.data
      BY <2>3, <2>4, <2>6, PermittedIs
    <2> HIDE DEF hs, data, cut
    <2>10. CASE /\ files' = Put(files, n, Permitted(cut, perm))
                /\ handles' = InvalidatedFile(hs, n)
                /\ out' = <<Reply("ok", id)>>
      <3>1. files' = Put(files, n, Permitted(g, perm)) /\ IsFile(Permitted(g, perm))
        BY <2>5, <2>6, <2>10, PermittedIs
      <3>2. VolumeInv' /\ KeepsReadOnly
        BY <1>2, <2>2, <2>9, <3>1, PutServes
      <3>3. OpenedInv' /\ KeepsInvalid
        BY <2>2, <2>8, <2>10, SameSlots
      <3>4. Begun(id)
        BY <2>2, <2>10 DEF Begun, SimpleKinds
      <3> QED
        BY <3>2, <3>3, <3>4 DEF Served
    <2>11. CASE /\ files' = Put(files, n, cut) /\ handles' = hs
                /\ out' = <<Reply("fail", id)>>
      <3>1. VolumeInv' /\ KeepsReadOnly
        BY <1>2, <2>2, <2>5, <2>6, <2>9, <2>11, PutServes
      <3>2. OpenedInv' /\ KeepsInvalid
        BY <2>2, <2>7, <2>11, SameSlots
      <3>3. Begun(id)
        BY <2>2, <2>11 DEF Begun, SimpleKinds
      <3> QED
        BY <3>1, <3>2, <3>3 DEF Served
    <2> QED
      BY <2>1, <2>10, <2>11
  <1> QED
    BY <1>4, <1>5

(* FSETSTAT finds the path by its handle.                                   *)
LEMMA FsetstatServes ==
    ASSUME VolumeInv, OpenedInv, NEW id \in Ids, NEW t, NEW size \in Sizes,
           NEW perm \in Perms, Fsetstat(id, t, size, perm)
    PROVE  Served(id)
  <1>1. CASE ApplySetstat(id, handles[t[2]].name, size, perm)
    BY <1>1, ApplySetstatServes
  <1>2. CASE Answer("ok", id)
    BY <1>2, AnswerServes DEF SimpleKinds
  <1> QED
    BY <1>1, <1>2 DEF Fsetstat

(* Every request keeps the invariant of the volume and of the handles, and *)
(* is answered, or begins an answer.                                       *)
LEMMA RequestServes ==
    ASSUME VolumeInv, OpenedInv, NEW id \in Ids, Dispatch(id)
    PROVE  Served(id)
  <1>1. PICK kind \in Kinds :
        \/ kind = "query" /\ Query(id)
        \/ kind = "opendir" /\ \E n \in Names \cup {Root} : Opendir(id, n)
        \/ \E n \in Names :
            \/ kind = "remove" /\ RemoveFile(id, n)
            \/ kind = "mkdir" /\ Mkdir(id, n)
            \/ kind = "rmdir" /\ Rmdir(id, n)
            \/ kind = "rename" /\ \E to \in Names : Rename(id, n, to)
            \/ kind = "setstat" /\ SetstatFolder(id, n)
            \/ \E perm \in Perms :
                \/ kind = "open" /\ \E flags \in OpenFlags : Open(id, n, flags, perm)
                \/ kind = "setstat" /\ \E size \in Sizes : ApplySetstat(id, n, size, perm)
        \/ \E t \in Presented :
            \/ kind = "fsync" /\ Fsync(id, t)
            \/ kind = "readdir" /\ Readdir(id, t)
            \/ kind = "close" /\ Close(id, t)
            \/ /\ kind = "read"
               /\ \E offset, wanted \in 0 .. MaxSize : Read(id, t, offset, wanted)
            \/ /\ kind = "fsetstat"
               /\ \E size \in Sizes, perm \in Perms : Fsetstat(id, t, size, perm)
    BY DEF Dispatch
  <1>2. CASE kind = "query" /\ Query(id)
    BY <1>2, QueryServes
  <1>3. CASE kind = "opendir" /\ \E n \in Names \cup {Root} : Opendir(id, n)
    BY <1>3, OpendirServes
  <1>4. ASSUME NEW n \in Names,
            \/ kind = "remove" /\ RemoveFile(id, n)
            \/ kind = "mkdir" /\ Mkdir(id, n)
            \/ kind = "rmdir" /\ Rmdir(id, n)
            \/ kind = "rename" /\ \E to \in Names : Rename(id, n, to)
            \/ kind = "setstat" /\ SetstatFolder(id, n)
            \/ \E perm \in Perms :
                \/ kind = "open" /\ \E flags \in OpenFlags : Open(id, n, flags, perm)
                \/ kind = "setstat" /\ \E size \in Sizes : ApplySetstat(id, n, size, perm)
        PROVE  Served(id)
    <2>1. CASE kind = "remove" /\ RemoveFile(id, n)
      BY <2>1, RemoveFileServes
    <2>2. CASE kind = "mkdir" /\ Mkdir(id, n)
      BY <2>2, MkdirServes
    <2>3. CASE kind = "rmdir" /\ Rmdir(id, n)
      BY <2>3, RmdirServes
    <2>4. CASE kind = "rename" /\ \E to \in Names : Rename(id, n, to)
      BY <2>4, RenameServes
    <2>5. CASE kind = "setstat" /\ SetstatFolder(id, n)
      BY <2>5, SetstatFolderServes
    <2>6. ASSUME NEW perm \in Perms, NEW flags \in OpenFlags, Open(id, n, flags, perm)
          PROVE  Served(id)
      BY <2>6, OpenServes
    <2>7. ASSUME NEW perm \in Perms, NEW size \in Sizes, ApplySetstat(id, n, size, perm)
          PROVE  Served(id)
      BY <2>7, ApplySetstatServes
    <2> QED
      BY <1>4, <2>1, <2>2, <2>3, <2>4, <2>5, <2>6, <2>7
  <1>5. ASSUME NEW t \in Presented,
            \/ kind = "fsync" /\ Fsync(id, t)
            \/ kind = "readdir" /\ Readdir(id, t)
            \/ kind = "close" /\ Close(id, t)
            \/ /\ kind = "read"
               /\ \E offset, wanted \in 0 .. MaxSize : Read(id, t, offset, wanted)
            \/ /\ kind = "fsetstat"
               /\ \E size \in Sizes, perm \in Perms : Fsetstat(id, t, size, perm)
        PROVE  Served(id)
    <2>1. CASE kind = "fsync" /\ Fsync(id, t)
      BY <2>1, FsyncServes
    <2>2. CASE kind = "readdir" /\ Readdir(id, t)
      BY <2>2, ReaddirServes
    <2>3. CASE kind = "close" /\ Close(id, t)
      BY <2>3, CloseServes
    <2>4. ASSUME NEW offset \in 0 .. MaxSize, NEW wanted \in 0 .. MaxSize,
                 Read(id, t, offset, wanted)
          PROVE  Served(id)
      BY <2>4, ReadServes
    <2>5. ASSUME NEW size \in Sizes, NEW perm \in Perms, Fsetstat(id, t, size, perm)
          PROVE  Served(id)
      BY <2>5, FsetstatServes
    <2> QED
      BY <1>5, <2>1, <2>2, <2>3, <2>4, <2>5
  <1> QED
    BY <1>1, <1>2, <1>3, <1>4, <1>5

-----------------------------------------------------------------------------
(* The steps of the server.                                                *)

(* What the server may be at when it takes a step.                         *)
LEMMA AtWork ==
    ASSUME IInv, ~fatal, out = <<>>
    PROVE  AtRest \/ (\E s : AtRead(s)) \/ (\E w : AtWrite(w)) \/ (\E j : AtResize(j))
  <1>1. \A r : out # <<r>>
    <2> SUFFICES ASSUME NEW r PROVE out # <<r>>
      OBVIOUS
    <2>1. Len(<<r>>) = 1 /\ Len(<<>>) = 0
      OBVIOUS
    <2> QED
      BY <2>1
  <1>2. /\ \A r : ~Replying(r) /\ ~Delivering(r)
        /\ \A r, s : ~Announcing(r, s)
    BY <1>1 DEF Replying, Announcing, Delivering
  <1> QED
    BY <1>2 DEF IInv, WorkInv

(* A chunk of a positive count is positive.                                *)
LEMMA ChunkIs ==
    ASSUME NEW k \in Nat, NEW chunk \in Nat \ {0}
    PROVE  /\ Min({k, chunk}) \in Nat /\ Min({k, chunk}) <= k
           /\ k > 0 => Min({k, chunk}) > 0
  BY MinOfTwo

(* A simple reply to the oldest request.                                   *)
LEMMA ReplyIs ==
    ASSUME NEW kind \in SimpleKinds, NEW id \in Ids
    PROVE  /\ Reply(kind, id) \in ReplyType /\ Reply(kind, id).n = 0
           /\ Reply(kind, id).kind \notin {"data", "chunk"} /\ Reply(kind, id).id = id
  BY DEF Reply, ReplyType, SimpleKinds

(* What a step of the server keeps.                                        *)
Stepped ==
    VolumeInv' /\ OpenedInv' /\ WireTyped' /\ WorkInv' /\ KeepsReadOnly /\ KeepsInvalid

(* A growing SETSTAT writes a chunk of zeros, or ends.                      *)
LEMMA ResizeSteps ==
    ASSUME IInv, ~fatal, NEW j, AtResize(j), ContinueResize(j), UNCHANGED client
    PROVE  Stepped
  <1> DEFINE n    == j.file.name
             f    == files[n]
             todo == j.size - Len(f.data)
  <1>1. /\ budget' = FALSE
        /\ UNCHANGED <<folders, dirHandles, tokens, generation, readStream, writeStream,
                       skip, input, fatal, asked, expects, owes>>
    BY DEF ContinueResize, client
  <1>2. /\ readStream = {} /\ writeStream = {} /\ resize = {j} /\ skip = 0
        /\ j \in JobType /\ n \in DOMAIN files /\ Len(f.data) <= j.size
        /\ out = <<>> /\ expects = 0 /\ InStep(0, 1) /\ asked[1] = j.id
    BY DEF AtResize, JobOK
  <1>3. /\ j.file \in HandleType /\ j.size \in 0 .. MaxSize /\ j.id \in Ids
        /\ j = [id |-> j.id, size |-> j.size, perm |-> j.perm, file |-> j.file]
        /\ j.perm \in Perms
    BY <1>2 DEF JobType
  <1>4. /\ n \in Names /\ IsFile(f) /\ n \notin folders
        /\ f.data \in Contents /\ Len(f.data) \in Nat /\ MaxSize \in Nat
        /\ WriteChunk \in Nat \ {0}
    BY <1>2, SftpAssumption DEF IInv, VolumeInv, FilesTyped, IsFile, Contents
  <1>5. WireTyped'
    BY <1>1 DEF IInv, WireTyped
  <1>6. InStep(0, 1)'
    BY <1>1, <1>2 DEF InStep
  <1>7. SameHandles(handles, InvalidatedFile(handles, n)) /\ SameHandles(handles, handles)
    BY InvalidatedFileIs, SameHandlesReflexive DEF IInv, OpenedInv
  <1>8. ASSUME SameHandles(handles, handles') PROVE OpenedInv' /\ KeepsInvalid
    BY <1>1, <1>8, SameSlots DEF IInv
  <1>9. ASSUME NEW kind \in SimpleKinds, out' = <<Reply(kind, j.id)>>, resize' = {}
        PROVE  WorkInv'
    <2>1. Replying(Reply(kind, j.id))'
      <3>1. NoWork' /\ expects' = 0 /\ skip' = 0 /\ asked' = asked
        BY <1>1, <1>2, <1>9 DEF NoWork
      <3>2. /\ Reply(kind, j.id) \in ReplyType /\ Reply(kind, j.id).n = 0
            /\ Reply(kind, j.id).kind \notin {"data", "chunk"}
            /\ Reply(kind, j.id).id = j.id
        BY <1>3, ReplyIs
      <3> QED
        BY <3>1, <3>2, <1>2, <1>6, <1>9 DEF Replying
    <2> QED
      BY <2>1, <1>1 DEF WorkInv
  <1>10. CASE todo > 0
    <2> DEFINE k == Min({todo, WriteChunk})
    <2>1. PICK r \in WriteOutcomes(j.file, Len(f.data), Zeros(k)) :
            /\ files' = Put(files, n, r.file)
            /\ handles' = IF r.ok THEN InvalidatedFile(handles, n) ELSE handles
            /\ resize' = IF r.ok THEN {[j EXCEPT !.file = r.handle]} ELSE {}
            /\ out' = IF r.ok THEN <<>> ELSE <<Reply("fail", j.id)>>
      BY <1>10 DEF ContinueResize
    <2>2. todo \in Nat
      BY <1>2, <1>3, <1>4
    <2>3. k \in Nat /\ k <= todo
      BY <2>2, <1>4, ChunkIs
    <2> HIDE DEF k, todo
    <2>4. Zeros(k) \in Contents /\ Len(Zeros(k)) = k
      BY <2>3, ZerosAre
    <2>5. Written(j.file, f, Len(f.data), Zeros(k), r)
      BY <2>1, <2>4, <1>2, <1>3, <1>4, OutcomesOfWrite DEF IInv, VolumeInv
    <2>6. VolumeInv' /\ KeepsReadOnly
      BY <2>1, <2>5, <1>1, <1>4, PutServes DEF IInv, Written
    <2>7. OpenedInv' /\ KeepsInvalid
      BY <2>1, <1>7, <1>8
    <2>8. CASE r.ok
      <3>1. r.file.data = Overlay(f.data, Len(f.data), Zeros(k)) /\ r.handle \in HandleType
            /\ r.handle.name = n
        BY <2>5, <2>8 DEF Written
      <3>2. Len(r.file.data) = Len(f.data) + k
        BY <3>1, <2>3, <2>4, <1>4, OverlayIs
      <3>3. Len(r.file.data) <= j.size
        BY <3>2, <2>2, <2>3, <1>2, <1>3, <1>4 DEF todo
      <3>4. PICK i : i = [j EXCEPT !.file = r.handle]
        OBVIOUS
      <3>5. i \in JobType /\ i.file = r.handle /\ i.size = j.size /\ i.id = j.id
        BY <3>1, <3>4, <1>2 DEF JobType
      <3>6. n \in DOMAIN files' /\ files'[n] = r.file
        BY <2>1 DEF Put
      <3>7. JobOK(i, files')
        BY <3>1, <3>3, <3>5, <3>6 DEF JobOK
      <3>8. resize' = {i} /\ out' = <<>>
        BY <2>1, <2>8, <3>4
      <3>9. AtResize(i)'
        BY <3>5, <3>7, <3>8, <1>1, <1>2, <1>6 DEF AtResize
      <3>10. WorkInv'
        BY <3>9, <1>1 DEF WorkInv
      <3> QED
        BY <3>10, <2>6, <2>7, <1>5 DEF Stepped
    <2>9. CASE ~r.ok
      <3>1. WorkInv'
        BY <2>1, <2>9, <1>9 DEF SimpleKinds
      <3> QED
        BY <3>1, <2>6, <2>7, <1>5 DEF Stepped
    <2> QED
      BY <2>8, <2>9
  <1>11. CASE ~(todo > 0)
    <2>1. resize' = {}
      BY <1>11 DEF ContinueResize
    <2>2. CASE /\ files' = Put(files, n, Permitted(f, j.perm))
               /\ handles' = InvalidatedFile(handles, n)
               /\ out' = <<Reply("ok", j.id)>>
      <3>1. VolumeInv' /\ KeepsReadOnly
        BY <2>2, <1>1, <1>4, PermittedIs, PutServes DEF IInv
      <3>2. OpenedInv' /\ KeepsInvalid
        BY <2>2, <1>7, <1>8
      <3>3. WorkInv'
        BY <2>1, <2>2, <1>9 DEF SimpleKinds
      <3> QED
        BY <3>1, <3>2, <3>3, <1>5 DEF Stepped
    <2>3. CASE out' = <<Reply("fail", j.id)>> /\ UNCHANGED <<files, handles>>
      <3>1. VolumeInv' /\ KeepsReadOnly
        BY <2>3, <1>1, SameFiles DEF IInv, VolumeInv
      <3>2. OpenedInv' /\ KeepsInvalid
        BY <2>3, <1>7, <1>8
      <3>3. WorkInv'
        BY <2>1, <2>3, <1>9 DEF SimpleKinds
      <3> QED
        BY <3>1, <3>2, <3>3, <1>5 DEF Stepped
    <2> QED
      BY <1>11, <2>2, <2>3 DEF ContinueResize
  <1> QED
    BY <1>10, <1>11

(* A handle that gets another cursor for reading.                          *)
LEMMA ReadCursorIs ==
    ASSUME NEW hs, HandlesTyped(hs), NEW s \in DOMAIN hs, NEW C \in Optional(CursorType)
    PROVE  SameHandles(hs, [hs EXCEPT ![s].read = C])
  <1> DEFINE gs == [hs EXCEPT ![s].read = C]
  <1>1. DOMAIN gs = DOMAIN hs
    OBVIOUS
  <1>2. ASSUME NEW k \in DOMAIN hs
        PROVE  /\ gs[k] \in HandleType /\ gs[k].name = hs[k].name
               /\ gs[k].readable = hs[k].readable /\ gs[k].writable = hs[k].writable
               /\ gs[k].appends = hs[k].appends
    <2>1. hs[k] \in HandleType /\ hs[s] \in HandleType
      BY DEF HandlesTyped
    <2>2. CASE k = s
      <3>1. gs[k] = [hs[s] EXCEPT !.read = C]
        BY <2>2
      <3> QED
        BY <3>1, <2>1, <2>2 DEF HandleType
    <2>3. CASE k # s
      BY <2>1, <2>3
    <2> QED
      BY <2>2, <2>3
  <1> QED
    BY <1>1, <1>2 DEF SameHandles

(* A READ delivers a chunk, or ends the session.                            *)
LEMMA ReadSteps ==
    ASSUME IInv, ~fatal, NEW s, AtRead(s), ContinueRead(s), UNCHANGED client
    PROVE  Stepped
  <1> DEFINE h == handles[s.slot]
             f == files[h.name]
             n == Min({s.remaining, ReadChunk})
             stale(g) == \E c \in h.read : c.at = s.offset /\ ~Accepted(c, g)
  <1>1. /\ budget' = FALSE
        /\ UNCHANGED <<files, folders, dirHandles, tokens, generation, writeStream,
                       resize, skip, input, asked, expects, owes>>
    BY DEF ContinueRead, client, volume
  <1>2. /\ readStream = {s} /\ writeStream = {} /\ resize = {} /\ skip = 0
        /\ ReadOK(s, DOMAIN handles) /\ out = <<>> /\ expects = s.remaining
        /\ InStep(0, 0)
    BY DEF AtRead
  <1>3. /\ s = [slot |-> s.slot, offset |-> s.offset, remaining |-> s.remaining]
        /\ s.slot \in Slots /\ s.offset \in 0 .. MaxSize /\ s.remaining \in 1 .. MaxSize
        /\ s.slot \in DOMAIN handles
        /\ s.offset + s.remaining <= MaxSize /\ s.remaining <= MaxRead
        /\ MaxSize \in Nat /\ MaxRead \in Nat \ {0} /\ ReadChunk \in Nat \ {0}
    BY <1>2, SftpAssumption DEF ReadOK
  <1>4. n \in Nat /\ n <= s.remaining /\ n > 0
    BY <1>3, ChunkIs
  <1> HIDE DEF n
  <1>5. VolumeInv' /\ KeepsReadOnly
    BY <1>1, SameFiles DEF IInv, VolumeInv
  <1>6. ASSUME fatal' \in BOOLEAN PROVE WireTyped'
    BY <1>1, <1>6 DEF IInv, WireTyped
  <1>7. InStep(0, 0)'
    BY <1>1, <1>2 DEF InStep
  <1>8. ASSUME NEW C \in Optional(CursorType), handles' = [handles EXCEPT ![s.slot].read = C]
        PROVE  OpenedInv' /\ KeepsInvalid /\ DOMAIN handles' = DOMAIN handles
    <2>1. SameHandles(handles, handles')
      BY <1>3, <1>8, ReadCursorIs DEF IInv, OpenedInv
    <2> QED
      BY <2>1, <1>1, SameSlots DEF IInv, SameHandles
  <1>9. CASE /\ h.name \in DOMAIN files
             /\ handles' = [handles EXCEPT ![s.slot].read = {Cursor(f, s.offset + n)}]
             /\ out' = <<DataChunk(n)>>
             /\ readStream' = LeftToRead(s, n)
             /\ UNCHANGED fatal
    <2>1. {Cursor(f, s.offset + n)} \in Optional(CursorType)
      <3>1. s.offset + n \in 0 .. MaxSize
        BY <1>3, <1>4
      <3>2. IsFile(f)
        BY <1>9 DEF IInv, VolumeInv, FilesTyped
      <3> QED
        BY <3>1, <3>2, CursorTyped
    <2>2. OpenedInv' /\ KeepsInvalid /\ DOMAIN handles' = DOMAIN handles
      BY <2>1, <1>8, <1>9
    <2>3. PICK r : r = DataChunk(n)
      OBVIOUS
    <2>4. r \in ReplyType /\ r.kind = "chunk" /\ r.n = n
      BY <2>3, <1>3, <1>4 DEF DataChunk, ReplyType
    <2>5. \/ readStream' = {} /\ expects' = r.n
          \/ \E t : /\ readStream' = {t} /\ ReadOK(t, DOMAIN handles')
                    /\ expects' = r.n + t.remaining
      <3>1. CASE s.remaining = n
        BY <3>1, <2>4, <1>1, <1>2, <1>9 DEF LeftToRead
      <3>2. CASE s.remaining # n
        <4>1. PICK t : t = [s EXCEPT !.offset = @ + n, !.remaining = @ - n]
          OBVIOUS
        <4>2. t = [slot |-> s.slot, offset |-> s.offset + n, remaining |-> s.remaining - n]
          BY <4>1, <1>3
        <4>3. readStream' = {t}
          BY <4>1, <3>2, <1>9 DEF LeftToRead
        <4>4. /\ s.offset + n \in 0 .. MaxSize /\ s.remaining - n \in 1 .. MaxSize
              /\ s.offset + n + (s.remaining - n) <= MaxSize /\ s.remaining - n <= MaxRead
              /\ s.remaining = n + (s.remaining - n)
          BY <3>2, <1>3, <1>4
        <4>5. ReadOK(t, DOMAIN handles')
          BY <4>2, <4>4, <2>2, <1>3 DEF ReadOK
        <4> QED
          BY <4>2, <4>3, <4>4, <4>5, <2>4, <1>1, <1>2
      <3> QED
        BY <3>1, <3>2
    <2>6. Delivering(r)'
      BY <2>3, <2>4, <2>5, <1>1, <1>2, <1>7, <1>9 DEF Delivering
    <2>7. WorkInv' /\ fatal' \in BOOLEAN
      BY <2>6, <1>9 DEF WorkInv, IInv, WireTyped
    <2> QED
      BY <2>2, <2>7, <1>5, <1>6 DEF Stepped
  <1>10. CASE /\ handles' = [handles EXCEPT ![s.slot].read = {}]
              /\ readStream' = {} /\ fatal' = TRUE
              /\ UNCHANGED out
    <2>1. OpenedInv' /\ KeepsInvalid
      BY <1>8, <1>10, NoCursor
    <2>2. WorkInv'
      BY <1>1, <1>2, <1>10 DEF WorkInv, NoWork
    <2> QED
      BY <2>1, <2>2, <1>5, <1>6, <1>10 DEF Stepped
  <1> QED
    BY <1>9, <1>10 DEF ContinueRead, n

(* What a step of a write leaves alone, and where it finds the server.     *)
WriteUntouched ==
    UNCHANGED <<folders, dirHandles, tokens, generation, readStream, resize, skip,
                fatal, asked, expects, owes>>

(* The write goes on, or is answered.                                      *)
LEMMA ContinuedWorks ==
    ASSUME ~fatal, NEW w, AtWrite(w), WriteUntouched,
           NEW v, WriteOK(v, DOMAIN handles'), v.id = w.id, Continued(v),
           Framed(input', v.remaining, owes'), Queued(input', asked', 1)
    PROVE  WorkInv'
  <1>1. /\ readStream' = {} /\ resize' = {} /\ skip' = 0 /\ expects' = 0 /\ ~fatal'
        /\ asked'[1] = v.id
    BY DEF AtWrite, WriteUntouched
  <1>2. v.id \in Ids /\ v.remaining \in 0 .. Max(Payloads)
    BY DEF WriteOK
  <1>3. InStep(v.remaining, 1)'
    BY DEF InStep
  <1>4. CASE v.remaining # 0
    <2>1. writeStream' = {v} /\ out' = <<>>
      BY <1>4 DEF Continued
    <2>2. AtWrite(v)'
      BY <2>1, <1>1, <1>3 DEF AtWrite
    <2> QED
      BY <2>2, <1>1 DEF WorkInv
  <1>5. CASE v.remaining = 0
    <2>1. PICK kind \in SimpleKinds : out' = <<Reply(kind, v.id)>> /\ writeStream' = {}
      BY <1>5 DEF Continued, SimpleKinds
    <2>2. PICK r : r = Reply(kind, v.id)
      OBVIOUS
    <2>3. r \in ReplyType /\ r.n = 0 /\ r.kind \notin {"data", "chunk"} /\ r.id = v.id
      BY <2>2, <1>2, ReplyIs
    <2>4. InStep(0, 1)' /\ NoWork'
      BY <2>1, <1>1, <1>3, <1>5 DEF NoWork
    <2>5. Replying(r)'
      BY <2>1, <2>2, <2>3, <2>4, <1>1 DEF Replying
    <2> QED
      BY <2>5, <1>1 DEF WorkInv
  <1> QED
    BY <1>4, <1>5

(* How much of the payload is there, and how much of it a step takes.      *)
LEMMA CountIs ==
    ASSUME IInv, NEW w, AtWrite(w)
    PROVE  /\ Available(w) \in Nat /\ Available(w) <= Len(input) /\ Available(w) <= w.remaining
           /\ Count(w) \in Nat /\ Count(w) <= Len(input) /\ Count(w) <= w.remaining
           /\ Available(w) > 0 => Count(w) > 0
           /\ w.remaining \in 0 .. Max(Payloads) /\ Max(Payloads) \in Nat
           /\ Len(input) \in Nat
  <1>1. w.remaining \in 0 .. Max(Payloads) /\ Max(Payloads) \in Nat
    BY MostPayload DEF AtWrite, WriteOK
  <1>2. Len(input) \in Nat /\ WriteChunk \in Nat \ {0}
    BY SftpAssumption, LenProperties DEF IInv, WireTyped
  <1>3. PICK a : a = Available(w)
    OBVIOUS
  <1>4. a \in Nat /\ a <= Len(input) /\ a <= w.remaining
    BY <1>1, <1>2, <1>3, MinOfTwo DEF Available
  <1>5. PICK k : k = Count(w)
    OBVIOUS
  <1>6. k \in Nat /\ k <= a /\ (a > 0 => k > 0)
    BY <1>2, <1>3, <1>4, <1>5, ChunkIs DEF Count
  <1> QED
    BY <1>1, <1>2, <1>3, <1>4, <1>5, <1>6

(* What a step takes of the input belonged to the write.                   *)
LEMMA PayloadTaken ==
    ASSUME IInv, NEW w, AtWrite(w), input' = Rest(Count(w)), UNCHANGED <<asked, owes>>
    PROVE  /\ Framed(input', w.remaining - Count(w), owes')
           /\ Queued(input', asked', 1)
           /\ input' \in Seq(FrameType) /\ Len(input') <= MaxInput
  <1>1. PICK k : k = Count(w)
    OBVIOUS
  <1>2. k \in Nat /\ k <= Len(input) /\ k <= w.remaining /\ w.remaining \in Nat
        /\ Len(input) \in Nat
    BY <1>1, CountIs
  <1>3. /\ input \in Seq(FrameType) /\ asked \in Seq(Ids)
        /\ Len(input) <= MaxInput /\ MaxInput \in Nat
    BY SftpAssumption DEF IInv, WireTyped
  <1>4. Framed(input, w.remaining, owes) /\ Queued(input, asked, 1)
    BY DEF AtWrite, InStep
  <1>5. input' = SubSeq(input, k + 1, Len(input))
    BY <1>1 DEF Rest
  <1>6. /\ \A i \in 1 .. k : input[i].kind = "payload"
        /\ Framed(input', w.remaining - k, owes)
    BY <1>2, <1>3, <1>4, <1>5, FramesDue
  <1>7. Queued(input', asked, 1)
    BY <1>2, <1>3, <1>4, <1>5, <1>6, QueueSkip
  <1>8. input' \in Seq(FrameType) /\ Len(input') = Len(input) - k
    BY <1>2, <1>3, <1>5, Suffix
  <1> QED
    BY <1>1, <1>2, <1>3, <1>6, <1>7, <1>8

(* A WRITE without payload ends at once.                                    *)
LEMMA EndWriteSteps ==
    ASSUME IInv, ~fatal, NEW w, AtWrite(w), EndWrite(w), WriteUntouched
    PROVE  Stepped
  <1>1. UNCHANGED <<files, folders, handles, input, budget>> /\ Continued(w)
    BY DEF EndWrite, volume
  <1>2. VolumeInv' /\ KeepsReadOnly
    BY <1>1, SameFiles DEF IInv, VolumeInv
  <1>3. OpenedInv' /\ KeepsInvalid
    BY <1>1, SameSlots, SameHandlesReflexive DEF IInv, OpenedInv, WriteUntouched
  <1>4. WireTyped'
    BY <1>1 DEF IInv, WireTyped, WriteUntouched
  <1>5. WorkInv'
    <2>1. Framed(input', w.remaining, owes') /\ Queued(input', asked', 1)
      BY <1>1 DEF AtWrite, InStep, WriteUntouched
    <2>2. WriteOK(w, DOMAIN handles')
      BY <1>1 DEF AtWrite
    <2> QED
      BY <1>1, <2>1, <2>2, ContinuedWorks
  <1> QED
    BY <1>2, <1>3, <1>4, <1>5 DEF Stepped

(* A WRITE that failed drops its payload.                                   *)
LEMMA DiscardPayloadSteps ==
    ASSUME IInv, ~fatal, NEW w, AtWrite(w), DiscardPayload(w), WriteUntouched
    PROVE  Stepped
  <1>1. UNCHANGED <<files, folders, handles, budget>> /\ input' = Rest(Count(w)) /\ w.failed
    BY DEF DiscardPayload, volume
  <1>2. VolumeInv' /\ KeepsReadOnly
    BY <1>1, SameFiles DEF IInv, VolumeInv
  <1>3. OpenedInv' /\ KeepsInvalid
    BY <1>1, SameSlots, SameHandlesReflexive DEF IInv, OpenedInv, WriteUntouched
  <1>4. /\ Framed(input', w.remaining - Count(w), owes') /\ Queued(input', asked', 1)
        /\ input' \in Seq(FrameType) /\ Len(input') <= MaxInput
    BY <1>1, PayloadTaken DEF WriteUntouched
  <1>5. WireTyped'
    BY <1>1, <1>4 DEF IInv, WireTyped, WriteUntouched
  <1>6. PICK v : v = [w EXCEPT !.remaining = @ - Count(w)]
    OBVIOUS
  <1>7. Continued(v)
    BY <1>6 DEF DiscardPayload
  <1>8. PICK k : k = Count(w)
    OBVIOUS
  <1>9. k \in Nat /\ k <= w.remaining /\ w.remaining \in 0 .. Max(Payloads)
        /\ Max(Payloads) \in Nat
    BY <1>8, CountIs
  <1>10. w.remaining - k \in 0 .. Max(Payloads)
    BY <1>9
  <1>11. WriteOK(v, DOMAIN handles') /\ v.id = w.id /\ v.remaining = w.remaining - k
    BY <1>1, <1>6, <1>8, <1>10 DEF AtWrite, WriteOK
  <1>12. WorkInv'
    BY <1>4, <1>7, <1>8, <1>11, ContinuedWorks
  <1> QED
    BY <1>2, <1>3, <1>5, <1>12 DEF Stepped

(* A WRITE whose file is gone, or whose card fails, fails.                  *)
LEMMA FileGoneSteps ==
    ASSUME IInv, ~fatal, NEW w, AtWrite(w), FileGone(w), WriteUntouched
    PROVE  Stepped
  <1>1. UNCHANGED <<files, folders, handles, input>> /\ budget' = FALSE
    BY DEF FileGone, CanStore, volume
  <1>2. VolumeInv' /\ KeepsReadOnly
    BY <1>1, SameFiles DEF IInv, VolumeInv
  <1>3. OpenedInv' /\ KeepsInvalid
    BY <1>1, SameSlots, SameHandlesReflexive DEF IInv, OpenedInv, WriteUntouched
  <1>4. WireTyped'
    BY <1>1 DEF IInv, WireTyped, WriteUntouched
  <1>5. PICK v : v = [w EXCEPT !.failed = TRUE]
    OBVIOUS
  <1>6. Continued(v)
    BY <1>5 DEF FileGone
  <1>7. WriteOK(v, DOMAIN handles') /\ v.id = w.id /\ v.remaining = w.remaining
    BY <1>1, <1>5 DEF AtWrite, WriteOK
  <1>8. Framed(input', v.remaining, owes') /\ Queued(input', asked', 1)
    BY <1>1, <1>7 DEF AtWrite, InStep, WriteUntouched
  <1>9. WorkInv'
    BY <1>6, <1>7, <1>8, ContinuedWorks
  <1> QED
    BY <1>2, <1>3, <1>4, <1>9 DEF Stepped

(* A chunk that reaches the card through the handle of the write.          *)
LEMMA StoredIs ==
    ASSUME IInv, NEW slot \in DOMAIN handles, NEW at, NEW units, NEW r,
           handles[slot].name \in DOMAIN files,
           Written(handles[slot], files[handles[slot].name], at, units, r),
           files' = Put(files, handles[slot].name, r.file),
           handles' = IF r.ok THEN InvalidatedWritten(Put(handles, slot, r.handle), slot)
                      ELSE Put(handles, slot, r.handle),
           WriteUntouched
    PROVE  /\ VolumeInv' /\ OpenedInv' /\ KeepsReadOnly /\ KeepsInvalid
           /\ DOMAIN handles' = DOMAIN handles /\ SameHandles(handles, handles')
  <1> DEFINE h == handles[slot]
             n == h.name
             hs == Put(handles, slot, r.handle)
  <1>1. h \in HandleType /\ n \in Names /\ slot \in Slots /\ n \notin folders
    BY DEF IInv, OpenedInv, VolumeInv, HandlesTyped, HandleType
  <1>2. UNCHANGED <<folders, dirHandles, tokens, generation>>
    BY DEF WriteUntouched
  <1>3. /\ IsFile(r.file)
        /\ files[n].readonly => r.file.data = files[n].data
        /\ r.handle \in HandleType /\ r.handle.name = n
        /\ r.handle.readable = h.readable /\ r.handle.writable = h.writable
        /\ r.handle.appends = h.appends
    BY DEF Written
  <1>4. VolumeInv' /\ KeepsReadOnly
    BY <1>1, <1>2, <1>3, PutServes DEF IInv
  <1>5. SameHandles(handles, hs)
    <2>1. DOMAIN hs = DOMAIN handles
      BY DEF Put
    <2>2. \A s \in DOMAIN handles : hs[s] = IF s = slot THEN r.handle ELSE handles[s]
      BY DEF Put
    <2>3. \A s \in DOMAIN handles : handles[s] \in HandleType
      BY DEF IInv, OpenedInv, HandlesTyped
    <2> HIDE DEF hs
    <2> QED
      BY <2>1, <2>2, <2>3, <1>3 DEF SameHandles
  <1>6. HandlesTyped(hs)
    BY <1>5, SameHandlesTyped DEF IInv, OpenedInv
  <1>7. SameHandles(handles, InvalidatedWritten(hs, slot))
    BY <1>5, <1>6, InvalidatedWrittenIs, SameHandlesTransitive
  <1>8. SameHandles(handles, handles')
    BY <1>5, <1>7
  <1>9. OpenedInv' /\ KeepsInvalid
    BY <1>2, <1>8, SameSlots DEF IInv
  <1> QED
    BY <1>4, <1>8, <1>9 DEF SameHandles

(* A WRITE past the end writes zeros first.                                 *)
LEMMA FillGapSteps ==
    ASSUME IInv, ~fatal, NEW w, AtWrite(w), FillGap(w), WriteUntouched
    PROVE  Stepped
  <1> DEFINE h == handles[w.slot]
             f == files[h.name]
             k == Min({WriteOffset(w) - Len(f.data), WriteChunk})
  <1>1. /\ h.name \in DOMAIN files /\ WriteOffset(w) - Len(f.data) > 0
        /\ ~w.failed /\ budget' = FALSE /\ UNCHANGED input
    BY DEF FillGap, CanStore
  <1>2. PICK r \in WriteOutcomes(h, Len(f.data), Zeros(k)) :
          /\ files' = Put(files, h.name, r.file)
          /\ handles' = IF r.ok THEN InvalidatedWritten(Put(handles, w.slot, r.handle), w.slot)
                        ELSE Put(handles, w.slot, r.handle)
          /\ Continued([w EXCEPT !.failed = ~r.ok])
    BY DEF FillGap
  <1>3. /\ WriteOK(w, DOMAIN handles) /\ w.slot \in DOMAIN handles
        /\ w.offset \in 0 .. MaxSize /\ MaxSize \in Nat /\ WriteChunk \in Nat \ {0}
    BY <1>1, SftpAssumption DEF AtWrite, WriteOK
  <1>4. h \in HandleType /\ IsFile(f) /\ Len(f.data) \in Nat /\ FilesTyped(files)
    BY <1>1, <1>3 DEF IInv, OpenedInv, VolumeInv, HandlesTyped, FilesTyped, IsFile
  <1>5. WriteOffset(w) \in Nat
    BY <1>3, <1>4 DEF WriteOffset
  <1>6. k \in Nat
    BY <1>1, <1>3, <1>4, <1>5, ChunkIs
  <1> HIDE DEF k
  <1>7. Zeros(k) \in Contents
    BY <1>6, ZerosAre
  <1>8. Written(h, f, Len(f.data), Zeros(k), r)
    BY <1>1, <1>2, <1>4, <1>7, OutcomesOfWrite
  <1>9. /\ VolumeInv' /\ OpenedInv' /\ KeepsReadOnly /\ KeepsInvalid
        /\ DOMAIN handles' = DOMAIN handles
    BY <1>1, <1>2, <1>3, <1>8, StoredIs
  <1>10. WireTyped'
    BY <1>1 DEF IInv, WireTyped, WriteUntouched
  <1>11. PICK v : v = [w EXCEPT !.failed = ~r.ok]
    OBVIOUS
  <1>12. r.ok \in BOOLEAN
    BY <1>8 DEF Written
  <1>13. PICK failed \in BOOLEAN : failed = ~r.ok
    BY <1>12
  <1>14. WriteOK(v, DOMAIN handles') /\ v.id = w.id /\ v.remaining = w.remaining
    BY <1>1, <1>3, <1>9, <1>11, <1>13 DEF WriteOK
  <1>15. Framed(input', v.remaining, owes') /\ Queued(input', asked', 1)
    BY <1>1, <1>14 DEF AtWrite, InStep, WriteUntouched
  <1>16. WorkInv'
    BY <1>2, <1>11, <1>14, <1>15, ContinuedWorks
  <1> QED
    BY <1>9, <1>10, <1>16 DEF Stepped

(* A WRITE stores a chunk of its payload.                                   *)
LEMMA StorePayloadSteps ==
    ASSUME IInv, ~fatal, NEW w, AtWrite(w), StorePayload(w), WriteUntouched
    PROVE  Stepped
  <1> DEFINE h == handles[w.slot]
             f == files[h.name]
  <1>1. PICK k : k = Count(w)
    OBVIOUS
  <1>2. /\ h.name \in DOMAIN files /\ ~w.failed /\ budget' = FALSE
        /\ input' = Rest(Count(w))
    BY DEF StorePayload, CanStore
  <1>3. PICK units \in [1 .. k -> Symbols] : \E r \in WriteOutcomes(h, WriteOffset(w), units) :
          /\ files' = Put(files, h.name, r.file)
          /\ handles' = IF r.ok THEN InvalidatedWritten(Put(handles, w.slot, r.handle), w.slot)
                        ELSE Put(handles, w.slot, r.handle)
          /\ Continued([w EXCEPT !.failed = ~r.ok, !.remaining = @ - k,
                                 !.offset = IF r.ok THEN @ + k ELSE @])
    BY <1>1 DEF StorePayload
  <1>4. PICK r \in WriteOutcomes(h, WriteOffset(w), units) :
          /\ files' = Put(files, h.name, r.file)
          /\ handles' = IF r.ok THEN InvalidatedWritten(Put(handles, w.slot, r.handle), w.slot)
                        ELSE Put(handles, w.slot, r.handle)
          /\ Continued([w EXCEPT !.failed = ~r.ok, !.remaining = @ - k,
                                 !.offset = IF r.ok THEN @ + k ELSE @])
    BY <1>3
  <1>5. /\ WriteOK(w, DOMAIN handles) /\ w.slot \in DOMAIN handles
        /\ w.offset \in 0 .. MaxSize /\ MaxSize \in Nat
        /\ w.offset + w.remaining <= MaxSize
    BY <1>2, SftpAssumption DEF AtWrite, WriteOK
  <1>6. h \in HandleType /\ IsFile(f) /\ Len(f.data) \in Nat /\ FilesTyped(files)
    BY <1>2, <1>5 DEF IInv, OpenedInv, VolumeInv, HandlesTyped, FilesTyped, IsFile
  <1>7. WriteOffset(w) \in Nat
    BY <1>5, <1>6 DEF WriteOffset
  <1>8. k \in Nat /\ k <= w.remaining /\ w.remaining \in 0 .. Max(Payloads)
        /\ Max(Payloads) \in Nat
    BY <1>1, CountIs
  <1>9. units \in Contents
    BY <1>8, UnitsAre
  <1>10. Written(h, f, WriteOffset(w), units, r)
    BY <1>2, <1>4, <1>6, <1>7, <1>9, OutcomesOfWrite
  <1>11. /\ VolumeInv' /\ OpenedInv' /\ KeepsReadOnly /\ KeepsInvalid
         /\ DOMAIN handles' = DOMAIN handles
    BY <1>2, <1>4, <1>5, <1>10, StoredIs
  <1>12. /\ Framed(input', w.remaining - k, owes') /\ Queued(input', asked', 1)
         /\ input' \in Seq(FrameType) /\ Len(input') <= MaxInput
    BY <1>1, <1>2, PayloadTaken DEF WriteUntouched
  <1>13. WireTyped'
    BY <1>2, <1>12 DEF IInv, WireTyped, WriteUntouched
  <1>14. PICK v : v = [w EXCEPT !.failed = ~r.ok, !.remaining = @ - k,
                                !.offset = IF r.ok THEN @ + k ELSE @]
    OBVIOUS
  <1>15. r.ok \in BOOLEAN
    BY <1>10 DEF Written
  <1>16. PICK failed \in BOOLEAN : failed = ~r.ok
    BY <1>15
  <1>17. PICK offset : offset = IF r.ok THEN w.offset + k ELSE w.offset
    OBVIOUS
  <1>18. /\ offset \in 0 .. MaxSize /\ w.remaining - k \in 0 .. Max(Payloads)
         /\ failed \/ offset + (w.remaining - k) <= MaxSize
    <2>1. CASE r.ok
      <3>1. offset = w.offset + k
        BY <2>1, <1>17
      <3> QED
        BY ONLY <3>1, <1>5, <1>8
    <2>2. CASE ~r.ok
      <3>1. offset = w.offset /\ failed
        BY <2>2, <1>16, <1>17
      <3> QED
        BY ONLY <3>1, <1>5, <1>8
    <2> QED
      BY <2>1, <2>2
  <1>19. v = [id |-> w.id, slot |-> w.slot, remaining |-> w.remaining - k,
              offset |-> offset, failed |-> failed]
    <2>1. w \in [id : Ids, slot : Slots, remaining : 0 .. Max(Payloads),
                 offset : 0 .. MaxSize, failed : BOOLEAN]
      BY <1>5 DEF WriteOK
    <2> QED
      BY <2>1, <1>14, <1>16, <1>17
  <1>20. WriteOK(v, DOMAIN handles') /\ v.id = w.id /\ v.remaining = w.remaining - k
    BY <1>5, <1>11, <1>18, <1>19 DEF WriteOK
  <1>21. WorkInv'
    <2>1. Continued(v)
      BY <1>4, <1>14
    <2> QED
      BY <2>1, <1>12, <1>20, ContinuedWorks
  <1> QED
    BY <1>11, <1>13, <1>21 DEF Stepped

(* Every step of a WRITE.                                                   *)
LEMMA WriteSteps ==
    ASSUME IInv, ~fatal, NEW w, AtWrite(w), ContinueWrite(w), UNCHANGED client
    PROVE  Stepped
  <1>1. WriteUntouched
    BY DEF ContinueWrite, client, WriteUntouched, EndWrite, DiscardPayload, FileGone,
           FillGap, StorePayload, volume
  <1> QED
    BY <1>1, EndWriteSteps, DiscardPayloadSteps, FileGoneSteps, FillGapSteps,
       StorePayloadSteps DEF ContinueWrite

(* What is left of the input after its first frame and some payload.       *)
LEMMA RestOfTail ==
    ASSUME NEW q \in Seq(FrameType), q # <<>>, NEW k \in 0 .. Len(q) - 1
    PROVE  SubSeq(q, (k + 1) + 1, Len(q)) = SubSeq(Tail(q), k + 1, Len(Tail(q)))
  <1> DEFINE t == Tail(q)
             a == SubSeq(q, (k + 1) + 1, Len(q))
             b == SubSeq(t, k + 1, Len(t))
  <1>1. /\ Len(q) \in Nat /\ Len(q) > 0
        /\ t \in Seq(FrameType) /\ Len(t) = Len(q) - 1
        /\ \A i \in 1 .. Len(t) : t[i] = q[i + 1]
    BY HeadTailProperties, LenProperties, EmptySeq
  <1>2. k + 1 \in 0 .. Len(q) /\ k \in 0 .. Len(t)
    BY <1>1
  <1>3. /\ a \in Seq(FrameType) /\ Len(a) = Len(q) - (k + 1)
        /\ \A i \in 1 .. Len(q) - (k + 1) : a[i] = q[i + (k + 1)]
    BY <1>2, Suffix
  <1> HIDE DEF t
  <1>4. /\ b \in Seq(FrameType) /\ Len(b) = Len(t) - k
        /\ \A i \in 1 .. Len(t) - k : b[i] = t[i + k]
    BY <1>1, <1>2, Suffix
  <1> HIDE DEF a, b
  <1>5. Len(a) = Len(b)
    BY <1>1, <1>3, <1>4
  <1>6. ASSUME NEW i \in 1 .. Len(a) PROVE a[i] = b[i]
    <2>1. i \in 1 .. Len(q) - (k + 1) /\ i \in 1 .. Len(t) - k /\ i + k \in 1 .. Len(t)
      BY <1>1, <1>2, <1>3
    <2>2. (i + k) + 1 = i + (k + 1)
      BY <2>1
    <2> QED
      BY <2>1, <2>2, <1>1, <1>3, <1>4
  <1>7. a = b
    BY <1>3, <1>4, <1>5, <1>6, SeqEqual
  <1> QED
    BY <1>7 DEF a, b, t

(* At rest, the first frame of the input is the next header.               *)
LEMMA NextHeader ==
    ASSUME IInv, AtRest, skip = 0, input # <<>>
    PROVE  /\ Head(input) \in FrameType /\ Head(input).kind # "payload"
           /\ Framed(Tail(input), Head(input).n, owes)
           /\ Tail(input) \in Seq(FrameType) /\ Len(Tail(input)) <= MaxInput
           /\ Len(Tail(input)) = Len(input) - 1 /\ Len(input) \in Nat
           /\ Head(input).kind # "broken" =>
                 /\ asked[1] = Head(input).id /\ Head(input).id \in Ids
                 /\ Queued(Tail(input), asked, 1)
  <1>1. /\ input \in Seq(FrameType) /\ asked \in Seq(Ids) /\ Len(input) <= MaxInput
        /\ MaxInput \in Nat
    BY SftpAssumption DEF IInv, WireTyped
  <1>2. Framed(input, 0, owes) /\ Queued(input, asked, 0)
    BY DEF AtRest, InStep
  <1>3. /\ Head(input) \in FrameType /\ Tail(input) \in Seq(FrameType)
        /\ Len(Tail(input)) = Len(input) - 1 /\ Len(input) \in Nat
    BY <1>1, HeadTailProperties, LenProperties
  <1>4. Head(input).kind # "payload" /\ Framed(Tail(input), Head(input).n, owes)
    BY <1>1, <1>2, FramesHeader
  <1>5. ASSUME Head(input).kind # "broken"
        PROVE  /\ asked[1] = Head(input).id /\ Head(input).id \in Ids
               /\ Queued(Tail(input), asked, 1)
    <2>1. 0 < Len(asked) /\ asked[0 + 1] = Head(input).id /\ Queued(Tail(input), asked, 0 + 1)
      BY <1>1, <1>2, <1>4, <1>5, QueueHeader
    <2>2. asked[1] \in Ids
      BY <2>1, <1>1, LenProperties
    <2> QED
      BY <2>1, <2>2
  <1> QED
    BY <1>1, <1>3, <1>4, <1>5

(* A request is taken from the input and dispatched.                        *)
LEMMA ParseRequestSteps ==
    ASSUME IInv, ~fatal, AtRest, skip = 0, input # <<>>, UNCHANGED client,
           ParseRequest(Head(input))
    PROVE  Stepped
  <1> DEFINE frame == Head(input)
             id == frame.id
  <1>1. /\ budget' = FALSE /\ input' = Tail(input) /\ Dispatch(id)
        /\ frame.kind = "request"
        /\ UNCHANGED <<fatal, asked, expects, owes>>
    BY DEF ParseRequest, client
  <1>2. /\ frame \in FrameType /\ Framed(input', frame.n, owes)
        /\ input' \in Seq(FrameType) /\ Len(input') <= MaxInput
        /\ asked[1] = id /\ id \in Ids /\ Queued(input', asked, 1)
    BY <1>1, NextHeader
  <1>3. frame.n = 0
    BY <1>1, <1>2 DEF FrameType
  <1> HIDE DEF frame, id
  <1>4. Served(id)
    BY <1>1, <1>2, RequestServes DEF IInv
  <1>5. VolumeInv' /\ OpenedInv' /\ KeepsReadOnly /\ KeepsInvalid /\ Begun(id)
    BY <1>4 DEF Served
  <1>6. WireTyped'
    <2>1. /\ fatal \in BOOLEAN /\ asked \in Seq(Ids) /\ expects \in 0 .. MaxRead
          /\ owes \in 0 .. Max(Payloads) /\ skip \in 0 .. Max(Payloads)
      BY DEF IInv, WireTyped
    <2>2. skip' = skip
      BY <1>5 DEF Begun, streams
    <2> QED
      BY <2>1, <2>2, <1>1, <1>2 DEF WireTyped
  <1>7. InStep(0, 1)' /\ asked'[1] = id /\ ~fatal' /\ expects' = 0
    BY <1>1, <1>2, <1>3 DEF AtRest, InStep
  <1>8. NoWork /\ skip = 0 /\ out = <<>>
    BY DEF AtRest
  <1>9. ASSUME (\E kind \in SimpleKinds : out' = <<Reply(kind, id)>>) /\ UNCHANGED streams
        PROVE  WorkInv'
    <2>1. PICK kind \in SimpleKinds : out' = <<Reply(kind, id)>>
      BY <1>9
    <2>2. PICK r : r = Reply(kind, id)
      OBVIOUS
    <2>3. r \in ReplyType /\ r.n = 0 /\ r.kind \notin {"data", "chunk"} /\ r.id = id
      BY <2>2, <1>2, ReplyIs
    <2>4. NoWork' /\ skip' = 0
      BY <1>8, <1>9 DEF NoWork, streams
    <2>5. Replying(r)'
      BY <2>1, <2>2, <2>3, <2>4, <1>7 DEF Replying
    <2> QED
      BY <2>5, <1>7 DEF WorkInv
  <1>10. ASSUME /\ \E s : /\ readStream' = {s} /\ ReadOK(s, DOMAIN handles')
                          /\ out' = <<Data(id, s.remaining)>>
                /\ UNCHANGED <<writeStream, resize, skip>>
         PROVE  WorkInv'
    <2>1. PICK s : /\ readStream' = {s} /\ ReadOK(s, DOMAIN handles')
                   /\ out' = <<Data(id, s.remaining)>>
      BY <1>10
    <2>2. PICK r : r = Data(id, s.remaining)
      OBVIOUS
    <2>3. s.remaining \in 1 .. MaxRead
      BY <2>1, SftpAssumption DEF ReadOK
    <2>4. r \in ReplyType /\ r.kind = "data" /\ r.n = s.remaining /\ r.id = id
      BY <2>2, <2>3, <1>2 DEF Data, ReplyType
    <2>5. writeStream' = {} /\ resize' = {} /\ skip' = 0
      BY <1>8, <1>10 DEF NoWork
    <2>6. Announcing(r, s)'
      BY <2>1, <2>2, <2>4, <2>5, <1>7 DEF Announcing
    <2> QED
      BY <2>6, <1>7 DEF WorkInv
  <1>11. ASSUME /\ \E j : resize' = {j} /\ JobOK(j, files') /\ j.id = id
                /\ UNCHANGED <<readStream, writeStream, skip, out>>
         PROVE  WorkInv'
    <2>1. PICK j : resize' = {j} /\ JobOK(j, files') /\ j.id = id
      BY <1>11
    <2>2. readStream' = {} /\ writeStream' = {} /\ skip' = 0 /\ out' = <<>>
      BY <1>8, <1>11 DEF NoWork
    <2>3. AtResize(j)'
      BY <2>1, <2>2, <1>7 DEF AtResize
    <2> QED
      BY <2>3, <1>7 DEF WorkInv
  <1>12. WorkInv'
    BY <1>5, <1>9, <1>10, <1>11 DEF Begun
  <1> QED
    BY <1>5, <1>6, <1>12 DEF Stepped

(* The header of a WRITE is taken, and its payload is due.                  *)
LEMMA ParseWriteSteps ==
    ASSUME IInv, ~fatal, AtRest, skip = 0, input # <<>>, UNCHANGED client,
           ParseWrite(Head(input))
    PROVE  Stepped
  <1> DEFINE frame == Head(input)
  <1>1. PICK t \in Presented, offset \in 0 .. MaxSize :
          BeginWrite(frame.id, frame.n, t, offset)
    BY DEF ParseWrite
  <1>2. PICK ok : ok = (ValidFile(t) /\ handles[t[2]].writable /\ offset + frame.n <= MaxSize)
    OBVIOUS
  <1>3. PICK w : w = [id |-> frame.id, slot |-> IF ok THEN t[2] ELSE Min(Slots),
                      remaining |-> frame.n, offset |-> IF ok THEN offset ELSE 0,
                      failed |-> ~ok]
    OBVIOUS
  <1>4. /\ writeStream' = {w} /\ input' = Tail(input)
        /\ UNCHANGED <<files, folders, handles, dirHandles, tokens, generation,
                       readStream, resize, skip, out, fatal, budget, asked, expects, owes>>
    BY <1>1, <1>2, <1>3 DEF BeginWrite, volume, opened, client
  <1>5. frame.kind = "write"
    BY DEF ParseWrite
  <1>6. /\ frame \in FrameType /\ Framed(input', frame.n, owes)
        /\ input' \in Seq(FrameType) /\ Len(input') <= MaxInput
        /\ asked[1] = frame.id /\ frame.id \in Ids /\ Queued(input', asked, 1)
    BY <1>4, <1>5, NextHeader
  <1>7. frame.n \in 0 .. Max(Payloads)
    BY <1>5, <1>6, MostPayload DEF FrameType
  <1> HIDE DEF frame
  <1>8. Min(Slots) \in Slots /\ MaxSize \in Nat
    BY SftpAssumption, MinOfNumbers
  <1>9. PICK failed \in BOOLEAN : failed = ~ok
    <2>1. ok \in BOOLEAN
      BY <1>2
    <2> QED
      BY <2>1
  <1>10. PICK slot \in Slots : slot = IF ok THEN t[2] ELSE Min(Slots)
    BY <1>8 DEF Presented
  <1>11. PICK at \in 0 .. MaxSize : at = IF ok THEN offset ELSE 0
    BY <1>8
  <1>12. w = [id |-> frame.id, slot |-> slot, remaining |-> frame.n, offset |-> at,
              failed |-> failed]
    BY <1>3, <1>9, <1>10, <1>11
  <1>13. failed \/ (slot \in DOMAIN handles' /\ at + frame.n <= MaxSize)
    BY <1>2, <1>4, <1>9, <1>10, <1>11 DEF ValidFile
  <1>14. WriteOK(w, DOMAIN handles')
    BY <1>6, <1>7, <1>12, <1>13 DEF WriteOK
  <1>15. AtWrite(w)'
    <2>1. w.remaining = frame.n /\ w.id = frame.id
      BY <1>12
    <2>2. InStep(w.remaining, 1)'
      BY <2>1, <1>4, <1>6 DEF InStep
    <2> QED
      BY <2>1, <2>2, <1>4, <1>6, <1>14 DEF AtWrite, AtRest, NoWork
  <1>16. WorkInv'
    BY <1>4, <1>15 DEF WorkInv
  <1>17. WireTyped'
    BY <1>4, <1>6 DEF IInv, WireTyped
  <1>18. VolumeInv' /\ KeepsReadOnly
    BY <1>4, SameFiles DEF IInv, VolumeInv
  <1>19. OpenedInv' /\ KeepsInvalid
    BY <1>4, SameSlots, SameHandlesReflexive DEF IInv, OpenedInv
  <1> QED
    BY <1>16, <1>17, <1>18, <1>19 DEF Stepped

(* Of a request that is too long the rest is skipped.                       *)
LEMMA ParseOversizedSteps ==
    ASSUME IInv, ~fatal, AtRest, skip = 0, input # <<>>, UNCHANGED client,
           ParseOversized(Head(input))
    PROVE  Stepped
  <1> DEFINE frame == Head(input)
             t == Tail(input)
  <1>1. PICK k : k = Min({frame.n, Len(input) - 1})
    OBVIOUS
  <1>2. /\ frame.kind = "oversized" /\ out' = <<Reply("fail", frame.id)>>
        /\ input' = SubSeq(input, (k + 1) + 1, Len(input)) /\ skip' = frame.n - k
        /\ UNCHANGED <<files, folders, handles, dirHandles, tokens, generation,
                       readStream, writeStream, resize, fatal, budget, asked, expects, owes>>
    BY <1>1 DEF ParseOversized, Rest, volume, opened, client
  <1>3. /\ frame \in FrameType /\ Framed(t, frame.n, owes)
        /\ t \in Seq(FrameType) /\ Len(t) <= MaxInput
        /\ Len(t) = Len(input) - 1 /\ Len(input) \in Nat
        /\ asked[1] = frame.id /\ frame.id \in Ids /\ Queued(t, asked, 1)
    BY <1>2, NextHeader
  <1>4. frame.n \in 0 .. Max(Payloads) /\ Max(Payloads) \in Nat
    BY <1>2, <1>3, MostPayload DEF FrameType
  <1>5. Len(t) \in Nat /\ asked \in Seq(Ids) /\ input \in Seq(FrameType)
    BY <1>3, LenProperties DEF IInv, WireTyped
  <1>6. k \in Nat /\ k <= frame.n /\ k <= Len(t) /\ k \in 0 .. Len(input) - 1
    <2> HIDE DEF frame, t
    <2> QED
      BY <1>1, <1>3, <1>4, <1>5, MinOfTwo
  <1>7. input' = SubSeq(t, k + 1, Len(t))
    BY <1>2, <1>5, <1>6, RestOfTail
  <1> HIDE DEF frame, t
  <1>8. /\ \A i \in 1 .. k : t[i].kind = "payload"
        /\ Framed(input', frame.n - k, owes)
    BY <1>3, <1>4, <1>6, <1>7, FramesDue
  <1>9. Queued(input', asked, 1)
    BY <1>3, <1>5, <1>6, <1>7, <1>8, QueueSkip
  <1>10. input' \in Seq(FrameType) /\ Len(input') <= MaxInput
    <2>1. k \in 0 .. Len(t) /\ MaxInput \in Nat
      BY <1>5, <1>6, SftpAssumption
    <2>2. input' \in Seq(FrameType) /\ Len(input') = Len(t) - k
      BY <2>1, <1>3, <1>7, Suffix
    <2> QED
      BY <2>1, <2>2, <1>3, <1>5
  <1>11. skip' \in 0 .. Max(Payloads)
    BY <1>2, <1>4, <1>6
  <1>12. WireTyped'
    BY <1>2, <1>10, <1>11 DEF IInv, WireTyped
  <1>13. VolumeInv' /\ KeepsReadOnly
    BY <1>2, SameFiles DEF IInv, VolumeInv
  <1>14. OpenedInv' /\ KeepsInvalid
    BY <1>2, SameSlots, SameHandlesReflexive DEF IInv, OpenedInv
  <1>15. PICK r : r = Reply("fail", frame.id)
    OBVIOUS
  <1>16. r \in ReplyType /\ r.n = 0 /\ r.kind \notin {"data", "chunk"} /\ r.id = frame.id
    BY <1>3, <1>15, ReplyIs DEF SimpleKinds
  <1>17. InStep(skip, 1)'
    BY <1>2, <1>8, <1>9 DEF InStep
  <1>18. Replying(r)'
    BY <1>2, <1>3, <1>15, <1>16, <1>17 DEF Replying, AtRest, NoWork
  <1>19. WorkInv'
    BY <1>2, <1>18 DEF WorkInv
  <1> QED
    BY <1>12, <1>13, <1>14, <1>19 DEF Stepped

(* A broken frame ends the session.                                         *)
LEMMA ParseBrokenSteps ==
    ASSUME IInv, ~fatal, AtRest, UNCHANGED client, ParseBroken(Head(input))
    PROVE  Stepped
  <1>1. /\ fatal' = TRUE
        /\ UNCHANGED <<files, folders, handles, dirHandles, tokens, generation,
                       readStream, writeStream, resize, skip, input, out, budget,
                       asked, expects, owes>>
    BY DEF ParseBroken, volume, opened, streams, client
  <1>2. VolumeInv' /\ KeepsReadOnly
    BY <1>1, SameFiles DEF IInv, VolumeInv
  <1>3. OpenedInv' /\ KeepsInvalid
    BY <1>1, SameSlots, SameHandlesReflexive DEF IInv, OpenedInv
  <1>4. WireTyped'
    BY <1>1 DEF IInv, WireTyped
  <1>5. WorkInv'
    BY <1>1 DEF WorkInv, AtRest, NoWork
  <1> QED
    BY <1>2, <1>3, <1>4, <1>5 DEF Stepped

(* The rest of a long request is dropped as it comes.                       *)
LEMMA DiscardOversizedSteps ==
    ASSUME IInv, ~fatal, AtRest, UNCHANGED client, DiscardOversized
    PROVE  Stepped
  <1>1. PICK k : k = Min({skip, Len(input)})
    OBVIOUS
  <1>2. /\ input' = SubSeq(input, k + 1, Len(input)) /\ skip' = skip - k
        /\ UNCHANGED <<files, folders, handles, dirHandles, tokens, generation,
                       readStream, writeStream, resize, out, fatal, budget,
                       asked, expects, owes>>
    BY <1>1 DEF DiscardOversized, Rest, volume, opened, client
  <1>3. /\ input \in Seq(FrameType) /\ asked \in Seq(Ids) /\ Len(input) <= MaxInput
        /\ MaxInput \in Nat /\ Len(input) \in Nat
        /\ skip \in 0 .. Max(Payloads) /\ Max(Payloads) \in Nat
    BY SftpAssumption, MostPayload, LenProperties DEF IInv, WireTyped
  <1>4. skip \in Nat /\ k \in Nat /\ k <= skip /\ k <= Len(input)
    BY <1>1, <1>3, MinOfTwo
  <1>5. Framed(input, skip, owes) /\ Queued(input, asked, 0)
    BY DEF AtRest, InStep
  <1>6. /\ \A i \in 1 .. k : input[i].kind = "payload"
        /\ Framed(input', skip - k, owes)
    BY <1>2, <1>3, <1>4, <1>5, FramesDue
  <1>7. Queued(input', asked, 0)
    BY <1>2, <1>3, <1>4, <1>5, <1>6, QueueSkip
  <1>8. input' \in Seq(FrameType) /\ Len(input') = Len(input) - k
    BY <1>2, <1>3, <1>4, Suffix
  <1>9. skip' \in 0 .. Max(Payloads) /\ Len(input') <= MaxInput
    BY <1>2, <1>3, <1>4, <1>8
  <1>10. WireTyped'
    BY <1>2, <1>8, <1>9 DEF IInv, WireTyped
  <1>11. VolumeInv' /\ KeepsReadOnly
    BY <1>2, SameFiles DEF IInv, VolumeInv
  <1>12. OpenedInv' /\ KeepsInvalid
    BY <1>2, SameSlots, SameHandlesReflexive DEF IInv, OpenedInv
  <1>13. InStep(skip, 0)'
    BY <1>2, <1>6, <1>7 DEF InStep
  <1>14. WorkInv'
    BY <1>2, <1>13 DEF WorkInv, AtRest, NoWork
  <1> QED
    BY <1>10, <1>11, <1>12, <1>14 DEF Stepped

(* One step of the server.                                                 *)
LEMMA ServerSteps ==
    ASSUME IInv, Step
    PROVE  Stepped
  <1>1. ~fatal /\ out = <<>> /\ UNCHANGED client
    BY DEF Step
  <1>2. CASE AtRest
    <2>1. readStream = {} /\ writeStream = {} /\ resize = {}
      BY <1>2 DEF AtRest, NoWork
    <2>2. DiscardOversized \/ (Idle /\ ParseNext)
      BY <2>1 DEF Step
    <2>3. CASE Idle /\ ParseNext
      <3>1. skip = 0 /\ input # <<>>
        BY <2>3 DEF Idle, ParseNext
      <3>2. \/ ParseRequest(Head(input)) \/ ParseWrite(Head(input))
            \/ ParseOversized(Head(input)) \/ ParseBroken(Head(input))
        BY <2>3 DEF ParseNext
      <3> QED
        BY <3>1, <3>2, <1>1, <1>2, ParseRequestSteps, ParseWriteSteps,
           ParseOversizedSteps, ParseBrokenSteps
    <2> QED
      BY <2>2, <2>3, <1>1, <1>2, DiscardOversizedSteps
  <1>3. ASSUME NEW s, AtRead(s) PROVE Stepped
    <2>1. readStream = {s} /\ resize = {}
      BY <1>3 DEF AtRead
    <2>2. ContinueRead(s)
      BY <2>1 DEF Step, Idle
    <2> QED
      BY <2>2, <1>1, <1>3, ReadSteps
  <1>4. ASSUME NEW w, AtWrite(w) PROVE Stepped
    <2>1. readStream = {} /\ writeStream = {w} /\ resize = {}
      BY <1>4 DEF AtWrite
    <2>2. ContinueWrite(w)
      BY <2>1 DEF Step, Idle
    <2> QED
      BY <2>2, <1>1, <1>4, WriteSteps
  <1>5. ASSUME NEW j, AtResize(j) PROVE Stepped
    <2>1. resize = {j}
      BY <1>5 DEF AtResize
    <2>2. ContinueResize(j)
      BY <2>1 DEF Step, Idle
    <2> QED
      BY <2>2, <1>1, <1>5, ResizeSteps
  <1> QED
    BY <1>1, <1>2, <1>3, <1>4, <1>5, AtWork

-----------------------------------------------------------------------------
(* The channel and the client.                                             *)

(* The oldest request is answered: it is the first that has its id.        *)
LEMMA OldestAnswered ==
    ASSUME NEW ids \in Seq(Ids), ids # <<>>
    PROVE  RemoveFirst(ids, ids[1]) = Tail(ids)
  <1> DEFINE I == {i \in 1 .. Len(ids) : ids[i] = ids[1]}
             at == SelectInSeq(ids, LAMBDA v : v = ids[1])
  <1>1. Len(ids) \in Nat /\ Len(ids) > 0
    BY EmptySeq, LenProperties
  <1>2. 1 \in I /\ I \in SUBSET Int /\ \A k \in I : 1 <= k
    BY <1>1
  <1>3. Min(I) = 1
    <2> HIDE DEF I
    <2> QED
      BY <1>2, MinIs
  <1>4. at = IF I # {} THEN Min(I) ELSE 0
    BY DEF SelectInSeq
  <1>5. at = 1
    <2>1. I # {}
      BY <1>2
    <2> QED
      BY ONLY <2>1, <1>3, <1>4
  <1>6. RemoveFirst(ids, ids[1]) = RemoveAt(ids, at)
    <2>1. \E i \in 1 .. Len(ids) : ids[i] = ids[1]
      BY <1>1
    <2> QED
      BY <2>1 DEF RemoveFirst
  <1>7. RemoveAt(ids, 1) = SubSeq(ids, 1, 0) \o SubSeq(ids, 2, Len(ids))
    BY DEF RemoveAt
  <1>8. SubSeq(ids, 1, 0) = <<>>
    BY SubSeqEmpty
  <1>9. SubSeq(ids, 2, Len(ids)) = Tail(ids) /\ Tail(ids) \in Seq(Ids)
    BY TailIsSubSeq, HeadTailProperties
  <1>10. <<>> \o Tail(ids) = Tail(ids)
    BY <1>9, ConcatEmptySeq
  <1> HIDE DEF at, I
  <1> QED
    BY <1>5, <1>6, <1>7, <1>8, <1>9, <1>10

(* What the client and the channel leave of the rest.                      *)
LEMMA SameVolume ==
    ASSUME IInv, UNCHANGED <<volume, opened>>
    PROVE  VolumeInv' /\ OpenedInv' /\ KeepsReadOnly /\ KeepsInvalid
  <1>1. UNCHANGED <<files, folders, handles, dirHandles, tokens, generation>>
    BY DEF volume, opened
  <1>2. VolumeInv' /\ KeepsReadOnly
    BY <1>1, SameFiles DEF IInv, VolumeInv
  <1>3. OpenedInv' /\ KeepsInvalid
    BY <1>1, SameSlots, SameHandlesReflexive DEF IInv, OpenedInv
  <1> QED
    BY <1>2, <1>3

(* The work is what it was.                                                *)
LEMMA SameWork ==
    ASSUME WorkInv, UNCHANGED <<files, handles, streams, input, out, fatal, client>>
    PROVE  WorkInv'
  <1>1. /\ UNCHANGED <<files, handles, input, out, fatal, asked, expects, owes>>
        /\ UNCHANGED <<readStream, writeStream, resize, skip>>
    BY DEF streams, client
  <1>2. CASE fatal
    BY <1>1, <1>2 DEF WorkInv, NoWork
  <1>3. CASE ~fatal
    <2>1. CASE AtRest
      BY <2>1, <1>1, <1>3 DEF WorkInv, AtRest, NoWork, InStep
    <2>2. ASSUME NEW s, AtRead(s) PROVE WorkInv'
      <3>1. AtRead(s)'
        BY <2>2, <1>1 DEF AtRead, InStep
      <3> QED
        BY <3>1, <1>1, <1>3 DEF WorkInv
    <2>3. ASSUME NEW w, AtWrite(w) PROVE WorkInv'
      <3>1. AtWrite(w)'
        BY <2>3, <1>1 DEF AtWrite, InStep
      <3> QED
        BY <3>1, <1>1, <1>3 DEF WorkInv
    <2>4. ASSUME NEW j, AtResize(j) PROVE WorkInv'
      <3>1. AtResize(j)'
        BY <2>4, <1>1 DEF AtResize, InStep
      <3> QED
        BY <3>1, <1>1, <1>3 DEF WorkInv
    <2>5. ASSUME NEW r, Replying(r) PROVE WorkInv'
      <3>1. Replying(r)'
        BY <2>5, <1>1 DEF Replying, NoWork, InStep
      <3> QED
        BY <3>1, <1>1, <1>3 DEF WorkInv
    <2>6. ASSUME NEW r, NEW s, Announcing(r, s) PROVE WorkInv'
      <3>1. Announcing(r, s)'
        BY <2>6, <1>1 DEF Announcing, InStep
      <3> QED
        BY <3>1, <1>1, <1>3 DEF WorkInv
    <2>7. ASSUME NEW r, Delivering(r) PROVE WorkInv'
      <3>1. Delivering(r)'
        BY <2>7, <1>1 DEF Delivering, InStep
      <3> QED
        BY <3>1, <1>1, <1>3 DEF WorkInv
    <2> QED
      BY <1>3, <2>1, <2>2, <2>3, <2>4, <2>5, <2>6, <2>7 DEF WorkInv
  <1> QED
    BY <1>2, <1>3

(* A poll gives the card back.                                              *)
LEMMA BeginPollSteps ==
    ASSUME IInv, BeginPoll
    PROVE  Stepped
  <1>1. /\ budget' = TRUE
        /\ UNCHANGED <<volume, opened, streams, input, out, fatal, client>>
    BY DEF BeginPoll
  <1>2. UNCHANGED <<files, handles, skip, input, fatal, asked, expects, owes>>
    BY <1>1 DEF volume, opened, streams, client
  <1>3. WireTyped'
    BY <1>1, <1>2 DEF IInv, WireTyped
  <1>4. WorkInv'
    BY <1>1, <1>2, SameWork DEF IInv
  <1> QED
    BY <1>1, <1>3, <1>4, SameVolume DEF Stepped

(* What is in `out` goes to the client: the oldest request is answered.     *)
LEMMA SendOutputSteps ==
    ASSUME IInv, SendOutput
    PROVE  Stepped
  <1>1. /\ out # <<>> /\ out' = <<>>
        /\ UNCHANGED <<volume, opened>>
        /\ UNCHANGED <<files, handles, readStream, writeStream, resize, skip, input, fatal,
                       budget, owes>>
    BY DEF SendOutput, volume, opened, streams
  <1>2. ~fatal
    BY <1>1 DEF IInv, WorkInv
  <1>3. input \in Seq(FrameType) /\ asked \in Seq(Ids) /\ MaxRead \in Nat
    BY SftpAssumption DEF IInv, WireTyped
  <1>4. ASSUME asked' \in Seq(Ids), expects' \in 0 .. MaxRead
        PROVE  WireTyped'
    BY <1>1, <1>4 DEF IInv, WireTyped
  <1>5. ASSUME NEW r, out = <<r>>
        PROVE  /\ r.kind = "chunk" => expects' = expects - r.n /\ asked' = asked
               /\ r.kind # "chunk" =>
                     asked' = RemoveFirst(asked, r.id) /\ expects' = expects + r.n
    <2>1. Head(out) = r
      BY <1>5
    <2> QED
      BY <2>1 DEF SendOutput
  <1>6. ASSUME NEW r, NEW first, out = <<r>>, r.kind # "chunk", InStep(first, 1), asked[1] = r.id
        PROVE  /\ asked' = Tail(asked) /\ asked' \in Seq(Ids)
               /\ Framed(input', first, owes') /\ Queued(input', asked', 0)
    <2>1. Framed(input, first, owes) /\ Queued(input, asked, 1)
      BY <1>6 DEF InStep
    <2>2. asked # <<>>
      <3>1. PICK pos \in [0 .. Len(input) -> 0 .. Len(asked)] : pos[0] = 1
        BY <2>1 DEF Queued
      <3>2. Len(input) \in Nat /\ Len(asked) \in Nat
        BY <1>3, LenProperties
      <3>3. 1 \in 0 .. Len(asked)
        BY <3>1, <3>2
      <3> QED
        BY <3>2, <3>3
    <2>3. asked' = Tail(asked)
      BY <2>2, <1>3, <1>5, <1>6, OldestAnswered
    <2>4. asked' \in Seq(Ids) /\ Queued(input, asked', 0)
      BY <2>1, <2>2, <2>3, <1>3, QueueAnswered, HeadTailProperties
    <2> QED
      BY <2>1, <2>3, <2>4, <1>1
  <1>7. ASSUME NEW r, Replying(r) PROVE WorkInv' /\ WireTyped'
    <2>1. out = <<r>> /\ r.kind # "chunk" /\ InStep(skip, 1) /\ asked[1] = r.id
          /\ r.n = 0 /\ expects = 0 /\ NoWork
      BY <1>7 DEF Replying
    <2>2. /\ asked' \in Seq(Ids) /\ Framed(input', skip, owes') /\ Queued(input', asked', 0)
      BY <2>1, <1>6
    <2>3. expects' = 0
      BY <2>1, <1>5
    <2>4. AtRest'
      BY <2>1, <2>2, <2>3, <1>1 DEF AtRest, InStep, NoWork
    <2>5. WorkInv'
      BY <2>4, <1>1, <1>2 DEF WorkInv
    <2> QED
      BY <2>2, <2>3, <2>5, <1>3, <1>4
  <1>8. ASSUME NEW r, NEW s, Announcing(r, s) PROVE WorkInv' /\ WireTyped'
    <2>1. out = <<r>> /\ r.kind # "chunk" /\ InStep(0, 1) /\ asked[1] = r.id
          /\ r.n = s.remaining /\ expects = 0 /\ readStream = {s} /\ writeStream = {}
          /\ resize = {} /\ skip = 0 /\ ReadOK(s, DOMAIN handles)
      BY <1>8 DEF Announcing
    <2>2. /\ asked' \in Seq(Ids) /\ Framed(input', 0, owes') /\ Queued(input', asked', 0)
      BY <2>1, <1>6
    <2>3. s.remaining \in 0 .. MaxRead
      BY <2>1, <1>3, SftpAssumption DEF ReadOK
    <2>4. expects' = s.remaining
      BY <2>1, <2>3, <1>5
    <2>5. AtRead(s)'
      BY <2>1, <2>2, <2>4, <1>1 DEF AtRead, InStep
    <2>6. WorkInv'
      BY <2>5, <1>1, <1>2 DEF WorkInv
    <2> QED
      BY <2>2, <2>3, <2>4, <2>6, <1>4
  <1>9. ASSUME NEW r, Delivering(r) PROVE WorkInv' /\ WireTyped'
    <2>1. out = <<r>> /\ r.kind = "chunk" /\ InStep(0, 0) /\ writeStream = {}
          /\ resize = {} /\ skip = 0 /\ r \in ReplyType
      BY <1>9 DEF Delivering
    <2>2. expects' = expects - r.n /\ asked' = asked
      BY <2>1, <1>5
    <2>3. r.n \in Nat
      BY <2>1, SftpAssumption DEF ReplyType
    <2>4. InStep(0, 0)'
      BY <2>1, <2>2, <1>1 DEF InStep
    <2>5. CASE readStream = {} /\ expects = r.n
      <3>1. expects' = 0
        BY <2>2, <2>3, <2>5
      <3>2. AtRest'
        BY <2>1, <2>4, <2>5, <3>1, <1>1 DEF AtRest, NoWork
      <3>3. WorkInv'
        BY <3>2, <1>1, <1>2 DEF WorkInv
      <3> QED
        BY <3>1, <3>3, <2>2, <1>3, <1>4
    <2>6. ASSUME NEW s, readStream = {s}, ReadOK(s, DOMAIN handles), expects = r.n + s.remaining
          PROVE  WorkInv' /\ WireTyped'
      <3>1. s.remaining \in 0 .. MaxRead
        BY <2>6, <1>3, SftpAssumption DEF ReadOK
      <3>2. expects' = s.remaining
        BY <3>1, <2>2, <2>3, <2>6
      <3>3. AtRead(s)'
        BY <2>1, <2>4, <2>6, <3>2, <1>1 DEF AtRead
      <3>4. WorkInv'
        BY <3>3, <1>1, <1>2 DEF WorkInv
      <3> QED
        BY <3>1, <3>2, <3>4, <2>2, <1>3, <1>4
    <2> QED
      BY <2>5, <2>6, <1>9 DEF Delivering
  <1>10. WorkInv' /\ WireTyped'
    <2>1. ~AtRest /\ \A x : ~AtRead(x) /\ ~AtWrite(x) /\ ~AtResize(x)
      BY <1>1 DEF AtRest, AtRead, AtWrite, AtResize
    <2> QED
      BY <2>1, <1>2, <1>7, <1>8, <1>9 DEF IInv, WorkInv
  <1> QED
    BY <1>1, <1>10, SameVolume DEF Stepped

(* The client adds to the input and to the requests it waits for.          *)
LEMMA WorkGoesOn ==
    ASSUME WorkInv, ~fatal, WireTyped,
           UNCHANGED <<files, handles, streams, out, fatal, expects>>,
           NEW frame \in FrameType, input' = Append(input, frame),
           asked' \in Seq(Ids), owes' \in 0 .. Max(Payloads),
           IF frame.kind = "payload" THEN owes = owes' + 1
           ELSE owes = 0 /\ owes' = frame.n,
           IF frame.kind \in {"payload", "broken"} THEN asked' = asked
           ELSE asked' = Append(asked, frame.id) /\ frame.id \in Ids
    PROVE  WorkInv'
  <1>1. /\ UNCHANGED <<files, handles, out, fatal, expects>>
        /\ UNCHANGED <<readStream, writeStream, resize, skip>>
    BY DEF streams
  <1>2. /\ input \in Seq(FrameType) /\ asked \in Seq(Ids) /\ owes \in Nat
        /\ Max(Payloads) \in Nat
    BY MostPayload DEF WireTyped
  <1>3. ASSUME NEW first, NEW taken \in Nat, InStep(first, taken)
        PROVE  /\ Framed(input', first, owes') /\ Queued(input', asked', taken)
               /\ InStep(first, taken)'
    <2>1. Framed(input, first, owes) /\ Queued(input, asked, taken)
      BY <1>3 DEF InStep
    <2>2. Framed(input', first, owes')
      <3>1. PICK next \in 0 .. Max(Payloads) : next = owes'
        OBVIOUS
      <3>2. IF frame.kind = "payload" THEN owes = next + 1 ELSE owes = 0 /\ next = frame.n
        BY <3>1
      <3>3. Framed(Append(input, frame), first, next)
        BY ONLY <3>2, <2>1, <1>2, FramesAppend, frame \in FrameType
      <3> QED
        BY <3>1, <3>3
    <2>3. Queued(input', asked', taken)
      <3>1. PICK longer \in Seq(Ids) : longer = asked'
        OBVIOUS
      <3>2. IF frame.kind \in {"payload", "broken"} THEN longer = asked
            ELSE longer = Append(asked, frame.id) /\ frame.id \in Ids
        BY <3>1
      <3>3. Queued(Append(input, frame), longer, taken)
        BY ONLY <3>2, <2>1, <1>2, QueueAppend, frame \in FrameType, taken \in Nat
      <3> QED
        BY <3>1, <3>3
    <2> QED
      BY <2>2, <2>3 DEF InStep
  <1>4. ASSUME NEW first, NEW r, InStep(first, 1), asked[1] = r.id
        PROVE  asked'[1] = r.id
    <2>1. PICK pos \in [0 .. Len(input) -> 0 .. Len(asked)] : pos[0] = 1
      BY <1>4 DEF InStep, Queued
    <2>2. Len(input) \in Nat /\ Len(asked) \in Nat
      BY <1>2, LenProperties
    <2>3. 1 \in 1 .. Len(asked)
      BY <2>1, <2>2
    <2>4. CASE frame.kind \in {"payload", "broken"}
      BY <2>4, <1>4
    <2>5. CASE ~(frame.kind \in {"payload", "broken"})
      <3>1. asked' = Append(asked, frame.id) /\ frame.id \in Ids
        BY <2>5
      <3>2. asked'[1] = asked[1]
        BY <3>1, <2>3, <1>2, AppendProperties
      <3> QED
        BY <3>2, <1>4
    <2> QED
      BY <2>4, <2>5
  <1>5. CASE AtRest
    BY <1>5, <1>1, <1>3 DEF WorkInv, AtRest, NoWork, InStep
  <1>6. ASSUME NEW s, AtRead(s) PROVE WorkInv'
    <2>1. AtRead(s)'
      BY <1>6, <1>1, <1>3 DEF AtRead
    <2> QED
      BY <2>1, <1>1 DEF WorkInv
  <1>7. ASSUME NEW w, AtWrite(w) PROVE WorkInv'
    <2>1. AtWrite(w)'
      BY <1>7, <1>1, <1>3, <1>4 DEF AtWrite
    <2> QED
      BY <2>1, <1>1 DEF WorkInv
  <1>8. ASSUME NEW j, AtResize(j) PROVE WorkInv'
    <2>1. AtResize(j)'
      BY <1>8, <1>1, <1>3, <1>4 DEF AtResize
    <2> QED
      BY <2>1, <1>1 DEF WorkInv
  <1>9. ASSUME NEW r, Replying(r) PROVE WorkInv'
    <2>1. /\ NoWork /\ out = <<r>> /\ expects = 0 /\ r \in ReplyType /\ r.n = 0
          /\ r.kind \notin {"data", "chunk"}
          /\ Framed(input', skip, owes') /\ Queued(input', asked', 1) /\ asked'[1] = r.id
      BY <1>9, <1>3, <1>4 DEF Replying
    <2>2. Replying(r)'
      BY <2>1, <1>1 DEF Replying, NoWork, InStep
    <2> QED
      BY <2>2, <1>1 DEF WorkInv
  <1>10. ASSUME NEW r, NEW s, Announcing(r, s) PROVE WorkInv'
    <2>1. Announcing(r, s)'
      BY <1>10, <1>1, <1>3, <1>4 DEF Announcing
    <2> QED
      BY <2>1, <1>1 DEF WorkInv
  <1>11. ASSUME NEW r, Delivering(r) PROVE WorkInv'
    <2>1. Delivering(r)'
      BY <1>11, <1>1, <1>3 DEF Delivering
    <2> QED
      BY <2>1, <1>1 DEF WorkInv
  <1> QED
    BY <1>5, <1>6, <1>7, <1>8, <1>9, <1>10, <1>11 DEF WorkInv

(* The input is longer by one.                                             *)
LEMMA LongerInput ==
    ASSUME NEW q \in Seq(FrameType), Len(q) < MaxInput, NEW frame \in FrameType
    PROVE  Append(q, frame) \in Seq(FrameType) /\ Len(Append(q, frame)) <= MaxInput
  <1>1. MaxInput \in Nat /\ Len(q) \in Nat
    BY SftpAssumption, LenProperties
  <1>2. Append(q, frame) \in Seq(FrameType) /\ Len(Append(q, frame)) = Len(q) + 1
    BY AppendProperties
  <1> QED
    BY <1>1, <1>2

(* The client sends the header of a request.                                *)
LEMMA ClientAsksSteps ==
    ASSUME IInv, ClientAsks
    PROVE  Stepped
  <1>1. /\ ~fatal /\ Len(input) < MaxInput /\ owes = 0
        /\ UNCHANGED <<volume, opened, streams, out, fatal, budget, expects>>
        /\ UNCHANGED <<files, handles, skip>>
    BY DEF ClientAsks, HasSpace, volume, opened, streams
  <1>2. PICK kind \in {"request", "write", "oversized", "broken"}, n \in Payloads \cup {0} :
          /\ kind = "request" => n = 0
          /\ kind = "write" => n \in Payloads
          /\ kind = "oversized" => n > 0
          /\ IF kind = "broken"
             THEN /\ n = 0 /\ input' = Append(input, Frame(kind, 0, 0)) /\ UNCHANGED asked
             ELSE /\ Unused # {}
                  /\ input' = Append(input, Frame(kind, Min(Unused), n))
                  /\ asked' = Append(asked, Min(Unused))
          /\ owes' = n
    BY DEF ClientAsks
  <1>3. /\ input \in Seq(FrameType) /\ asked \in Seq(Ids)
        /\ Max(Payloads) \in Nat /\ n \in 0 .. Max(Payloads)
    BY MostPayload DEF IInv, WireTyped
  <1>4. PICK id : id = IF kind = "broken" THEN 0 ELSE Min(Unused)
    OBVIOUS
  <1>5. kind # "broken" => id \in Ids
    <2>1. Unused \in SUBSET Nat /\ Unused \subseteq Ids
      BY SftpAssumption DEF Unused
    <2> QED
      BY <2>1, <1>2, <1>4, MinOfNumbers
  <1>6. PICK frame : frame = Frame(kind, id, n)
    OBVIOUS
  <1>7. frame.kind = kind /\ frame.id = id /\ frame.n = n /\ kind # "payload"
    BY <1>6 DEF Frame
  <1>8. frame \in FrameType
    <2>1. CASE kind = "broken"
      BY <2>1, <1>2, <1>4, <1>6 DEF Frame, FrameType
    <2>2. CASE kind = "request"
      BY <2>2, <1>2, <1>5, <1>6 DEF Frame, FrameType
    <2>3. CASE kind \in {"write", "oversized"}
      <3>1. n \in Payloads /\ id \in Ids
        BY <2>3, <1>2, <1>5
      <3> QED
        BY <2>3, <3>1, <1>6 DEF Frame, FrameType
    <2> QED
      BY <2>1, <2>2, <2>3
  <1>9. input' = Append(input, frame)
    BY <1>2, <1>4, <1>6
  <1>10. IF kind = "broken" THEN asked' = asked ELSE asked' = Append(asked, id)
    BY <1>2, <1>4
  <1>11. asked' \in Seq(Ids)
    BY <1>3, <1>5, <1>10, AppendProperties
  <1>12. input' \in Seq(FrameType) /\ Len(input') <= MaxInput
    BY <1>1, <1>3, <1>8, <1>9, LongerInput
  <1>13. WireTyped'
    BY <1>1, <1>2, <1>3, <1>11, <1>12 DEF IInv, WireTyped
  <1>14. WorkInv'
    <2>1. /\ ~(frame.kind = "payload") /\ owes = 0 /\ owes' = frame.n
          /\ owes' \in 0 .. Max(Payloads)
      BY <1>1, <1>2, <1>3, <1>7
    <2>2. IF frame.kind \in {"payload", "broken"} THEN asked' = asked
          ELSE asked' = Append(asked, frame.id) /\ frame.id \in Ids
      BY <1>5, <1>7, <1>10
    <2> QED
      BY <2>1, <2>2, <1>1, <1>8, <1>9, <1>11, WorkGoesOn DEF IInv
  <1> QED
    BY <1>1, <1>13, <1>14, SameVolume DEF Stepped

(* The client sends a unit of payload it owes.                              *)
LEMMA ClientSendsPayloadSteps ==
    ASSUME IInv, ClientSendsPayload
    PROVE  Stepped
  <1>1. /\ ~fatal /\ Len(input) < MaxInput /\ owes > 0 /\ owes' = owes - 1
        /\ input' = Append(input, Payload)
        /\ UNCHANGED <<volume, opened, streams, out, fatal, budget, asked, expects>>
        /\ UNCHANGED <<files, handles, skip>>
    BY DEF ClientSendsPayload, HasSpace, volume, opened, streams
  <1>2. /\ input \in Seq(FrameType) /\ asked \in Seq(Ids)
        /\ owes \in 0 .. Max(Payloads) /\ Max(Payloads) \in Nat
    BY MostPayload DEF IInv, WireTyped
  <1>3. Payload \in FrameType /\ Payload.kind = "payload"
    BY DEF Payload, Frame, FrameType
  <1>4. owes' \in 0 .. Max(Payloads) /\ owes = owes' + 1
    BY <1>1, <1>2
  <1>5. input' \in Seq(FrameType) /\ Len(input') <= MaxInput
    BY <1>1, <1>2, <1>3, LongerInput
  <1>6. WireTyped'
    BY <1>1, <1>4, <1>5 DEF IInv, WireTyped
  <1>7. WorkInv'
    <2>1. PICK frame \in FrameType : frame = Payload
      BY <1>3
    <2>2. /\ input' = Append(input, frame) /\ frame.kind = "payload"
          /\ asked' = asked /\ asked' \in Seq(Ids)
      BY <2>1, <1>1, <1>2, <1>3
    <2> QED
      BY <2>2, <1>1, <1>4, WorkGoesOn DEF IInv
  <1> QED
    BY <1>1, <1>6, <1>7, SameVolume DEF Stepped

(* A new session: nothing is open, asked or under way.                     *)
Fresh ==
    /\ DOMAIN handles = {} /\ dirHandles = {}
    /\ generation = 0 /\ tokens = [s \in Slots |-> 0]
    /\ readStream = {} /\ writeStream = {} /\ resize = {} /\ skip = 0
    /\ input = <<>> /\ out = <<>> /\ fatal = FALSE /\ budget = TRUE
    /\ asked = <<>> /\ expects = 0 /\ owes = 0

(* A new session has the invariant.                                         *)
LEMMA FreshStarts ==
    ASSUME Fresh
    PROVE  OpenedInv /\ WireTyped /\ WorkInv
  <1>1. MaxOpens \in Nat /\ Max(Payloads) \in Nat /\ MaxRead \in Nat /\ MaxInput \in Nat
    BY SftpAssumption, MostPayload
  <1>2. OpenedInv
    BY <1>1 DEF Fresh, OpenedInv, HandlesTyped
  <1>3. WireTyped
    <2>1. input \in Seq(FrameType) /\ asked \in Seq(Ids) /\ Len(input) = 0
      BY DEF Fresh
    <2>2. fatal \in BOOLEAN /\ budget \in BOOLEAN
      BY DEF Fresh
    <2>3. expects = 0 /\ owes = 0 /\ skip = 0
      BY DEF Fresh
    <2> QED
      BY <1>1, <2>1, <2>2, <2>3 DEF WireTyped
  <1>4. AtRest
    BY FramesEmpty, QueueEmpty DEF Fresh, AtRest, NoWork, InStep
  <1>5. WorkInv
    BY <1>4 DEF Fresh, WorkInv
  <1> QED
    BY <1>2, <1>3, <1>5

(* A session ends and the next one begins, on the same volume.              *)
LEMMA NewSessionSteps ==
    ASSUME IInv, NewSession
    PROVE  Stepped
  <1>1. Fresh'
    BY DEF NewSession, Fresh
  <1>2. OpenedInv' /\ WireTyped' /\ WorkInv'
    <2>1. MaxOpens \in Nat /\ Max(Payloads) \in Nat /\ MaxRead \in Nat /\ MaxInput \in Nat
      BY SftpAssumption, MostPayload
    <2>2. OpenedInv'
      BY <1>1, <2>1 DEF Fresh, OpenedInv, HandlesTyped
    <2>3. WireTyped'
      <3>1. input' \in Seq(FrameType) /\ asked' \in Seq(Ids) /\ Len(input') = 0
        BY <1>1 DEF Fresh
      <3>2. fatal' \in BOOLEAN /\ budget' \in BOOLEAN
        BY <1>1 DEF Fresh
      <3>3. expects' = 0 /\ owes' = 0 /\ skip' = 0
        BY <1>1 DEF Fresh
      <3> QED
        BY <2>1, <3>1, <3>2, <3>3 DEF WireTyped
    <2>4. AtRest'
      BY <1>1, FramesEmpty, QueueEmpty DEF Fresh, AtRest, NoWork, InStep
    <2>5. WorkInv'
      BY <1>1, <2>4 DEF Fresh, WorkInv
    <2> QED
      BY <2>2, <2>3, <2>5
  <1>3. UNCHANGED <<files, folders>>
    BY DEF NewSession, volume
  <1>4. VolumeInv' /\ KeepsReadOnly
    BY <1>3, SameFiles DEF IInv, VolumeInv
  <1>5. KeepsInvalid
    BY <1>1 DEF Fresh, KeepsInvalid, Valid, OpenSlots
  <1> QED
    BY <1>2, <1>4, <1>5 DEF Stepped

(* Nothing happens.                                                         *)
LEMMA NothingSteps ==
    ASSUME IInv, UNCHANGED vars
    PROVE  Stepped
  <1>1. /\ UNCHANGED <<volume, opened, streams, input, out, fatal, budget, client>>
        /\ UNCHANGED <<files, handles, skip, asked, expects, owes>>
    BY DEF vars, volume, opened, streams, client
  <1>2. WireTyped'
    BY <1>1 DEF IInv, WireTyped
  <1>3. WorkInv'
    BY <1>1, SameWork DEF IInv
  <1> QED
    BY <1>1, <1>2, <1>3, SameVolume DEF Stepped

(* Whatever happens.                                                        *)
LEMMA EveryStep ==
    ASSUME IInv, [Next]_vars
    PROVE  Stepped
  BY ServerSteps, BeginPollSteps, SendOutputSteps, ClientAsksSteps, ClientSendsPayloadSteps,
     NewSessionSteps, NothingSteps DEF Next, ClientLeaves, SessionDropped

(* The initial states.                                                      *)
LEMMA Starts ==
    ASSUME Init
    PROVE  IInv
  <1>1. Fresh
    BY DEF Init, Fresh
  <1>2. VolumeInv
    BY DEF Init, VolumeInv, FilesTyped
  <1> QED
    BY <1>1, <1>2, FreshStarts DEF IInv

(* The invariant holds in every state of every session.                     *)
THEOREM Kept == Spec => []IInv
  <1>1. Init => IInv
    BY Starts
  <1>2. IInv /\ [Next]_vars => IInv'
    BY EveryStep DEF Stepped, IInv
  <1> QED
    BY <1>1, <1>2, PTL DEF Spec

(* A token becomes valid only when `allocate` gives it out for the first    *)
(* time in the session: whatever is opened and closed in between, the handle*)
(* of a closed file is never taken for a later one.                         *)
THEOREM HandlesAreNew == Spec => TokensAreNew
  <1>1. IInv /\ [Next]_vars => [\A t \in Presented : ~Valid(t) => ~Valid(t)']_vars
    BY EveryStep DEF Stepped, KeepsInvalid
  <1> QED
    BY <1>1, Kept, PTL DEF Spec, TokensAreNew

(* No step changes or drops what a read-only file says: not a request, not a*)
(* chunk of a WRITE begun before the file became read-only, not a SETSTAT   *)
(* that had started to grow it.                                             *)
THEOREM ReadOnlyFilesStay == Spec => ReadOnlyIsKept
  <1>1. IInv /\ [Next]_vars =>
          [\A n \in DOMAIN files : files[n].readonly =>
              \E m \in DOMAIN files' :
                 files'[m].data = files[n].data /\ (m = n \/ n \notin DOMAIN files')]_vars
    BY EveryStep DEF Stepped, KeepsReadOnly
  <1> QED
    BY <1>1, Kept, PTL DEF Spec, ReadOnlyIsKept

(* What the modes say of the pieces of work.                               *)
LEMMA PiecesOfWork ==
    ASSUME IInv
    PROVE  /\ out = <<>> \/ \E r \in ReplyType : out = <<r>>
           /\ \/ NoWork
              \/ /\ \E s : readStream = {s} /\ ReadOK(s, DOMAIN handles)
                 /\ writeStream = {} /\ resize = {} /\ skip = 0
              \/ /\ \E w : writeStream = {w} /\ WriteOK(w, DOMAIN handles)
                 /\ readStream = {} /\ resize = {} /\ skip = 0
              \/ /\ \E j : resize = {j} /\ JobOK(j, files)
                 /\ readStream = {} /\ writeStream = {} /\ skip = 0
           /\ FramesInStep
  <1>1. CASE fatal
    BY <1>1 DEF IInv, WorkInv, FramesInStep
  <1>2. CASE AtRest
    BY <1>2 DEF AtRest, NoWork, FramesInStep, Pending, InStep
  <1>3. ASSUME NEW s, AtRead(s)
        PROVE  /\ readStream = {s} /\ ReadOK(s, DOMAIN handles) /\ writeStream = {}
               /\ resize = {} /\ skip = 0 /\ out = <<>> /\ FramesInStep
    BY <1>3 DEF AtRead, FramesInStep, Pending, InStep
  <1>4. ASSUME NEW w, AtWrite(w)
        PROVE  /\ writeStream = {w} /\ WriteOK(w, DOMAIN handles) /\ readStream = {}
               /\ resize = {} /\ skip = 0 /\ out = <<>> /\ FramesInStep
    <2>1. (CHOOSE v \in writeStream : TRUE) = w /\ writeStream # {}
      BY <1>4 DEF AtWrite
    <2> QED
      BY <2>1, <1>4 DEF AtWrite, FramesInStep, Pending, InStep
  <1>5. ASSUME NEW j, AtResize(j)
        PROVE  /\ resize = {j} /\ JobOK(j, files) /\ readStream = {}
               /\ writeStream = {} /\ skip = 0 /\ out = <<>> /\ FramesInStep
    BY <1>5 DEF AtResize, FramesInStep, Pending, InStep
  <1>6. ASSUME NEW r, Replying(r)
        PROVE  NoWork /\ r \in ReplyType /\ out = <<r>> /\ FramesInStep
    BY <1>6 DEF Replying, NoWork, FramesInStep, Pending, InStep
  <1>7. ASSUME NEW r, NEW s, Announcing(r, s)
        PROVE  /\ readStream = {s} /\ ReadOK(s, DOMAIN handles) /\ writeStream = {}
               /\ resize = {} /\ skip = 0 /\ r \in ReplyType /\ out = <<r>> /\ FramesInStep
    BY <1>7 DEF Announcing, FramesInStep, Pending, InStep
  <1>8. ASSUME NEW r, Delivering(r)
        PROVE  /\ \/ NoWork
                  \/ /\ \E s : readStream = {s} /\ ReadOK(s, DOMAIN handles)
                     /\ writeStream = {} /\ resize = {} /\ skip = 0
               /\ r \in ReplyType /\ out = <<r>> /\ FramesInStep
    BY <1>8 DEF Delivering, NoWork, FramesInStep, Pending, InStep
  <1> QED
    BY <1>1, <1>2, <1>3, <1>4, <1>5, <1>6, <1>7, <1>8 DEF IInv, WorkInv

(* One piece of work is pending, through a handle that is open.             *)
LEMMA OnePiece ==
    ASSUME IInv
    PROVE  OneWorkAtATime
  <1>1. Cardinality({}) = 0 /\ \A x : Cardinality({x}) = 1
    BY FS_EmptySet, FS_Singleton
  <1>2. CASE NoWork
    <2>1. /\ Cardinality(readStream) = 0 /\ Cardinality(writeStream) = 0
          /\ Cardinality(resize) = 0 /\ readStream = {} /\ writeStream = {}
      BY <1>1, <1>2 DEF NoWork
    <2> QED
      BY ONLY <2>1 DEF OneWorkAtATime
  <1>3. ASSUME NEW s, readStream = {s}, ReadOK(s, DOMAIN handles),
               writeStream = {}, resize = {}, skip = 0
        PROVE  OneWorkAtATime
    <2>1. /\ Cardinality(readStream) = 1 /\ Cardinality(writeStream) = 0
          /\ Cardinality(resize) = 0 /\ ~(skip > 0)
      <3>1. readStream = {s} /\ writeStream = {} /\ resize = {} /\ skip = 0
        BY <1>3
      <3>2. /\ Cardinality(readStream) = 1 /\ Cardinality(writeStream) = 0
            /\ Cardinality(resize) = 0
        BY ONLY <1>1, <3>1, Zenon
      <3> QED
        BY ONLY <3>1, <3>2
    <2>2. s.slot \in DOMAIN handles
      BY <1>3 DEF ReadOK
    <2> QED
      BY ONLY <2>1, <2>2, <1>3 DEF OneWorkAtATime
  <1>4. ASSUME NEW w, writeStream = {w}, WriteOK(w, DOMAIN handles),
               readStream = {}, resize = {}, skip = 0
        PROVE  OneWorkAtATime
    <2>1. /\ Cardinality(readStream) = 0 /\ Cardinality(writeStream) = 1
          /\ Cardinality(resize) = 0 /\ ~(skip > 0)
      <3>1. writeStream = {w} /\ readStream = {} /\ resize = {} /\ skip = 0
        BY <1>4
      <3>2. /\ Cardinality(writeStream) = 1 /\ Cardinality(readStream) = 0
            /\ Cardinality(resize) = 0
        BY ONLY <1>1, <3>1, Zenon
      <3> QED
        BY ONLY <3>1, <3>2
    <2>2. w.failed \/ w.slot \in DOMAIN handles
      BY <1>4 DEF WriteOK
    <2>3. \A v \in writeStream : v.failed \/ v.slot \in DOMAIN handles
      BY <2>2, <1>4
    <2>4. \A v \in readStream : v.slot \in DOMAIN handles
      BY <1>4
    <2>5. Cardinality(readStream) + Cardinality(writeStream) + Cardinality(resize)
            + (IF skip > 0 THEN 1 ELSE 0) <= 1
      BY ONLY <2>1
    <2> QED
      BY ONLY <2>3, <2>4, <2>5 DEF OneWorkAtATime
  <1>5. ASSUME NEW j, resize = {j}, readStream = {}, writeStream = {}, skip = 0
        PROVE  OneWorkAtATime
    <2>1. /\ Cardinality(readStream) = 0 /\ Cardinality(writeStream) = 0
          /\ Cardinality(resize) = 1 /\ ~(skip > 0)
      BY <1>1, <1>5
    <2> QED
      BY ONLY <2>1, <1>5 DEF OneWorkAtATime
  <1> QED
    BY <1>2, <1>3, <1>4, <1>5, PiecesOfWork

(* The invariant gives the types.                                           *)
LEMMA Types ==
    ASSUME IInv
    PROVE  TypeOK
  <1>1. VolumeInv /\ OpenedInv /\ WireTyped /\ OneWorkAtATime
    BY OnePiece DEF IInv
  <1>2. generation \in 0 .. MaxOpens /\ tokens \in [Slots -> 0 .. MaxOpens]
    <2>1. MaxOpens \in Nat /\ generation \in 0 .. MaxOpens
      BY <1>1, SftpAssumption DEF OpenedInv
    <2>2. 0 .. generation \subseteq 0 .. MaxOpens
      BY <2>1
    <2> QED
      BY <1>1, <2>1, <2>2 DEF OpenedInv
  <1>3. out \in Seq(ReplyType) /\ Len(out) <= 1
    <2>1. CASE out = <<>>
      BY <2>1
    <2>2. ASSUME NEW r \in ReplyType, out = <<r>>
          PROVE  out \in Seq(ReplyType) /\ Len(out) <= 1
      BY <2>2
    <2> QED
      BY <2>1, <2>2, PiecesOfWork
  <1>4. \A S : {} \in Optional(S) /\ \A x \in S : {x} \in Optional(S)
    BY DEF Optional
  <1>5. readStream \in Optional([slot : Slots, offset : 0 .. MaxSize,
                                 remaining : 1 .. MaxSize])
    <2>1. CASE readStream = {}
      BY <2>1, <1>4
    <2>2. ASSUME NEW s, readStream = {s}, ReadOK(s, DOMAIN handles)
          PROVE  readStream \in Optional([slot : Slots, offset : 0 .. MaxSize,
                                          remaining : 1 .. MaxSize])
      BY <2>2, <1>4 DEF ReadOK
    <2> QED
      BY <2>1, <2>2, PiecesOfWork DEF NoWork
  <1>6. writeStream \in Optional([id : Ids, slot : Slots, remaining : 0 .. Max(Payloads),
                                  offset : 0 .. MaxSize, failed : BOOLEAN])
    <2>1. CASE writeStream = {}
      BY <2>1, <1>4
    <2>2. ASSUME NEW w, writeStream = {w}, WriteOK(w, DOMAIN handles)
          PROVE  writeStream \in Optional([id : Ids, slot : Slots,
                                           remaining : 0 .. Max(Payloads),
                                           offset : 0 .. MaxSize, failed : BOOLEAN])
      BY <2>2, <1>4 DEF WriteOK
    <2> QED
      BY <2>1, <2>2, PiecesOfWork DEF NoWork
  <1>7. resize \subseteq JobType
    BY PiecesOfWork DEF NoWork, JobOK
  <1> QED
    BY <1>1, <1>2, <1>3, <1>5, <1>6, <1>7
    DEF VolumeInv, OpenedInv, WireTyped, FilesTyped, HandlesTyped, TypeOK

(* Every variable keeps its type, and one piece of work is pending at most, *)
(* through a handle that is still open.                                     *)
THEOREM TypesHold == Spec => []TypeOK
  <1>1. IInv => TypeOK
    BY Types
  <1> QED
    BY <1>1, Kept, PTL

(* What the client still has to send is what the pending WRITE, the skipped *)
(* request and the headers in the input call for: the server never takes    *)
(* payload for a request, nor a request for payload.                        *)
THEOREM NeverLosesCount == Spec => []FramesInStep
  <1>1. IInv => FramesInStep
    BY PiecesOfWork
  <1> QED
    BY <1>1, Kept, PTL

-----------------------------------------------------------------------------
(* The service.                                                            *)

(* What the client gets is an answer or a part of one.                      *)
LEMMA SentServes ==
    ASSUME IInv, SendOutput
    PROVE  Service!Answer \/ Service!Deliver
  <1>1. out # <<>> /\ asked \in Seq(Ids) /\ MaxRead \in Nat /\ input \in Seq(FrameType)
    BY SftpAssumption DEF SendOutput, IInv, WireTyped
  <1>2. ASSUME NEW r, out = <<r>>
        PROVE  /\ r.kind = "chunk" => expects' = expects - r.n /\ asked' = asked
               /\ r.kind # "chunk" =>
                     asked' = RemoveFirst(asked, r.id) /\ expects' = expects + r.n
    <2>1. Head(out) = r
      BY <1>2
    <2> QED
      BY <2>1 DEF SendOutput
  <1>3. ASSUME NEW r, NEW first, out = <<r>>, r.kind # "chunk", expects = 0,
               r.n \in 0 .. MaxRead, InStep(first, 1), asked[1] = r.id
        PROVE  Service!Answer
    <2>1. PICK pos \in [0 .. Len(input) -> 0 .. Len(asked)] : pos[0] = 1
      BY <1>3 DEF InStep, Queued
    <2>2. asked # <<>>
      <3>1. Len(input) \in Nat /\ Len(asked) \in Nat
        BY <1>1, LenProperties
      <3>2. 1 \in 0 .. Len(asked)
        BY <2>1, <3>1
      <3> QED
        BY <3>1, <3>2
    <2>3. asked' = Tail(asked)
      BY <2>2, <1>1, <1>2, <1>3, OldestAnswered
    <2>4. expects' = r.n
      BY <1>1, <1>2, <1>3
    <2> QED
      BY <2>2, <2>3, <2>4, <1>3 DEF Service!Answer
  <1>4. ASSUME NEW r, Replying(r) PROVE Service!Answer
    <2>1. out = <<r>> /\ r.kind # "chunk" /\ InStep(skip, 1) /\ asked[1] = r.id
          /\ expects = 0 /\ r.n \in 0 .. MaxRead
      BY <1>1, <1>4 DEF Replying
    <2> QED
      BY <2>1, <1>3
  <1>5. ASSUME NEW r, NEW s, Announcing(r, s) PROVE Service!Answer
    <2>1. out = <<r>> /\ r.kind # "chunk" /\ InStep(0, 1) /\ asked[1] = r.id
          /\ expects = 0 /\ r.n \in 0 .. MaxRead
      BY <1>1, <1>5, SftpAssumption DEF Announcing, ReadOK
    <2> QED
      BY <2>1, <1>3
  <1>6. ASSUME NEW r, Delivering(r) PROVE Service!Deliver
    <2>1. out = <<r>> /\ r.kind = "chunk" /\ r.n \in 1 .. MaxRead
      BY <1>6 DEF Delivering, ReplyType
    <2>2. \E k \in Nat : expects = r.n + k
      <3>1. CASE readStream = {} /\ expects = r.n
        BY <3>1, <2>1
      <3>2. ASSUME NEW s, ReadOK(s, DOMAIN handles), expects = r.n + s.remaining
            PROVE  \E k \in Nat : expects = r.n + k
        BY <3>2, SftpAssumption DEF ReadOK
      <3> QED
        BY <3>1, <3>2, <1>6 DEF Delivering
    <2>3. expects' = expects - r.n /\ asked' = asked
      BY <2>1, <1>2
    <2>4. expects' \in 0 .. expects /\ expects' # expects
      BY <2>1, <2>2, <2>3, <1>1
    <2> QED
      BY <2>3, <2>4 DEF Service!Deliver
  <1>7. ~fatal
    BY <1>1 DEF IInv, WorkInv
  <1>8. ~AtRest /\ \A x : ~AtRead(x) /\ ~AtWrite(x) /\ ~AtResize(x)
    BY <1>1 DEF AtRest, AtRead, AtWrite, AtResize
  <1> QED
    BY <1>4, <1>5, <1>6, <1>7, <1>8 DEF IInv, WorkInv

(* The server is a service as SftpService asks: one reply per request, in   *)
(* order, and every unit a DATA reply announced before the next reply.      *)
THEOREM KeepsTheProtocol == Spec => ImplementsService
  <1>1. Init => Service!Init
    BY DEF Init, Service!Init
  <1>2. IInv /\ [Next]_vars => [Service!Next]_(Service!serviceVars)
    <2> SUFFICES ASSUME IInv, [Next]_vars
                 PROVE  Service!Next \/ UNCHANGED <<asked, expects>>
      BY DEF Service!serviceVars
    <2>1. CASE Step \/ BeginPoll \/ ClientSendsPayload \/ UNCHANGED vars
      BY <2>1 DEF Step, BeginPoll, ClientSendsPayload, vars, client
    <2>2. CASE SendOutput
      BY <2>2, SentServes DEF Service!Next
    <2>3. CASE ClientAsks
      <3>1. UNCHANGED <<asked, expects>> \/
            (Unused # {} /\ asked' = Append(asked, Min(Unused)) /\ expects' = expects)
        BY <2>3 DEF ClientAsks
      <3>2. Unused # {} => Min(Unused) \in Ids
        <4>1. Unused \in SUBSET Nat /\ Unused \subseteq Ids
          BY SftpAssumption DEF Unused
        <4> QED
          BY <4>1, MinOfNumbers
      <3> QED
        BY <3>1, <3>2 DEF Service!Next, Service!Ask
    <2>4. CASE ClientLeaves \/ SessionDropped
      BY <2>4 DEF ClientLeaves, SessionDropped, NewSession, Service!Next, Service!HangUp
    <2> QED
      BY <2>1, <2>2, <2>3, <2>4 DEF Next
  <1> QED
    BY <1>1, <1>2, Kept, PTL DEF Spec, ImplementsService, Service!Spec

-----------------------------------------------------------------------------
(* What an OK is worth.                                                    *)

(* `longer` is `data` with zeros behind it.                                *)
Padded(data, longer) ==
    /\ Len(data) <= Len(longer)
    /\ \A i \in 1 .. Len(longer) :
          longer[i] = IF i <= Len(data) THEN data[i] ELSE Zero

(* Contents are what their units are.                                      *)
LEMMA SameContents ==
    ASSUME NEW a \in Contents, NEW b \in Contents, Len(a) = Len(b),
           \A i \in 1 .. Len(a) : a[i] = b[i]
    PROVE  a = b
  BY SeqEqual DEF Contents

(* Nothing was to be padded.                                               *)
LEMMA PaddedFully ==
    ASSUME NEW a \in Contents, NEW b \in Contents, Padded(a, b), Len(a) >= Len(b)
    PROVE  a = b
  <1>1. Len(a) \in Nat /\ Len(b) \in Nat
    BY LenProperties DEF Contents
  <1>2. Len(a) = Len(b) /\ \A i \in 1 .. Len(a) : a[i] = b[i]
    BY <1>1 DEF Padded
  <1> QED
    BY <1>2, SameContents

(* Zeros written at the end of a file.                                     *)
LEMMA ZerosAtEnd ==
    ASSUME NEW a \in Contents, NEW k \in Nat
    PROVE  LET b == Overlay(a, Len(a), Zeros(k))
           IN  /\ b \in Contents /\ Len(b) = Len(a) + k
               /\ \A i \in 1 .. Len(b) : b[i] = IF i <= Len(a) THEN a[i] ELSE Zero
  <1> DEFINE z == Zeros(k)  b == Overlay(a, Len(a), z)
  <1>1. Len(a) \in Nat
    BY LenProperties DEF Contents
  <1>2. z \in Contents /\ Len(z) = k /\ \A i \in 1 .. k : z[i] = Zero
    BY ZerosAre
  <1> HIDE DEF z
  <1>3. /\ b \in Contents
        /\ Len(b) = IF Len(a) <= Len(a) + Len(z) THEN Len(a) + Len(z) ELSE Len(a)
        /\ \A i \in 1 .. Len(b) :
              b[i] = IF i > Len(a) /\ i <= Len(a) + Len(z) THEN z[i - Len(a)]
                     ELSE IF i <= Len(a) THEN a[i] ELSE Zero
    BY <1>1, <1>2, OverlayIs
  <1> HIDE DEF b
  <1>4. Len(b) = Len(a) + k
    BY ONLY <1>1, <1>2, <1>3, k \in Nat
  <1>5. ASSUME NEW i \in 1 .. Len(b)
        PROVE  b[i] = IF i <= Len(a) THEN a[i] ELSE Zero
    <2>1. CASE i <= Len(a)
      BY ONLY <2>1, <1>1, <1>3, i \in 1 .. Len(b)
    <2>2. CASE ~(i <= Len(a))
      <3>1. i > Len(a) /\ i <= Len(a) + Len(z) /\ i - Len(a) \in 1 .. k
        BY ONLY <2>2, <1>1, <1>2, <1>4, k \in Nat, i \in 1 .. Len(b)
      <3>2. b[i] = z[i - Len(a)] /\ z[i - Len(a)] = Zero
        BY ONLY <3>1, <1>2, <1>3, i \in 1 .. Len(b)
      <3> QED
        BY ONLY <2>2, <3>2
    <2> QED
      BY <2>1, <2>2
  <1> QED
    BY <1>3, <1>4, <1>5 DEF b, z

(* Zeros bring a file nearer to the one it is to become, or take it as far *)
(* as it was to go.                                                        *)
LEMMA PaddedNearer ==
    ASSUME NEW a \in Contents, NEW b \in Contents, Padded(a, b),
           NEW k \in Nat, Len(a) + k <= Len(b)
    PROVE  Padded(Overlay(a, Len(a), Zeros(k)), b)
  <1>1. PICK c : c = Overlay(a, Len(a), Zeros(k))
    OBVIOUS
  <1>2. /\ c \in Contents /\ Len(c) = Len(a) + k
        /\ \A i \in 1 .. Len(c) : c[i] = IF i <= Len(a) THEN a[i] ELSE Zero
    BY <1>1, ZerosAtEnd
  <1>3. Len(a) \in Nat /\ Len(b) \in Nat
    BY LenProperties DEF Contents
  <1>4. /\ Len(a) <= Len(b)
        /\ \A i \in 1 .. Len(b) : b[i] = IF i <= Len(a) THEN a[i] ELSE Zero
    BY DEF Padded
  <1>5. ASSUME NEW i \in 1 .. Len(b)
        PROVE  b[i] = IF i <= Len(c) THEN c[i] ELSE Zero
    <2>1. CASE i <= Len(c)
      <3>1. i \in 1 .. Len(c)
        BY ONLY <2>1, <1>2, <1>3, i \in 1 .. Len(b), k \in Nat
      <3> QED
        BY ONLY <2>1, <3>1, <1>2, <1>4, i \in 1 .. Len(b)
    <2>2. CASE ~(i <= Len(c))
      <3>1. ~(i <= Len(a))
        BY ONLY <2>2, <1>2, <1>3, i \in 1 .. Len(b), k \in Nat
      <3> QED
        BY ONLY <2>2, <3>1, <1>4, i \in 1 .. Len(b)
    <2> QED
      BY <2>1, <2>2
  <1>6. Len(c) <= Len(b)
    BY <1>2
  <1>7. Padded(c, b)
    BY ONLY <1>5, <1>6 DEF Padded
  <1> QED
    BY <1>1, <1>7

(* A gap is filled further.                                                *)
LEMMA PaddedFurther ==
    ASSUME NEW a \in Contents, NEW b \in Contents, Padded(a, b), NEW k \in Nat
    PROVE  Padded(a, Overlay(b, Len(b), Zeros(k)))
  <1>1. PICK c : c = Overlay(b, Len(b), Zeros(k))
    OBVIOUS
  <1>2. /\ c \in Contents /\ Len(c) = Len(b) + k
        /\ \A i \in 1 .. Len(c) : c[i] = IF i <= Len(b) THEN b[i] ELSE Zero
    BY <1>1, ZerosAtEnd
  <1>3. Len(a) \in Nat /\ Len(b) \in Nat
    BY LenProperties DEF Contents
  <1>4. /\ Len(a) <= Len(b)
        /\ \A i \in 1 .. Len(b) : b[i] = IF i <= Len(a) THEN a[i] ELSE Zero
    BY DEF Padded
  <1>5. ASSUME NEW i \in 1 .. Len(c)
        PROVE  c[i] = IF i <= Len(a) THEN a[i] ELSE Zero
    <2>1. CASE i <= Len(b)
      <3>1. i \in 1 .. Len(b)
        BY ONLY <2>1, <1>2, <1>3, i \in 1 .. Len(c), k \in Nat
      <3> QED
        BY ONLY <2>1, <3>1, <1>2, <1>4, i \in 1 .. Len(c)
    <2>2. CASE ~(i <= Len(b))
      <3>1. ~(i <= Len(a))
        BY ONLY <2>2, <1>2, <1>3, <1>4, i \in 1 .. Len(c), k \in Nat
      <3> QED
        BY ONLY <2>2, <3>1, <1>2, i \in 1 .. Len(c)
    <2> QED
      BY <2>1, <2>2
  <1>6. Len(a) <= Len(c)
    BY ONLY <1>2, <1>3, <1>4, k \in Nat
  <1>7. Padded(a, c)
    BY ONLY <1>5, <1>6 DEF Padded
  <1> QED
    BY <1>1, <1>7

(* What is written behind a filled gap is what was to be written there.    *)
LEMMA GapFilled ==
    ASSUME NEW a \in Contents, NEW b \in Contents, Padded(a, b), NEW units \in Contents
    PROVE  Overlay(a, Len(b), units) = Overlay(b, Len(b), units)
  <1>1. PICK at : at = Len(b)
    OBVIOUS
  <1>2. PICK c : c = Overlay(a, at, units)
    OBVIOUS
  <1>3. PICK d : d = Overlay(b, at, units)
    OBVIOUS
  <1>4. at \in Nat /\ Len(a) \in Nat /\ Len(b) \in Nat /\ Len(units) \in Nat
    BY <1>1, LenProperties DEF Contents
  <1>5. /\ c \in Contents
        /\ Len(c) = IF Len(a) <= at + Len(units) THEN at + Len(units) ELSE Len(a)
        /\ \A i \in 1 .. Len(c) :
              c[i] = IF i > at /\ i <= at + Len(units) THEN units[i - at]
                     ELSE IF i <= Len(a) THEN a[i] ELSE Zero
    BY <1>2, <1>4, OverlayIs
  <1>6. /\ d \in Contents
        /\ Len(d) = IF Len(b) <= at + Len(units) THEN at + Len(units) ELSE Len(b)
        /\ \A i \in 1 .. Len(d) :
              d[i] = IF i > at /\ i <= at + Len(units) THEN units[i - at]
                     ELSE IF i <= Len(b) THEN b[i] ELSE Zero
    BY <1>3, <1>4, OverlayIs
  <1>7. /\ Len(a) <= Len(b)
        /\ \A i \in 1 .. Len(b) : b[i] = IF i <= Len(a) THEN a[i] ELSE Zero
    BY DEF Padded
  <1>8. Len(c) = at + Len(units) /\ Len(d) = at + Len(units)
    BY ONLY <1>1, <1>4, <1>5, <1>6, <1>7
  <1>9. ASSUME NEW i \in 1 .. Len(c) PROVE c[i] = d[i]
    <2>1. i \in 1 .. Len(d)
      BY ONLY <1>8, i \in 1 .. Len(c)
    <2>2. CASE i > at
      BY ONLY <2>1, <2>2, <1>4, <1>5, <1>6, <1>8, i \in 1 .. Len(c)
    <2>3. CASE ~(i > at)
      <3>1. i \in 1 .. Len(b) /\ i <= Len(b)
        BY ONLY <2>3, <1>1, <1>4, <1>8, i \in 1 .. Len(c)
      <3>2. d[i] = b[i]
        BY ONLY <2>1, <2>3, <3>1, <1>6
      <3>3. c[i] = IF i <= Len(a) THEN a[i] ELSE Zero
        BY ONLY <2>3, <1>5, i \in 1 .. Len(c)
      <3> QED
        BY ONLY <3>1, <3>2, <3>3, <1>7
    <2> QED
      BY <2>2, <2>3
  <1>10. c = d
    BY <1>5, <1>6, <1>8, <1>9, SameContents
  <1> QED
    BY <1>1, <1>2, <1>3, <1>10

(* What is asked of a file that a WRITE or a growing SETSTAT is at work on. *)
(* The file agrees with it, but for a gap that is being filled and for the  *)
(* zeros a SETSTAT has not yet added.                                       *)
Goals == [name : Names, at : Nat, data : Contents]
AsAsked(g) == g.name \in DOMAIN files /\ files[g.name].data = g.data

WriteAims(w, g) ==
    /\ ~w.failed /\ g.name = handles[w.slot].name /\ g.name \in DOMAIN files
    /\ IF handles[w.slot].appends
       THEN g.at = Len(g.data) /\ files[g.name].data = g.data
       ELSE /\ g.at = w.offset
            /\ \/ files[g.name].data = g.data
               \/ /\ Padded(g.data, files[g.name].data)
                  /\ Len(files[g.name].data) <= g.at
                  /\ w.remaining > 0

ResizeAims(j, g) ==
    /\ g.name = j.file.name /\ g.name \in DOMAIN files
    /\ Len(g.data) = j.size /\ Padded(files[g.name].data, g.data)

Aims(g) ==
    /\ g \in Goals
    /\ \A w \in writeStream : WriteAims(w, g)
    /\ \A j \in resize : ResizeAims(j, g)
    /\ (out # <<>> /\ Head(out).kind = "ok") => AsAsked(g)

GoalInv == \A g \in goal : Aims(g)

(* Nothing is asked of a file.                                              *)
LEMMA NoGoal ==
    ASSUME goal' = {}
    PROVE  GoalInv'
  BY DEF GoalInv

(* Nothing of what counts for the goal changes.                             *)
LEMMA SameGoal ==
    ASSUME GoalInv, UNCHANGED <<goal, files, handles, writeStream, resize, out>>
    PROVE  GoalInv'
  <1>1. ASSUME NEW g \in goal PROVE Aims(g)'
    <2>1. Aims(g)
      BY DEF GoalInv
    <2> QED
      BY <2>1 DEF Aims, WriteAims, ResizeAims, AsAsked
  <1> QED
    BY <1>1 DEF GoalInv

(* A file is itself with no zeros behind it.                                *)
LEMMA GapOrNot ==
    ASSUME NEW f \in Contents
    PROVE  Padded(f, f)
  BY LenProperties DEF Padded, Contents

(* A SETSTAT that begins to grow a file asks for zeros up to the new size.  *)
LEMMA StartResizeAims ==
    ASSUME IInv, NEW id, NEW n \in DOMAIN files,
           NEW k \in 0 .. MaxSize, Len(files[n].data) < k, NEW perm \in Perms,
           StartResize(id, n, k, perm), writeStream = {}, out = <<>>
    PROVE  GoalInv'
  <1>1. PICK d : d = files[n].data
    OBVIOUS
  <1>2. n \in Names /\ d \in Contents /\ MaxSize \in Nat
    BY <1>1, SftpAssumption DEF IInv, VolumeInv, FilesTyped, IsFile, Contents
  <1>3. Len(d) \in Nat /\ k \in Nat /\ k - Len(d) \in Nat
    <2>1. Len(d) \in Nat
      BY <1>2, LenProperties DEF Contents
    <2> QED
      BY <2>1, <1>1, <1>2
  <1>4. PICK b : b = Overlay(d, Len(d), Zeros(k - Len(d)))
    OBVIOUS
  <1>5. PICK z : z = k - Len(d)
    OBVIOUS
  <1>6. /\ b \in Contents /\ Len(b) = Len(d) + z
        /\ \A i \in 1 .. Len(b) : b[i] = IF i <= Len(d) THEN d[i] ELSE Zero
    BY <1>2, <1>3, <1>4, <1>5, ZerosAtEnd
  <1>7. Len(b) = k /\ Len(d) <= Len(b)
    BY ONLY <1>3, <1>5, <1>6
  <1>8. Padded(d, b)
    BY ONLY <1>6, <1>7 DEF Padded
  <1>9. PICK j : /\ resize' = {j} /\ j.size = k /\ j.file.name = n
    <2>1. PICK h : h = [name |-> n, readable |-> FALSE, writable |-> TRUE,
                        appends |-> FALSE, append |-> {}, read |-> {}]
      OBVIOUS
    <2>2. PICK j : j = [id |-> id, size |-> k, perm |-> perm, file |-> h]
      OBVIOUS
    <2>3. resize' = {j}
      BY <2>1, <2>2 DEF StartResize
    <2>4. j.size = k /\ j.file.name = n
      BY <2>1, <2>2
    <2> QED
      BY <2>3, <2>4
  <1>10. /\ goal' = {[name |-> n, at |-> k, data |-> b]}
         /\ UNCHANGED <<files, writeStream, out>>
    BY <1>1, <1>4 DEF StartResize, volume
  <1>11. ASSUME NEW g \in goal' PROVE Aims(g)'
    <2>1. g = [name |-> n, at |-> k, data |-> b]
      BY <1>10
    <2>2. g \in Goals /\ g.name = n /\ g.data = b
      BY ONLY <2>1, <1>2, <1>3, <1>6 DEF Goals
    <2>3. ResizeAims(j, g)'
      BY <2>2, <1>1, <1>7, <1>8, <1>9, <1>10 DEF ResizeAims
    <2>4. \A i \in resize' : ResizeAims(i, g)'
      BY <2>3, <1>9
    <2>5. writeStream' = {} /\ out' = <<>>
      BY <1>10
    <2> QED
      BY <2>2, <2>4, <2>5 DEF Aims
  <1> QED
    BY <1>11 DEF GoalInv

(* SETSTAT asks for nothing, or for a file that grows.                      *)
LEMMA SetstatAims ==
    ASSUME IInv, NEW id, NEW n, NEW size \in Sizes, NEW perm \in Perms,
           ApplySetstat(id, n, size, perm), writeStream = {}, out = <<>>
    PROVE  GoalInv'
  <1>1. n \in DOMAIN files
    BY DEF ApplySetstat, SetstatRefused
  <1>2. CASE \E k \in size : k > Len(files[n].data)
    <2>1. PICK k \in size : StartResize(id, n, k, perm)
      BY <1>2 DEF ApplySetstat
    <2>2. k > Len(files[n].data) /\ k \in 0 .. MaxSize
      BY <1>2, <2>1, SftpAssumption DEF Sizes
    <2>3. Len(files[n].data) \in Nat /\ MaxSize \in Nat
      BY <1>1, SftpAssumption DEF IInv, VolumeInv, FilesTyped, IsFile
    <2>4. Len(files[n].data) < k
      BY <2>2, <2>3
    <2> QED
      BY <1>1, <2>1, <2>2, <2>4, StartResizeAims
  <1>3. CASE ~\E k \in size : k > Len(files[n].data)
    <2>1. goal' = {}
      BY <1>3 DEF ApplySetstat
    <2> QED
      BY <2>1, NoGoal
  <1> QED
    BY <1>2, <1>3

(* Of the other requests none leaves anything to be done.                   *)
LEMMA RequestAims ==
    ASSUME IInv, NEW id, Dispatch(id), writeStream = {}, out = <<>>
    PROVE  GoalInv'
  <1>1. ASSUME \E kind \in SimpleKinds : Answer(kind, id) PROVE goal' = {}
    BY <1>1 DEF Answer
  <1>2. ASSUME NEW n, NEW to, \/ Opendir(id, n) \/ RemoveFile(id, n) \/ Mkdir(id, n)
                              \/ Rmdir(id, n) \/ Rename(id, n, to) \/ SetstatFolder(id, n)
        PROVE  goal' = {}
    <2>1. CASE Opendir(id, n)
      BY <2>1 DEF Opendir, Fail, Answer
    <2>2. CASE RemoveFile(id, n) \/ Mkdir(id, n) \/ Rmdir(id, n) \/ Rename(id, n, to)
      <3>1. Done(id)
        BY <2>2 DEF RemoveFile, Mkdir, Rmdir, Rename
      <3> QED
        BY <3>1 DEF Done
    <2>3. CASE SetstatFolder(id, n)
      BY <2>3 DEF SetstatFolder, Answer
    <2> QED
      BY <1>2, <2>1, <2>2, <2>3
  <1>3. ASSUME NEW n, NEW flags, NEW perm, Open(id, n, flags, perm) PROVE goal' = {}
    BY <1>3 DEF Open
  <1>4. ASSUME NEW t, NEW offset, NEW wanted, \/ Fsync(id, t) \/ Readdir(id, t) \/ Close(id, t)
                                              \/ Read(id, t, offset, wanted)
        PROVE  goal' = {}
    <2>1. CASE Fsync(id, t) \/ Readdir(id, t)
      BY <2>1 DEF Fsync, Readdir, Answer
    <2>2. CASE Close(id, t)
      BY <2>2 DEF Close
    <2>3. CASE Read(id, t, offset, wanted)
      BY <2>3 DEF Read, Answer
    <2> QED
      BY <1>4, <2>1, <2>2, <2>3
  <1>5. ASSUME NEW t, NEW size \in Sizes, NEW perm \in Perms, Fsetstat(id, t, size, perm)
        PROVE  GoalInv'
    <2>1. CASE ApplySetstat(id, handles[t[2]].name, size, perm)
      BY <2>1, SetstatAims
    <2>2. CASE Answer("ok", id)
      BY <2>2, <1>1, NoGoal DEF SimpleKinds
    <2> QED
      BY <1>5, <2>1, <2>2 DEF Fsetstat
  <1>6. CASE Query(id)
    BY <1>6, <1>1, NoGoal DEF Query, SimpleKinds
  <1>7. \/ Query(id)
        \/ \E n, to : \/ Opendir(id, n) \/ RemoveFile(id, n) \/ Mkdir(id, n)
                      \/ Rmdir(id, n) \/ Rename(id, n, to) \/ SetstatFolder(id, n)
        \/ \E n, flags, perm : Open(id, n, flags, perm)
        \/ \E n : \E size \in Sizes, perm \in Perms : ApplySetstat(id, n, size, perm)
        \/ \E t, offset, wanted : \/ Fsync(id, t) \/ Readdir(id, t) \/ Close(id, t)
                                  \/ Read(id, t, offset, wanted)
        \/ \E t : \E size \in Sizes, perm \in Perms : Fsetstat(id, t, size, perm)
    BY ZenonT(60) DEF Dispatch
  <1> QED
    BY <1>2, <1>3, <1>4, <1>5, <1>6, <1>7, NoGoal, SetstatAims

(* A WRITE that keeps to its goal, whether it goes on or is answered.       *)
LEMMA WriteGoes ==
    ASSUME NEW w, AtWrite(w), WriteUntouched, NEW v, v.remaining \in Nat, Continued(v),
           NEW g \in Goals, WriteAims(v, g)'
    PROVE  Aims(g)'
  <1>1. resize' = {}
    BY DEF AtWrite, WriteUntouched
  <1>2. CASE v.remaining # 0
    <2>1. writeStream' = {v} /\ out' = <<>>
      BY <1>2 DEF Continued
    <2> QED
      BY <1>1, <2>1 DEF Aims
  <1>3. CASE v.remaining = 0
    <2>1. writeStream' = {}
      BY <1>3 DEF Continued
    <2>2. AsAsked(g)'
      BY <1>3 DEF WriteAims, AsAsked
    <2> QED
      BY <1>1, <2>1, <2>2 DEF Aims
  <1> QED
    BY <1>2, <1>3

(* What the goal is to the WRITE at work.                                   *)
LEMMA WriteGoal ==
    ASSUME GoalInv, NEW w, AtWrite(w), NEW g \in goal
    PROVE  g \in Goals /\ WriteAims(w, g)
  BY DEF GoalInv, Aims, AtWrite

(* Zeros in the gap bring the WRITE to its offset, never past it.           *)
LEMMA FillGapAims ==
    ASSUME IInv, GoalInv, ~fatal, NEW w, AtWrite(w), FillGap(w), WriteUntouched
    PROVE  GoalInv'
  <1> DEFINE h == handles[w.slot]
             f == files[h.name]
             k == Min({WriteOffset(w) - Len(f.data), WriteChunk})
  <1>1. /\ h.name \in DOMAIN files /\ WriteOffset(w) - Len(f.data) > 0
        /\ ~w.failed /\ w.remaining > 0
    BY DEF FillGap, CanStore
  <1>2. PICK r \in WriteOutcomes(h, Len(f.data), Zeros(k)) :
          /\ files' = Put(files, h.name, r.file)
          /\ handles' = IF r.ok THEN InvalidatedWritten(Put(handles, w.slot, r.handle), w.slot)
                        ELSE Put(handles, w.slot, r.handle)
          /\ Continued([w EXCEPT !.failed = ~r.ok])
          /\ goal' = {g \in goal : r.ok}
    BY DEF FillGap
  <1>3. /\ WriteOK(w, DOMAIN handles) /\ w.slot \in DOMAIN handles
        /\ w.offset \in 0 .. MaxSize /\ MaxSize \in Nat /\ WriteChunk \in Nat \ {0}
        /\ w.remaining \in Nat
    BY <1>1, SftpAssumption, MostPayload DEF AtWrite, WriteOK
  <1>4. h \in HandleType /\ IsFile(f) /\ f.data \in Contents /\ Len(f.data) \in Nat
    BY <1>1, <1>3 DEF IInv, OpenedInv, VolumeInv, HandlesTyped, FilesTyped, IsFile, Contents
  <1>5. ~h.appends /\ WriteOffset(w) = w.offset
    BY <1>1, <1>4 DEF WriteOffset
  <1>6. PICK gap : gap = w.offset - Len(f.data)
    OBVIOUS
  <1>7. gap \in Nat
    BY <1>1, <1>3, <1>4, <1>5, <1>6
  <1>8. k \in Nat /\ k <= gap
    BY <1>3, <1>5, <1>6, <1>7, ChunkIs
  <1> HIDE DEF k
  <1>9. Zeros(k) \in Contents
    BY <1>8, ZerosAre
  <1>10. Written(h, f, Len(f.data), Zeros(k), r)
    BY <1>1, <1>2, <1>4, <1>9, OutcomesOfWrite DEF IInv, VolumeInv
  <1>11. SameHandles(handles, handles')
    BY <1>1, <1>2, <1>3, <1>10, StoredIs
  <1>12. handles'[w.slot].name = h.name /\ handles'[w.slot].appends = h.appends
    BY <1>3, <1>11 DEF SameHandles
  <1>13. h.name \in DOMAIN files' /\ files'[h.name] = r.file
    BY <1>2 DEF Put
  <1>14. PICK v : v = [w EXCEPT !.failed = ~r.ok]
    OBVIOUS
  <1>15. ASSUME NEW g \in goal' PROVE Aims(g)'
    <2>1. g \in goal /\ r.ok
      BY <1>2
    <2>2. g \in Goals /\ WriteAims(w, g)
      BY <2>1, WriteGoal
    <2>3. g.data \in Contents /\ g.name = h.name /\ g.at = w.offset
      BY <2>2, <1>5 DEF WriteAims, Goals
    <2>4. Padded(g.data, f.data)
      <3>1. f.data = g.data \/ Padded(g.data, f.data)
        BY <2>2, <2>3, <1>5 DEF WriteAims
      <3> QED
        BY <3>1, <1>4, GapOrNot
    <2>5. PICK c : c = Overlay(f.data, Len(f.data), Zeros(k))
      OBVIOUS
    <2>6. Len(c) = Len(f.data) + k /\ Padded(g.data, c)
      BY <2>3, <2>4, <2>5, <1>4, <1>8, ZerosAtEnd, PaddedFurther
    <2>7. Len(c) <= w.offset
      <3>1. PICK m : m = Len(f.data)
        OBVIOUS
      <3>2. Len(c) = m + k /\ m \in Nat /\ gap = w.offset - m /\ w.offset \in Nat
        BY <3>1, <2>6, <1>3, <1>4, <1>6
      <3> QED
        BY ONLY <3>2, <1>7, <1>8
    <2>8. files'[g.name].data = c /\ g.name \in DOMAIN files'
      BY <2>1, <2>3, <2>5, <1>10, <1>13 DEF Written
    <2>9. v.slot = w.slot /\ v.remaining = w.remaining /\ v.offset = w.offset /\ ~v.failed
      BY <2>1, <1>3, <1>14 DEF WriteOK
    <2>10. WriteAims(v, g)'
      BY <2>3, <2>6, <2>7, <2>8, <2>9, <1>1, <1>5, <1>12 DEF WriteAims
    <2> QED
      BY <2>2, <2>9, <2>10, <1>2, <1>3, <1>14, WriteGoes
  <1> QED
    BY <1>15 DEF GoalInv

(* The chunk lands where the goal has it, behind what was there or behind   *)
(* the gap.                                                                 *)
LEMMA StorePayloadAims ==
    ASSUME IInv, GoalInv, ~fatal, NEW w, AtWrite(w), StorePayload(w), WriteUntouched
    PROVE  GoalInv'
  <1> DEFINE h == handles[w.slot]
             f == files[h.name]
             k == Count(w)
  <1>2. /\ h.name \in DOMAIN files /\ WriteOffset(w) <= Len(f.data)
        /\ ~w.failed /\ w.remaining > 0
    BY DEF StorePayload, CanStore
  <1>3. PICK units \in [1 .. k -> Symbols] : \E r \in WriteOutcomes(h, WriteOffset(w), units) :
          /\ files' = Put(files, h.name, r.file)
          /\ handles' = IF r.ok THEN InvalidatedWritten(Put(handles, w.slot, r.handle), w.slot)
                        ELSE Put(handles, w.slot, r.handle)
          /\ Continued([w EXCEPT !.failed = ~r.ok, !.remaining = @ - k,
                                 !.offset = IF r.ok THEN @ + k ELSE @])
          /\ goal' = {[g EXCEPT !.data = Overlay(@, g.at, units), !.at = @ + k]
                         : g \in {g \in goal : r.ok}}
    BY DEF StorePayload
  <1>4. PICK r \in WriteOutcomes(h, WriteOffset(w), units) :
          /\ files' = Put(files, h.name, r.file)
          /\ handles' = IF r.ok THEN InvalidatedWritten(Put(handles, w.slot, r.handle), w.slot)
                        ELSE Put(handles, w.slot, r.handle)
          /\ Continued([w EXCEPT !.failed = ~r.ok, !.remaining = @ - k,
                                 !.offset = IF r.ok THEN @ + k ELSE @])
          /\ goal' = {[g EXCEPT !.data = Overlay(@, g.at, units), !.at = @ + k]
                         : g \in {g \in goal : r.ok}}
    BY <1>3
  <1>5. /\ WriteOK(w, DOMAIN handles) /\ w.slot \in DOMAIN handles
        /\ w.offset \in 0 .. MaxSize /\ MaxSize \in Nat
    BY <1>2, SftpAssumption DEF AtWrite, WriteOK
  <1>6. h \in HandleType /\ IsFile(f) /\ f.data \in Contents /\ Len(f.data) \in Nat
    BY <1>2, <1>5 DEF IInv, OpenedInv, VolumeInv, HandlesTyped, FilesTyped, IsFile, Contents
  <1>7. PICK at : at = WriteOffset(w)
    OBVIOUS
  <1>8. at \in Nat /\ at = IF h.appends THEN Len(f.data) ELSE w.offset
    BY <1>5, <1>6, <1>7 DEF WriteOffset
  <1>9. k \in Nat /\ k <= w.remaining /\ w.remaining \in Nat
    BY CountIs
  <1> HIDE DEF k
  <1>10. units \in Contents /\ Len(units) = k
    BY <1>9, UnitsAre
  <1>11. Written(h, f, at, units, r)
    BY <1>2, <1>4, <1>6, <1>7, <1>8, <1>10, OutcomesOfWrite DEF IInv, VolumeInv
  <1>12. SameHandles(handles, handles')
    BY <1>2, <1>4, <1>5, <1>11, StoredIs
  <1>13. handles'[w.slot].name = h.name /\ handles'[w.slot].appends = h.appends
    BY <1>5, <1>12 DEF SameHandles
  <1>14. h.name \in DOMAIN files' /\ files'[h.name] = r.file
    BY <1>4 DEF Put
  <1>15. PICK v : v = [w EXCEPT !.failed = ~r.ok, !.remaining = @ - k,
                                !.offset = IF r.ok THEN @ + k ELSE @]
    OBVIOUS
  <1>16. ASSUME NEW e \in goal' PROVE Aims(e)'
    <2>1. r.ok
      BY <1>4
    <2>2. PICK g \in goal : e = [g EXCEPT !.data = Overlay(@, g.at, units), !.at = @ + k]
      BY <1>4
    <2>3. g \in Goals /\ WriteAims(w, g)
      BY WriteGoal
    <2>4. /\ g.data \in Contents /\ g.name = h.name /\ g.name \in Names /\ g.at \in Nat
          /\ Len(g.data) \in Nat /\ g.name \in DOMAIN files
          /\ g = [name |-> g.name, at |-> g.at, data |-> g.data]
      BY <2>3, LenProperties DEF WriteAims, Goals, Contents
    <2>5. g.at = at /\ (h.appends => g.at = Len(g.data))
      BY <2>3, <1>8, <2>4 DEF WriteAims
    <2>6. PICK d : d = Overlay(g.data, at, units)
      OBVIOUS
    <2>7. d \in Contents /\ (at = Len(g.data) => Len(d) = at + k)
      <3>1. /\ d \in Contents
            /\ Len(d) = IF Len(g.data) <= at + Len(units) THEN at + Len(units)
                        ELSE Len(g.data)
        <4>1. g.data \in Contents /\ at \in Nat /\ units \in Contents
          BY ONLY <2>4, <1>8, <1>10
        <4>2. PICK a \in Contents : a = g.data
          BY ONLY <4>1
        <4> QED
          BY ONLY <2>6, <4>1, <4>2, OverlayIs
      <3>2. Len(g.data) \in Nat /\ at \in Nat /\ k \in Nat /\ Len(units) = k
        BY ONLY <2>4, <1>8, <1>9, <1>10
      <3> QED
        BY ONLY <3>1, <3>2
    <2>8. e = [name |-> g.name, at |-> at + k, data |-> d]
      BY <2>2, <2>4, <2>5, <2>6
    <2>9. e \in Goals /\ e.name = h.name /\ e.at = at + k /\ e.data = d
      <3>1. PICK m \in Nat : m = at + k
        BY <1>8, <1>9
      <3> QED
        BY <2>4, <2>7, <2>8, <3>1 DEF Goals
    <2>10. r.file.data = d
      <3>1. r.file.data = Overlay(f.data, at, units)
        BY <2>1, <1>11 DEF Written
      <3>2. CASE f.data = g.data
        BY <3>1, <3>2, <2>6
      <3>3. CASE f.data # g.data
        <4>1. ~h.appends /\ Padded(g.data, f.data) /\ Len(f.data) <= g.at
          BY <2>3, <2>4, <3>3 DEF WriteAims
        <4>2. Len(f.data) = at
          BY <4>1, <2>5, <1>2, <1>6, <1>7, <1>8
        <4> QED
          BY <3>1, <4>1, <4>2, <2>4, <2>6, <1>6, <1>10, GapFilled
      <3> QED
        BY <3>2, <3>3
    <2>11. files'[e.name].data = e.data /\ e.name \in DOMAIN files'
      BY <2>9, <2>10, <1>14
    <2>12. /\ v.slot = w.slot /\ v.remaining = w.remaining - k /\ ~v.failed
           /\ v.offset = w.offset + k
      BY <2>1, <1>5, <1>15 DEF WriteOK
    <2>13. v.remaining \in Nat
      BY <2>12, <1>9
    <2>14. WriteAims(v, e)'
      <3>1. h.appends => e.at = Len(e.data)
        BY <2>5, <2>7, <2>9
      <3>2. ~h.appends => e.at = v.offset
        BY <2>9, <2>12, <1>8
      <3> QED
        BY <3>1, <3>2, <2>9, <2>11, <2>12, <1>13 DEF WriteAims
    <2> QED
      BY <2>9, <2>13, <2>14, <1>4, <1>15, WriteGoes
  <1> QED
    BY <1>16 DEF GoalInv

(* Every step of a WRITE keeps to its goal; once it has failed it has none. *)
LEMMA WriteAimed ==
    ASSUME IInv, GoalInv, ~fatal, NEW w, AtWrite(w), ContinueWrite(w), UNCHANGED client
    PROVE  GoalInv'
  <1>1. WriteUntouched
    BY DEF ContinueWrite, client, WriteUntouched, EndWrite, DiscardPayload, FileGone,
           FillGap, StorePayload, volume
  <1>2. CASE EndWrite(w)
    <2>1. Continued(w) /\ UNCHANGED <<files, handles, goal>> /\ w.remaining = 0
      BY <1>2 DEF EndWrite, volume
    <2>2. ASSUME NEW g \in goal' PROVE Aims(g)'
      <3>1. g \in Goals /\ WriteAims(w, g)
        BY <2>1, WriteGoal
      <3>2. WriteAims(w, g)'
        BY <3>1, <2>1 DEF WriteAims
      <3> QED
        BY <3>1, <3>2, <2>1, <1>1, WriteGoes
    <2> QED
      BY <2>2 DEF GoalInv
  <1>3. CASE DiscardPayload(w)
    <2>1. w.failed /\ goal' = goal
      BY <1>3 DEF DiscardPayload
    <2>2. goal' = {}
      BY <2>1, WriteGoal DEF WriteAims
    <2> QED
      BY <2>2, NoGoal
  <1>4. CASE FileGone(w)
    BY <1>4, NoGoal DEF FileGone
  <1> QED
    BY <1>1, <1>2, <1>3, <1>4, FillGapAims, StorePayloadAims DEF ContinueWrite

(* A growing SETSTAT is answered OK only when no zeros are left to add.     *)
LEMMA ResizeAimed ==
    ASSUME IInv, GoalInv, ~fatal, NEW j, AtResize(j), ContinueResize(j)
    PROVE  GoalInv'
  <1> DEFINE n    == j.file.name
             f    == files[n]
             todo == j.size - Len(f.data)
  <1>1. goal' = goal /\ writeStream' = {}
    BY DEF ContinueResize, AtResize
  <1>2. /\ resize = {j} /\ j \in JobType /\ n \in DOMAIN files /\ Len(f.data) <= j.size
    BY DEF AtResize, JobOK
  <1>3. j.file \in HandleType /\ j.size \in 0 .. MaxSize
    BY <1>2 DEF JobType
  <1>4. /\ IsFile(f) /\ f.data \in Contents /\ Len(f.data) \in Nat /\ MaxSize \in Nat
        /\ WriteChunk \in Nat \ {0}
    BY <1>2, SftpAssumption DEF IInv, VolumeInv, FilesTyped, IsFile, Contents
  <1>5. ASSUME NEW g \in goal
        PROVE  /\ g \in Goals /\ g.name = n /\ Len(g.data) = j.size /\ g.data \in Contents
               /\ Padded(f.data, g.data)
    BY <1>2 DEF GoalInv, Aims, ResizeAims, Goals
  <1>6. CASE todo > 0
    <2> DEFINE k == Min({todo, WriteChunk})
    <2>1. PICK r \in WriteOutcomes(j.file, Len(f.data), Zeros(k)) :
            /\ files' = Put(files, n, r.file)
            /\ resize' = IF r.ok THEN {[j EXCEPT !.file = r.handle]} ELSE {}
            /\ out' = IF r.ok THEN <<>> ELSE <<Reply("fail", j.id)>>
      BY <1>6 DEF ContinueResize
    <2>2. todo \in Nat
      BY <1>2, <1>3, <1>4
    <2>3. k \in Nat /\ k <= todo
      BY <2>2, <1>4, ChunkIs
    <2> HIDE DEF k
    <2>4. Zeros(k) \in Contents
      BY <2>3, ZerosAre
    <2>5. Written(j.file, f, Len(f.data), Zeros(k), r)
      BY <2>1, <2>4, <1>2, <1>3, <1>4, OutcomesOfWrite DEF IInv, VolumeInv
    <2>6. CASE r.ok
      <3>1. r.file.data = Overlay(f.data, Len(f.data), Zeros(k)) /\ r.handle.name = n
        BY <2>5, <2>6 DEF Written
      <3>2. PICK i : i = [j EXCEPT !.file = r.handle]
        OBVIOUS
      <3>3. i.file.name = n /\ i.size = j.size
        BY <3>1, <3>2, <1>2 DEF JobType
      <3>4. resize' = {i} /\ out' = <<>>
        BY <2>1, <2>6, <3>2
      <3>5. n \in DOMAIN files' /\ files'[n] = r.file
        BY <2>1 DEF Put
      <3>6. ASSUME NEW g \in goal' PROVE Aims(g)'
        <4>1. /\ g \in Goals /\ g.name = n /\ Len(g.data) = j.size /\ g.data \in Contents
              /\ Padded(f.data, g.data)
          BY <1>1, <1>5
        <4>2. Len(f.data) + k <= Len(g.data)
          <5>1. PICK m : m = Len(f.data)
            OBVIOUS
          <5>2. /\ m \in Nat /\ todo = j.size - m /\ j.size \in Nat /\ Len(g.data) = j.size
            BY <5>1, <4>1, <1>3, <1>4
          <5>3. m + k <= j.size
            BY ONLY <5>2, <2>2, <2>3
          <5> QED
            BY <5>1, <5>2, <5>3
        <4>3. Padded(Overlay(f.data, Len(f.data), Zeros(k)), g.data)
          BY <4>1, <4>2, <2>3, <1>4, PaddedNearer
        <4>4. ResizeAims(i, g)'
          BY <3>1, <3>3, <3>5, <4>1, <4>3 DEF ResizeAims
        <4> QED
          BY <4>1, <4>4, <3>4, <1>1 DEF Aims
      <3> QED
        BY <3>6 DEF GoalInv
    <2>7. CASE ~r.ok
      <3>1. resize' = {} /\ Head(out').kind = "fail"
        BY <2>1, <2>7 DEF Reply
      <3>2. ASSUME NEW g \in goal' PROVE Aims(g)'
        BY <3>1, <1>1, <1>5 DEF Aims
      <3> QED
        BY <3>2 DEF GoalInv
    <2> QED
      BY <2>6, <2>7
  <1>7. CASE ~(todo > 0)
    <2>1. resize' = {}
      BY <1>7 DEF ContinueResize
    <2>2. \/ files' = Put(files, n, Permitted(f, j.perm))
          \/ out' = <<Reply("fail", j.id)>>
      BY <1>7 DEF ContinueResize
    <2>3. CASE out' = <<Reply("fail", j.id)>>
      <3>1. Head(out').kind = "fail"
        BY <2>3 DEF Reply
      <3>2. ASSUME NEW g \in goal' PROVE Aims(g)'
        BY <2>1, <3>1, <1>1, <1>5 DEF Aims
      <3> QED
        BY <3>2 DEF GoalInv
    <2>4. CASE files' = Put(files, n, Permitted(f, j.perm))
      <3>1. n \in DOMAIN files' /\ files'[n] = Permitted(f, j.perm)
        BY <2>4 DEF Put
      <3>2. Permitted(f, j.perm).data = f.data
        BY <1>2, <1>4, PermittedIs DEF JobType
      <3>3. ASSUME NEW g \in goal' PROVE Aims(g)'
        <4>1. /\ g \in Goals /\ g.name = n /\ Len(g.data) = j.size /\ g.data \in Contents
              /\ Padded(f.data, g.data)
          BY <1>1, <1>5
        <4>2. Len(f.data) >= Len(g.data)
          BY <4>1, <1>3, <1>4, <1>7
        <4>3. f.data = g.data
          BY <4>1, <4>2, <1>4, PaddedFully
        <4>4. AsAsked(g)'
          BY <4>1, <4>3, <3>1, <3>2 DEF AsAsked
        <4> QED
          BY <4>1, <4>4, <2>1, <1>1 DEF Aims
      <3> QED
        BY <3>3 DEF GoalInv
    <2> QED
      BY <2>2, <2>3, <2>4
  <1> QED
    BY <1>6, <1>7

(* A READ answers no WRITE.                                                 *)
LEMMA ReadAimed ==
    ASSUME IInv, GoalInv, NEW s, AtRead(s), ContinueRead(s)
    PROVE  GoalInv'
  <1>1. goal' = goal /\ writeStream' = {} /\ resize' = {}
    BY DEF ContinueRead, AtRead
  <1>2. out' = <<>> \/ Head(out').kind = "chunk"
    BY DEF ContinueRead, AtRead, DataChunk
  <1>3. ASSUME NEW g \in goal' PROVE Aims(g)'
    <2>1. g \in Goals
      BY <1>1 DEF GoalInv, Aims
    <2> QED
      BY <2>1, <1>1, <1>2 DEF Aims
  <1> QED
    BY <1>3 DEF GoalInv

(* What a WRITE asks of the file is fixed when its header is parsed.        *)
LEMMA BeginWriteAims ==
    ASSUME IInv, NEW id, NEW n \in Nat, NEW t \in Presented, NEW offset \in 0 .. MaxSize,
           AtRest, BeginWrite(id, n, t, offset)
    PROVE  GoalInv'
  <1>1. PICK ok : ok = (ValidFile(t) /\ handles[t[2]].writable /\ offset + n <= MaxSize)
    OBVIOUS
  <1>2. ok \in BOOLEAN
    BY <1>1
  <1>3. PICK w : w = [id |-> id, slot |-> IF ok THEN t[2] ELSE Min(Slots),
                      remaining |-> n, offset |-> IF ok THEN offset ELSE 0,
                      failed |-> ~ok]
    OBVIOUS
  <1>4. PICK name : name = handles[t[2]].name
    OBVIOUS
  <1>5. PICK data : data = files[name].data
    OBVIOUS
  <1>6. PICK at : at = IF handles[t[2]].appends THEN Len(data) ELSE offset
    OBVIOUS
  <1>7. /\ writeStream' = {w} /\ resize' = {} /\ out' = <<>>
        /\ UNCHANGED <<files, handles>>
        /\ goal' = IF ok /\ name \in DOMAIN files
                   THEN {[name |-> name, data |-> data, at |-> at]} ELSE {}
    BY <1>1, <1>3, <1>4, <1>5, <1>6 DEF BeginWrite, volume, opened, AtRest, NoWork
  <1>8. ASSUME NEW g \in goal' PROVE Aims(g)'
    <2>1. ok /\ name \in DOMAIN files /\ g = [name |-> name, data |-> data, at |-> at]
      BY <1>7
    <2>2. /\ w.slot = t[2] /\ w.offset = offset /\ ~w.failed
      BY <2>1, <1>2, <1>3
    <2>3. name \in Names /\ data \in Contents /\ Len(data) \in Nat /\ MaxSize \in Nat
      BY <2>1, <1>5, SftpAssumption DEF IInv, VolumeInv, FilesTyped, IsFile, Contents
    <2>4. at \in Nat
      BY <2>3, <1>6
    <2>5. g \in Goals /\ g.name = name /\ g.data = data /\ g.at = at
      BY <2>1, <2>3, <2>4 DEF Goals
    <2>6. WriteAims(w, g)'
      BY <2>1, <2>2, <2>5, <1>4, <1>5, <1>6, <1>7 DEF WriteAims
    <2> QED
      BY <2>5, <2>6, <1>7 DEF Aims
  <1> QED
    BY <1>8 DEF GoalInv

(* A step of a server at rest.                                              *)
LEMMA RestAimed ==
    ASSUME IInv, GoalInv, ~fatal, AtRest, Step
    PROVE  GoalInv'
  <1>1. readStream = {} /\ writeStream = {} /\ resize = {} /\ out = <<>>
    BY DEF AtRest, NoWork
  <1>2. DiscardOversized \/ (Idle /\ ParseNext)
    BY <1>1 DEF Step
  <1>3. CASE DiscardOversized
    <2>1. UNCHANGED <<goal, files, handles, writeStream, resize, out>>
      BY <1>3 DEF DiscardOversized, volume, opened
    <2> QED
      BY <2>1, SameGoal
  <1>4. CASE Idle /\ ParseNext
    <2> DEFINE frame == Head(input)
    <2>1. input # <<>> /\ input \in Seq(FrameType)
      BY <1>4 DEF ParseNext, IInv, WireTyped
    <2>2. frame \in FrameType
      BY <2>1
    <2> HIDE DEF frame
    <2>3. CASE ParseRequest(frame)
      <3>1. Dispatch(frame.id)
        BY <2>3 DEF ParseRequest
      <3> QED
        BY <3>1, <1>1, RequestAims
    <2>4. CASE ParseWrite(frame)
      <3>1. PICK t \in Presented, offset \in 0 .. MaxSize :
              BeginWrite(frame.id, frame.n, t, offset)
        BY <2>4 DEF ParseWrite
      <3>2. frame.n \in Nat
        BY <2>2, SftpAssumption DEF FrameType
      <3> QED
        BY <3>1, <3>2, BeginWriteAims
    <2>5. CASE ParseOversized(frame)
      BY <2>5, NoGoal DEF ParseOversized
    <2>6. CASE ParseBroken(frame)
      <3>1. UNCHANGED <<goal, files, handles, writeStream, resize, out>>
        BY <2>6 DEF ParseBroken, volume, opened, streams
      <3> QED
        BY <3>1, SameGoal
    <2> QED
      BY <1>4, <2>3, <2>4, <2>5, <2>6 DEF ParseNext, frame
  <1> QED
    BY <1>2, <1>3, <1>4

(* A step of the server.                                                    *)
LEMMA StepAimed ==
    ASSUME IInv, GoalInv, Step
    PROVE  GoalInv'
  <1>1. ~fatal /\ out = <<>> /\ UNCHANGED client
    BY DEF Step
  <1>2. CASE AtRest
    BY <1>1, <1>2, RestAimed
  <1>3. ASSUME NEW s, AtRead(s) PROVE GoalInv'
    <2>1. readStream = {s} /\ resize = {}
      BY <1>3 DEF AtRead
    <2>2. ContinueRead(s)
      BY <2>1 DEF Step, Idle
    <2> QED
      BY <2>2, <1>3, ReadAimed
  <1>4. ASSUME NEW w, AtWrite(w) PROVE GoalInv'
    <2>1. readStream = {} /\ writeStream = {w} /\ resize = {}
      BY <1>4 DEF AtWrite
    <2>2. ContinueWrite(w)
      BY <2>1 DEF Step, Idle
    <2> QED
      BY <2>2, <1>1, <1>4, WriteAimed
  <1>5. ASSUME NEW j, AtResize(j) PROVE GoalInv'
    <2>1. resize = {j}
      BY <1>5 DEF AtResize
    <2>2. ContinueResize(j)
      BY <2>1 DEF Step, Idle
    <2> QED
      BY <2>2, <1>1, <1>5, ResizeAimed
  <1> QED
    BY <1>1, <1>2, <1>3, <1>4, <1>5, AtWork

(* Whatever happens, what is asked of the file is kept to.                  *)
LEMMA EveryStepAims ==
    ASSUME IInv, GoalInv, [Next]_vars
    PROVE  GoalInv'
  <1>1. CASE SendOutput \/ ClientLeaves \/ SessionDropped
    <2>1. goal' = {}
      BY <1>1 DEF SendOutput, ClientLeaves, SessionDropped, NewSession
    <2> QED
      BY <2>1, NoGoal
  <1>2. CASE BeginPoll \/ ClientAsks \/ ClientSendsPayload \/ UNCHANGED vars
    <2>1. UNCHANGED <<goal, files, handles, writeStream, resize, out>>
      BY <1>2 DEF BeginPoll, ClientAsks, ClientSendsPayload, vars, volume, opened, streams
    <2> QED
      BY <2>1, SameGoal
  <1> QED
    BY <1>1, <1>2, StepAimed DEF Next

(* A WRITE or a growing SETSTAT that is answered OK has left the file as    *)
(* the client asked: all of the payload at its offset or at the end, zeros  *)
(* in the gap, the rest as it was; for any payload, chunk and size, and a   *)
(* card that fails at any access.                                           *)
THEOREM OkIsDone == Spec => []OkMeansDone
  <1>1. Init => GoalInv
    BY DEF Init, GoalInv
  <1>2. IInv /\ GoalInv /\ [Next]_vars => GoalInv'
    BY EveryStepAims
  <1>3. GoalInv => OkMeansDone
    BY DEF GoalInv, Aims, AsAsked, OkMeansDone
  <1> QED
    BY <1>1, <1>2, <1>3, Kept, PTL DEF Spec

-----------------------------------------------------------------------------
(* What a cursor is worth.                                                 *)

(* What tells files apart does so; a cursor of a chain that was cut is      *)
(* gone, and one that was neither cut nor moved fits the file at the path   *)
(* of its handle or none.                                                   *)
OneFile(fs) == \A m, n \in DOMAIN fs : fs[m].born = fs[n].born => m = n

Points(c, name, fs) ==
    /\ c.fate # "shrunk"
    /\ c.fate = "intact" => \A n \in DOMAIN fs : fs[n].born = c.born => n = name
CursorsPoint(hs, fs) ==
    \A s \in DOMAIN hs : \A c \in Cursors(hs[s]) : Points(c, hs[s].name, fs)

FreshInv == OneFile(files) /\ CursorsPoint(handles, files)

(* The handles `gs` have no cursor that those of `hs` have not.             *)
Fewer(hs, gs) ==
    \A s \in DOMAIN gs :
        \/ s \in DOMAIN hs /\ gs[s].name = hs[s].name /\ Cursors(gs[s]) \subseteq Cursors(hs[s])
        \/ Cursors(gs[s]) = {}

(* Fewer cursors point where they did.                                      *)
LEMMA FewerPoint ==
    ASSUME NEW hs, NEW gs, NEW fs, Fewer(hs, gs), CursorsPoint(hs, fs)
    PROVE  CursorsPoint(gs, fs)
  BY DEF Fewer, CursorsPoint

(* Files that are written, cut or removed stay the files they are.          *)
LEMMA SameBirths ==
    ASSUME NEW fs, NEW gs, NEW hs, DOMAIN gs \subseteq DOMAIN fs,
           \A n \in DOMAIN gs : gs[n].born = fs[n].born,
           OneFile(fs), CursorsPoint(hs, fs)
    PROVE  OneFile(gs) /\ CursorsPoint(hs, gs)
  <1>1. OneFile(gs)
    BY DEF OneFile
  <1>2. CursorsPoint(hs, gs)
    BY DEF CursorsPoint, Points
  <1> QED
    BY <1>1, <1>2

(* Nothing happens to the files, and no cursor is new.                      *)
LEMMA SameFreshness ==
    ASSUME FreshInv, UNCHANGED files, Fewer(handles, handles')
    PROVE  FreshInv'
  BY FewerPoint DEF FreshInv

(* No handle has more cursors than it has.                                  *)
LEMMA FewerReflexive ==
    ASSUME NEW hs
    PROVE  Fewer(hs, hs)
  BY DEF Fewer

(* A file changes and stays the file it is.                                 *)
LEMMA PutFresh ==
    ASSUME FreshInv, NEW n \in DOMAIN files, NEW f, f.born = files[n].born,
           files' = Put(files, n, f), CursorsPoint(handles', files)
    PROVE  FreshInv'
  <1>1. DOMAIN files' = DOMAIN files /\ \A m \in DOMAIN files' : files'[m].born = files[m].born
    BY DEF Put
  <1> QED
    BY <1>1, SameBirths DEF FreshInv

(* invalidate_file leaves no new cursor.                                    *)
LEMMA InvalidatedIsFewer ==
    ASSUME NEW hs, HandlesTyped(hs), NEW n
    PROVE  Fewer(hs, InvalidatedFile(hs, n))
  <1>1. PICK gs : gs = InvalidatedFile(hs, n)
    OBVIOUS
  <1>2. /\ SameHandles(hs, gs)
        /\ \A s \in DOMAIN hs : IF hs[s].name = n THEN Cursors(gs[s]) = {} ELSE gs[s] = hs[s]
    BY <1>1, InvalidatedFileIs
  <1>3. Fewer(hs, gs)
    BY <1>2 DEF Fewer, SameHandles
  <1> QED
    BY <1>1, <1>3

(* invalidate_written leaves no new cursor.                                 *)
LEMMA InvalidatedWrittenIsFewer ==
    ASSUME NEW hs, HandlesTyped(hs), NEW slot
    PROVE  Fewer(hs, InvalidatedWritten(hs, slot))
  <1>1. PICK gs : gs = InvalidatedWritten(hs, slot)
    OBVIOUS
  <1>2. /\ SameHandles(hs, gs)
        /\ \A s \in DOMAIN hs :
              IF s = slot THEN gs[s].read = {} /\ gs[s].append = hs[s].append
              ELSE IF hs[s].name = hs[slot].name THEN Cursors(gs[s]) = {}
              ELSE gs[s] = hs[s]
    BY <1>1, InvalidatedWrittenIs
  <1>3. DOMAIN gs = DOMAIN hs /\ \A s \in DOMAIN hs : gs[s].name = hs[s].name
    BY <1>2 DEF SameHandles
  <1>4. ASSUME NEW s \in DOMAIN hs
        PROVE  Cursors(gs[s]) \subseteq Cursors(hs[s]) \/ Cursors(gs[s]) = {}
    <2>1. CASE s = slot
      BY <2>1, <1>2 DEF Cursors
    <2>2. CASE s # slot
      BY <2>2, <1>2
    <2> QED
      BY <2>1, <2>2
  <1>5. Fewer(hs, gs)
    BY <1>3, <1>4 DEF Fewer
  <1> QED
    BY <1>1, <1>5

(* The cursors of a file that is cut are all kept by handles of its path,   *)
(* so invalidate_file takes every one of them.                              *)
LEMMA CutForgets ==
    ASSUME OpenedInv, CursorsPoint(handles, files), NEW n \in DOMAIN files
    PROVE  Fewer(handles, InvalidatedFile(Shrunk(handles, files[n].born), n))
  <1>1. PICK b : b = files[n].born
    OBVIOUS
  <1>2. PICK hs : hs = Shrunk(handles, b)
    OBVIOUS
  <1>3. PICK gs : gs = InvalidatedFile(hs, n)
    OBVIOUS
  <1>4. MappedBy(handles, hs, ShrinkOne(b))
    BY <1>2, ShrunkIs DEF OpenedInv
  <1>5. /\ SameHandles(handles, hs)
        /\ \A s \in DOMAIN handles : Cursors(hs[s]) = Image(ShrinkOne(b), Cursors(handles[s]))
    BY <1>4 DEF MappedBy
  <1>6. HandlesTyped(hs)
    BY <1>5, SameHandlesTyped DEF OpenedInv
  <1>7. /\ SameHandles(hs, gs)
        /\ \A s \in DOMAIN hs : IF hs[s].name = n THEN Cursors(gs[s]) = {} ELSE gs[s] = hs[s]
    BY <1>3, <1>6, InvalidatedFileIs
  <1>8. /\ DOMAIN gs = DOMAIN handles /\ DOMAIN hs = DOMAIN handles
        /\ \A s \in DOMAIN handles : gs[s].name = handles[s].name /\ hs[s].name = handles[s].name
    BY <1>5, <1>7 DEF SameHandles
  <1>9. ASSUME NEW s \in DOMAIN handles, handles[s].name # n
        PROVE  Cursors(gs[s]) \subseteq Cursors(handles[s])
    <2>1. Cursors(gs[s]) = Image(ShrinkOne(b), Cursors(handles[s]))
      BY <1>5, <1>7, <1>8, <1>9
    <2>2. Cursors(handles[s]) \subseteq CursorType
      <3>1. handles[s] \in HandleType
        BY DEF OpenedInv, HandlesTyped
      <3> QED
        BY <3>1, OptionalSet DEF HandleType, Cursors
    <2>3. ASSUME NEW c \in Cursors(handles[s]) PROVE ShrinkOne(b)[c] = c
      <3>1. ~(c.born = b /\ c.fate = "intact")
        BY <1>1, <1>9 DEF CursorsPoint, Points
      <3> QED
        BY <2>2, <3>1 DEF ShrinkOne
    <2> QED
      BY <2>1, <2>3 DEF Image
  <1>10. Fewer(handles, gs)
    BY <1>7, <1>8, <1>9 DEF Fewer
  <1> QED
    BY <1>1, <1>2, <1>3, <1>10

(* A file that no cursor knows appears at a path.                           *)
LEMMA NewBirth ==
    ASSUME NEW fs, NEW gs, NEW n, NEW hs, DOMAIN gs \subseteq DOMAIN fs \cup {n},
           \A m \in DOMAIN gs : m # n => gs[m].born = fs[m].born,
           \A m \in DOMAIN fs : m # n => fs[m].born # gs[n].born,
           OneFile(fs), CursorsPoint(hs, fs),
           \A s \in DOMAIN hs : \A c \in Cursors(hs[s]) :
              c.fate = "intact" => c.born # gs[n].born
    PROVE  OneFile(gs) /\ CursorsPoint(hs, gs)
  <1>1. OneFile(gs)
    <2>1. ASSUME NEW k \in DOMAIN gs, NEW m \in DOMAIN gs, gs[k].born = gs[m].born
          PROVE  k = m
      <3>1. CASE k # n /\ m # n
        BY <2>1, <3>1 DEF OneFile
      <3>2. CASE k = n \/ m = n
        BY <2>1, <3>2
      <3> QED
        BY <3>1, <3>2
    <2> QED
      BY <2>1 DEF OneFile
  <1>2. CursorsPoint(hs, gs)
    <2>1. ASSUME NEW s \in DOMAIN hs, NEW c \in Cursors(hs[s])
          PROVE  Points(c, hs[s].name, gs)
      <3>1. Points(c, hs[s].name, fs)
        BY DEF CursorsPoint
      <3>2. ASSUME c.fate = "intact", NEW m \in DOMAIN gs, gs[m].born = c.born
            PROVE  m = hs[s].name
        <4>1. m # n
          BY <3>2
        <4> QED
          BY <3>1, <3>2, <4>1 DEF Points
      <3> QED
        BY <3>1, <3>2 DEF Points
    <2> QED
      BY <2>1 DEF CursorsPoint
  <1> QED
    BY <1>1, <1>2

(* After a rename or a removal no cursor of the file counts as intact.      *)
LEMMA MovedCursors ==
    ASSUME OpenedInv, CursorsPoint(handles, files), NEW b,
           NEW F \in {MoveOne(b), OrphanOne(b)}, NEW gs, MappedBy(handles, gs, F)
    PROVE  /\ DOMAIN gs = DOMAIN handles
           /\ CursorsPoint(gs, files)
           /\ \A s \in DOMAIN gs : \A c \in Cursors(gs[s]) :
                 c.fate = "intact" => c.born # b /\ c \in Cursors(handles[s])
  <1>1. /\ DOMAIN gs = DOMAIN handles
        /\ \A s \in DOMAIN handles : gs[s].name = handles[s].name
        /\ \A s \in DOMAIN handles : Cursors(gs[s]) = Image(F, Cursors(handles[s]))
    BY DEF MappedBy, SameHandles
  <1>2. ASSUME NEW s \in DOMAIN handles, NEW c \in Cursors(gs[s])
        PROVE  c.fate = "moved" \/ (c.born # b /\ c \in Cursors(handles[s]))
    <2>1. PICK d \in Cursors(handles[s]) : c = F[d]
      BY <1>1 DEF Image
    <2>2. d \in CursorType
      <3>1. handles[s] \in HandleType
        BY DEF OpenedInv, HandlesTyped
      <3> QED
        BY <3>1, OptionalSet DEF HandleType, Cursors
    <2>3. CASE F = MoveOne(b)
      <3>1. c = IF d.born = b THEN [d EXCEPT !.fate = "moved"] ELSE d
        BY <2>1, <2>2, <2>3 DEF MoveOne
      <3> QED
        BY <2>2, <3>1 DEF CursorType
    <2>4. CASE F = OrphanOne(b)
      <3>1. c = IF d.born = b THEN [d EXCEPT !.fate = "moved", !.born = 0, !.size = 0] ELSE d
        BY <2>1, <2>2, <2>4 DEF OrphanOne
      <3> QED
        BY <2>2, <3>1 DEF CursorType
    <2> QED
      BY <2>3, <2>4
  <1>3. CursorsPoint(gs, files)
    <2>1. ASSUME NEW s \in DOMAIN gs, NEW c \in Cursors(gs[s])
          PROVE  Points(c, gs[s].name, files)
      <3>1. CASE c.fate = "moved"
        BY <3>1 DEF Points
      <3>2. CASE c \in Cursors(handles[s])
        BY <3>2, <1>1 DEF CursorsPoint
      <3> QED
        BY <3>1, <3>2, <1>1, <1>2
    <2> QED
      BY <2>1 DEF CursorsPoint
  <1>4. \A s \in DOMAIN gs : \A c \in Cursors(gs[s]) :
           c.fate = "intact" => c.born # b /\ c \in Cursors(handles[s])
    BY <1>1, <1>2
  <1> QED
    BY <1>1, <1>3, <1>4

(* A new file differs from all files and from what the cursors remember.    *)
LEMMA NewIsNew ==
    ASSUME VolumeInv, OpenedInv
    PROVE  /\ \A n \in DOMAIN files : files[n].born # NewFile.born
           /\ \A s \in DOMAIN handles : \A c \in Cursors(handles[s]) :
                 c.born # NewFile.born
  <1>1. NewFile.born \notin Remembered
    BY NewFileTyped DEF VolumeInv, OpenedInv
  <1>2. \A n \in DOMAIN files : files[n].born \in Remembered
    BY DEF Remembered
  <1>3. ASSUME NEW s \in DOMAIN handles, NEW c \in Cursors(handles[s])
        PROVE  c.born \in Remembered
    <2>1. c \in UNION {Cursors(handles[i]) : i \in DOMAIN handles}
      OBVIOUS
    <2> QED
      BY <2>1 DEF Remembered
  <1> QED
    BY <1>1, <1>2, <1>3

(* REMOVE orphans the cursors of the file.                                  *)
LEMMA RemoveFileFresh ==
    ASSUME VolumeInv, OpenedInv, FreshInv, NEW id, NEW n, RemoveFile(id, n)
    PROVE  FreshInv'
  <1>1. files' = Without(files, n) /\ handles' = Orphaned(handles, files[n].born)
    BY DEF RemoveFile
  <1>2. DOMAIN files' \subseteq DOMAIN files /\ \A m \in DOMAIN files' : files'[m] = files[m]
    BY <1>1 DEF Without, Restrict
  <1>3. PICK b : b = files[n].born
    OBVIOUS
  <1>4. MappedBy(handles, handles', OrphanOne(b))
    BY <1>1, <1>3, OrphanedIs DEF OpenedInv
  <1>5. CursorsPoint(handles', files)
    BY <1>4, MovedCursors DEF FreshInv
  <1> QED
    BY <1>2, <1>5, SameBirths DEF FreshInv

(* RENAME moves the cursors of the file, or orphans them.                   *)
LEMMA RenameFresh ==
    ASSUME VolumeInv, OpenedInv, FreshInv, NEW id, NEW from, NEW to, Rename(id, from, to)
    PROVE  FreshInv'
  <1>1. ASSUME NEW born, NEW b, b = files[from].born, from \in DOMAIN files,
               files' = Put(Without(files, from), to, [files[from] EXCEPT !.born = born]),
               NEW F \in {MoveOne(b), OrphanOne(b)}, MappedBy(handles, handles', F),
               \A m \in DOMAIN files : m # from => files[m].born # born,
               \A s \in DOMAIN handles : \A c \in Cursors(handles[s]) :
                  c.born # b => c.born # born
        PROVE  FreshInv'
    <2> DEFINE rest == Without(files, from)
    <2>1. /\ DOMAIN rest = DOMAIN files \ {from}
          /\ \A m \in DOMAIN rest : rest[m] = files[m]
      BY DEF Without, Restrict
    <2>2. PICK g : g = [files[from] EXCEPT !.born = born]
      OBVIOUS
    <2>3. IsFile(files[from])
      BY <1>1 DEF VolumeInv, FilesTyped
    <2>4. g.born = born
      BY <2>2, <2>3 DEF IsFile
    <2> HIDE DEF rest
    <2>5. /\ DOMAIN files' = DOMAIN rest \cup {to} /\ files'[to] = g
          /\ \A m \in DOMAIN rest : m # to => files'[m] = rest[m]
      BY <1>1, <2>2 DEF Put, rest
    <2>6. /\ DOMAIN handles' = DOMAIN handles /\ CursorsPoint(handles', files)
          /\ \A s \in DOMAIN handles' : \A c \in Cursors(handles'[s]) :
                c.fate = "intact" => c.born # b /\ c \in Cursors(handles[s])
      BY <1>1, MovedCursors DEF FreshInv
    <2>7. OneFile(rest) /\ CursorsPoint(handles', rest)
      BY <2>1, <2>6, SameBirths DEF FreshInv
    <2>8. \A m \in DOMAIN rest : m # to => rest[m].born # files'[to].born
      BY <1>1, <2>1, <2>4, <2>5
    <2>9. \A s \in DOMAIN handles' : \A c \in Cursors(handles'[s]) :
             c.fate = "intact" => c.born # files'[to].born
      BY <1>1, <2>4, <2>5, <2>6
    <2>10. \A m \in DOMAIN files' : m # to => files'[m].born = rest[m].born
      BY <2>5
    <2> QED
      BY <2>5, <2>7, <2>8, <2>9, <2>10, NewBirth DEF FreshInv
  <1>2. CASE /\ from \in DOMAIN files
             /\ files' = Put(Without(files, from), to,
                             [files[from] EXCEPT !.born = files[from].born])
             /\ handles' = Moved(handles, files[from].born)
    <2>1. PICK b : b = files[from].born
      OBVIOUS
    <2>2. MappedBy(handles, handles', MoveOne(b))
      BY <1>2, <2>1, MovedIs DEF OpenedInv
    <2>3. \A m \in DOMAIN files : m # from => files[m].born # b
      BY <1>2, <2>1 DEF FreshInv, OneFile
    <2>4. files' = Put(Without(files, from), to, [files[from] EXCEPT !.born = b])
      BY <1>2, <2>1
    <2> QED
      BY <1>1, <1>2, <2>1, <2>2, <2>3, <2>4
  <1>3. CASE /\ from \in DOMAIN files
             /\ files' = Put(Without(files, from), to,
                             [files[from] EXCEPT !.born = NewFile.born])
             /\ handles' = Orphaned(handles, files[from].born)
    <2>1. PICK b : b = files[from].born
      OBVIOUS
    <2>2. MappedBy(handles, handles', OrphanOne(b))
      BY <1>3, <2>1, OrphanedIs DEF OpenedInv
    <2>3. PICK born : born = NewFile.born
      OBVIOUS
    <2>4. files' = Put(Without(files, from), to, [files[from] EXCEPT !.born = born])
      BY <1>3, <2>3
    <2>5. /\ \A m \in DOMAIN files : m # from => files[m].born # born
          /\ \A s \in DOMAIN handles : \A c \in Cursors(handles[s]) :
                c.born # b => c.born # born
      BY <2>3, NewIsNew
    <2> QED
      BY <1>1, <1>3, <2>1, <2>2, <2>4, <2>5
  <1>4. CASE UNCHANGED <<files, handles>>
    BY <1>4, SameFreshness, FewerReflexive
  <1> QED
    BY <1>2, <1>3, <1>4 DEF Rename

(* CLOSE drops the cursors of the handle.                                   *)
LEMMA CloseFresh ==
    ASSUME FreshInv, NEW id, NEW t, Close(id, t)
    PROVE  FreshInv'
  <1>1. handles' = Without(handles, t[2]) /\ files' = files
    BY DEF Close, volume
  <1>2. Fewer(handles, handles')
    BY <1>1 DEF Without, Restrict, Fewer
  <1> QED
    BY <1>1, <1>2, SameFreshness

(* The handle that OPEN gives out has no cursor.                            *)
LEMMA OpenDoneFewer ==
    ASSUME NEW id, NEW n, NEW flags, NEW f, NEW gs, OpenDone(id, n, flags, f, gs),
           Fewer(handles, gs)
    PROVE  files' = Put(files, n, f) /\ Fewer(handles, handles')
  <1>1. CASE handles' = gs
    BY <1>1 DEF OpenDone
  <1>2. ASSUME NEW s, NEW h, handles' = Put(gs, s, h), h.append = {}, h.read = {}
        PROVE  Fewer(handles, handles')
    <2>1. /\ DOMAIN handles' = DOMAIN gs \cup {s} /\ handles'[s] = h
          /\ \A i \in DOMAIN gs : i # s => handles'[i] = gs[i]
      BY <1>2 DEF Put
    <2>2. Cursors(h) = {}
      BY <1>2 DEF Cursors
    <2> QED
      BY <2>1, <2>2 DEF Fewer
  <1>3. CASE FreeSlots # {}
    <2>1. PICK s : s = Min(FreeSlots)
      OBVIOUS
    <2>2. PICK h : h = [name |-> n,
                        readable |-> "read" \in flags \/ "write" \notin flags,
                        writable |-> "write" \in flags,
                        appends |-> "append" \in flags, append |-> {}, read |-> {}]
      OBVIOUS
    <2>3. handles' = Put(gs, s, h) /\ files' = Put(files, n, f)
      BY <1>3, <2>1, <2>2 DEF OpenDone
    <2> QED
      BY <1>2, <2>2, <2>3
  <1>4. CASE FreeSlots = {}
    BY <1>1, <1>4 DEF OpenDone
  <1> QED
    BY <1>3, <1>4

(* OPEN of a new file, of one that is cut, or of one that stays as it is.   *)
LEMMA OpenFresh ==
    ASSUME VolumeInv, OpenedInv, FreshInv, ~CardFails, NEW id, NEW n, NEW flags,
           NEW perm, Open(id, n, flags, perm)
    PROVE  FreshInv'
  <1> DEFINE new  == n \notin DOMAIN files
             cut  == ~new /\ {"write", "trunc"} \subseteq flags
             file == IF new THEN NewFile
                     ELSE IF cut THEN [files[n] EXCEPT !.data = <<>>] ELSE files[n]
             hs   == IF cut THEN Shrunk(handles, file.born) ELSE handles
             g    == IF new THEN Permitted(file, perm) ELSE file
             gs   == IF cut THEN InvalidatedFile(hs, n) ELSE hs
  <1>1. OpenDone(id, n, flags, g, gs)
    BY DEF Open
  <1>2. CASE new
    <2>1. g = Permitted(NewFile, perm) /\ gs = handles
      BY <1>2
    <2>2. g.born = NewFile.born
      <3>1. IsFile(NewFile)
        BY NewFileTyped DEF VolumeInv, OpenedInv
      <3> HIDE DEF g
      <3> QED
        BY <2>1, <3>1, PermittedIs
    <2> HIDE DEF g, gs
    <2>3. files' = Put(files, n, g) /\ Fewer(handles, handles')
      BY <1>1, <2>1, OpenDoneFewer, FewerReflexive
    <2>4. CursorsPoint(handles', files)
      BY <2>3, FewerPoint DEF FreshInv
    <2>5. /\ DOMAIN files' = DOMAIN files \cup {n} /\ files'[n] = g
          /\ \A m \in DOMAIN files' : m # n => files'[m].born = files[m].born
      BY <2>3 DEF Put
    <2>6. \A m \in DOMAIN files : m # n => files[m].born # files'[n].born
      BY <2>2, <2>5, NewIsNew
    <2>7. \A s \in DOMAIN handles' : \A c \in Cursors(handles'[s]) :
             c.fate = "intact" => c.born # files'[n].born
      BY <2>2, <2>3, <2>5, NewIsNew DEF Fewer
    <2> QED
      BY <2>4, <2>5, <2>6, <2>7, NewBirth DEF FreshInv
  <1>3. CASE ~new
    <2>1. n \in DOMAIN files /\ IsFile(files[n])
      BY <1>3 DEF VolumeInv, FilesTyped
    <2>2. file.born = files[n].born /\ g = file
      <3>1. [files[n] EXCEPT !.data = <<>>].born = files[n].born
        BY <2>1 DEF IsFile
      <3> QED
        BY <1>3, <3>1
    <2>3. Fewer(handles, gs)
      <3>1. CASE cut
        <4>1. gs = InvalidatedFile(Shrunk(handles, files[n].born), n)
          BY <2>2, <3>1
        <4> HIDE DEF gs
        <4> QED
          BY <2>1, <4>1, CutForgets DEF FreshInv
      <3>2. CASE ~cut
        BY <3>2, FewerReflexive
      <3> QED
        BY <3>1, <3>2
    <2> HIDE DEF file, g, gs
    <2>4. files' = Put(files, n, g) /\ Fewer(handles, handles')
      BY <1>1, <2>3, OpenDoneFewer
    <2> QED
      BY <2>1, <2>2, <2>4, PutFresh, FewerPoint DEF FreshInv
  <1> QED
    BY <1>2, <1>3

(* SETSTAT that cuts a file invalidates its cursors.                        *)
LEMMA SetstatFresh ==
    ASSUME VolumeInv, OpenedInv, FreshInv, ~CardFails, NEW id, NEW n, NEW size,
           NEW perm, ApplySetstat(id, n, size, perm)
    PROVE  FreshInv'
  <1> DEFINE f    == files[n]
             data == IF size = {} THEN f.data
                     ELSE SubSeq(f.data, 1, Min(size \cup {Len(f.data)}))
             cut  == [f EXCEPT !.data = data]
             hs   == IF data = f.data THEN handles ELSE Shrunk(handles, f.born)
  <1>1. n \in DOMAIN files
    BY DEF ApplySetstat, SetstatRefused
  <1>2. CASE \E k \in size : k > Len(f.data)
    <2>1. PICK k \in size : StartResize(id, n, k, perm)
      BY <1>2 DEF ApplySetstat
    <2>2. UNCHANGED <<files, handles>>
      BY <2>1 DEF StartResize, volume, opened
    <2> QED
      BY <2>2, SameFreshness, FewerReflexive
  <1>3. CASE ~\E k \in size : k > Len(f.data)
    <2>1. /\ files' = Put(files, n, Permitted(cut, perm))
          /\ handles' = InvalidatedFile(hs, n)
      BY <1>3 DEF ApplySetstat
    <2>2. PICK d : d = data
      OBVIOUS
    <2>3. PICK g : g = Permitted(cut, perm)
      OBVIOUS
    <2>4. g.born = f.born
      <3>1. f \in [born : Births, readonly : BOOLEAN, data : Contents]
        BY <1>1 DEF VolumeInv, FilesTyped, IsFile, Contents
      <3>2. PICK e : e = [f EXCEPT !.data = d]
        OBVIOUS
      <3>3. e.born = f.born /\ e = [born |-> f.born, readonly |-> f.readonly, data |-> d]
        BY <3>1, <3>2
      <3>4. g = Permitted(e, perm)
        BY <2>2, <2>3, <3>2
      <3> QED
        BY ONLY <3>3, <3>4 DEF Permitted
    <2>5. Fewer(handles, InvalidatedFile(hs, n))
      <3>1. CASE data = f.data
        <4>1. hs = handles
          BY <3>1
        <4> HIDE DEF hs
        <4> QED
          BY <4>1, InvalidatedIsFewer DEF OpenedInv
      <3>2. CASE data # f.data
        <4>1. hs = Shrunk(handles, files[n].born)
          BY <3>2
        <4> HIDE DEF hs
        <4> QED
          BY <1>1, <4>1, CutForgets DEF FreshInv
      <3> QED
        BY <3>1, <3>2
    <2> HIDE DEF hs, cut, data
    <2>6. files' = Put(files, n, g) /\ Fewer(handles, handles')
      BY <2>1, <2>3, <2>5
    <2> QED
      BY <1>1, <2>4, <2>6, PutFresh, FewerPoint DEF FreshInv
  <1> QED
    BY <1>2, <1>3

(* Whatever is requested.                                                   *)
LEMMA RequestFresh ==
    ASSUME VolumeInv, OpenedInv, FreshInv, ~CardFails, NEW id, Dispatch(id)
    PROVE  FreshInv'
  <1>1. ASSUME UNCHANGED <<files, handles>> PROVE FreshInv'
    BY <1>1, SameFreshness, FewerReflexive
  <1>2. ASSUME NEW kind, Answer(kind, id) PROVE UNCHANGED <<files, handles>>
    BY <1>2 DEF Answer, volume, opened
  <1>3. ASSUME NEW n, \/ Opendir(id, n) \/ Mkdir(id, n) \/ Rmdir(id, n) \/ SetstatFolder(id, n)
        PROVE  UNCHANGED <<files, handles>>
    <2>1. CASE Opendir(id, n)
      BY <2>1, <1>2 DEF Opendir, Fail, volume
    <2>2. CASE Mkdir(id, n) \/ Rmdir(id, n)
      BY <2>2 DEF Mkdir, Rmdir, opened
    <2>3. CASE SetstatFolder(id, n)
      BY <2>3, <1>2 DEF SetstatFolder
    <2> QED
      BY <1>3, <2>1, <2>2, <2>3
  <1>4. ASSUME NEW t, NEW offset, NEW wanted, \/ Fsync(id, t) \/ Readdir(id, t)
                                              \/ Read(id, t, offset, wanted)
        PROVE  UNCHANGED <<files, handles>>
    <2>1. CASE Fsync(id, t) \/ Readdir(id, t)
      BY <2>1, <1>2 DEF Fsync, Readdir
    <2>2. CASE Read(id, t, offset, wanted)
      BY <2>2, <1>2 DEF Read, volume, opened
    <2> QED
      BY <1>4, <2>1, <2>2
  <1>5. ASSUME NEW t, NEW size, NEW perm, Fsetstat(id, t, size, perm)
        PROVE  FreshInv'
    <2>1. CASE ApplySetstat(id, handles[t[2]].name, size, perm)
      BY <2>1, SetstatFresh
    <2>2. CASE Answer("ok", id)
      BY <2>2, <1>1, <1>2
    <2> QED
      BY <1>5, <2>1, <2>2 DEF Fsetstat
  <1>6. CASE Query(id)
    BY <1>6, <1>1, <1>2 DEF Query
  <1>7. \/ Query(id)
        \/ \E n : \/ Opendir(id, n) \/ Mkdir(id, n) \/ Rmdir(id, n) \/ SetstatFolder(id, n)
        \/ \E n : RemoveFile(id, n)
        \/ \E n, to : Rename(id, n, to)
        \/ \E n, flags, perm : Open(id, n, flags, perm)
        \/ \E n, size, perm : ApplySetstat(id, n, size, perm)
        \/ \E t : Close(id, t)
        \/ \E t, offset, wanted : \/ Fsync(id, t) \/ Readdir(id, t)
                                  \/ Read(id, t, offset, wanted)
        \/ \E t, size, perm : Fsetstat(id, t, size, perm)
    BY ZenonT(60) DEF Dispatch
  <1> QED
    BY <1>1, <1>3, <1>4, <1>5, <1>6, <1>7, RemoveFileFresh, RenameFresh, OpenFresh,
       SetstatFresh, CloseFresh

(* The cursor of a file at a path points there.                             *)
LEMMA CursorPoints ==
    ASSUME NEW fs, OneFile(fs), NEW n \in DOMAIN fs, NEW f, f.born = fs[n].born, NEW at
    PROVE  Points(Cursor(f, at), n, fs)
  BY DEF Cursor, Points, OneFile

(* A chunk that reaches the card leaves a cursor at the path of its handle. *)
LEMMA StoredFresh ==
    ASSUME OpenedInv, FreshInv, NEW slot \in DOMAIN handles, NEW at, NEW units, NEW r,
           handles[slot].name \in DOMAIN files,
           Written(handles[slot], files[handles[slot].name], at, units, r),
           files' = Put(files, handles[slot].name, r.file),
           handles' = IF r.ok THEN InvalidatedWritten(Put(handles, slot, r.handle), slot)
                      ELSE Put(handles, slot, r.handle)
    PROVE  FreshInv'
  <1>1. PICK h : h = handles[slot]
    OBVIOUS
  <1>2. PICK n \in DOMAIN files : n = h.name
    BY <1>1
  <1>3. PICK hs : hs = Put(handles, slot, r.handle)
    OBVIOUS
  <1>4. /\ DOMAIN hs = DOMAIN handles /\ hs[slot] = r.handle
        /\ \A s \in DOMAIN handles : s # slot => hs[s] = handles[s]
    BY <1>3 DEF Put
  <1>5. /\ r.file.born = files[n].born /\ r.handle \in HandleType /\ r.handle.name = n
        /\ r.handle.read \subseteq h.read
        /\ \/ r.handle.append \subseteq h.append
           \/ r.handle.append = {Cursor(r.file, at + Len(units))}
    BY <1>1, <1>2 DEF Written
  <1>6. HandlesTyped(hs)
    BY <1>4, <1>5 DEF OpenedInv, HandlesTyped
  <1>7. ASSUME NEW c \in Cursors(r.handle) PROVE Points(c, n, files)
    <2>1. CASE c \in Cursors(h)
      BY <2>1, <1>1, <1>2 DEF FreshInv, CursorsPoint
    <2>2. CASE c = Cursor(r.file, at + Len(units))
      BY <2>2, <1>5, CursorPoints DEF FreshInv
    <2> QED
      BY <2>1, <2>2, <1>5 DEF Cursors
  <1>8. CursorsPoint(hs, files)
    BY <1>4, <1>5, <1>7 DEF FreshInv, CursorsPoint
  <1>9. Fewer(hs, handles')
    BY <1>3, <1>6, InvalidatedWrittenIsFewer, FewerReflexive
  <1>10. CursorsPoint(handles', files)
    BY <1>8, <1>9, FewerPoint
  <1>11. files' = Put(files, n, r.file)
    BY <1>1, <1>2
  <1> QED
    BY <1>5, <1>10, <1>11, PutFresh

(* Every step of a WRITE.                                                   *)
LEMMA WriteFresh ==
    ASSUME IInv, FreshInv, NEW w, AtWrite(w), ContinueWrite(w)
    PROVE  FreshInv'
  <1> DEFINE h == handles[w.slot]
             f == files[h.name]
  <1>1. CASE UNCHANGED <<files, handles>>
    BY <1>1, SameFreshness, FewerReflexive
  <1>2. ASSUME h.name \in DOMAIN files, w.slot \in DOMAIN handles,
               NEW at \in Nat, NEW units \in Contents, NEW r \in WriteOutcomes(h, at, units),
               files' = Put(files, h.name, r.file),
               handles' = IF r.ok THEN InvalidatedWritten(Put(handles, w.slot, r.handle), w.slot)
                          ELSE Put(handles, w.slot, r.handle)
        PROVE  FreshInv'
    <2>1. h \in HandleType
      BY <1>2 DEF IInv, OpenedInv, HandlesTyped
    <2>2. Written(h, f, at, units, r)
      BY <1>2, <2>1, OutcomesOfWrite DEF IInv, VolumeInv
    <2> QED
      BY <1>2, <2>2, StoredFresh DEF IInv
  <1>3. ASSUME CanStore(w), h.name \in DOMAIN files
        PROVE  /\ w.slot \in DOMAIN handles /\ Len(f.data) \in Nat
               /\ WriteOffset(w) \in Nat /\ WriteChunk \in Nat \ {0}
    <2>1. w.slot \in DOMAIN handles /\ w.offset \in Nat
      BY <1>3, SftpAssumption DEF AtWrite, WriteOK, CanStore
    <2>2. Len(f.data) \in Nat
      BY <1>3 DEF IInv, VolumeInv, FilesTyped, IsFile
    <2> QED
      BY <2>1, <2>2, SftpAssumption DEF WriteOffset
  <1>4. CASE FillGap(w)
    <2> DEFINE k == Min({WriteOffset(w) - Len(f.data), WriteChunk})
    <2>1. CanStore(w) /\ h.name \in DOMAIN files /\ WriteOffset(w) - Len(f.data) > 0
      BY <1>4 DEF FillGap
    <2>2. PICK r \in WriteOutcomes(h, Len(f.data), Zeros(k)) :
            /\ files' = Put(files, h.name, r.file)
            /\ handles' = IF r.ok THEN InvalidatedWritten(Put(handles, w.slot, r.handle), w.slot)
                          ELSE Put(handles, w.slot, r.handle)
      BY <1>4 DEF FillGap
    <2>3. k \in Nat
      <3>1. WriteOffset(w) - Len(f.data) \in Nat
        <4>1. PICK m : m = Len(f.data)
          OBVIOUS
        <4>2. PICK at : at = WriteOffset(w)
          OBVIOUS
        <4>3. m \in Nat /\ at \in Nat /\ at - m > 0
          BY <4>1, <4>2, <2>1, <1>3
        <4>4. at - m \in Nat
          BY ONLY <4>3
        <4> QED
          BY ONLY <4>1, <4>2, <4>4
      <3>2. WriteChunk \in Nat \ {0}
        BY SftpAssumption
      <3> QED
        BY ONLY <3>1, <3>2, ChunkIs
    <2> HIDE DEF k
    <2>4. Zeros(k) \in Contents
      BY <2>3, ZerosAre
    <2> QED
      BY <2>1, <2>2, <2>4, <1>2, <1>3
  <1>5. CASE StorePayload(w)
    <2> DEFINE k == Count(w)
    <2>1. CanStore(w) /\ h.name \in DOMAIN files
      BY <1>5 DEF StorePayload
    <2>2. PICK units \in [1 .. k -> Symbols] : \E r \in WriteOutcomes(h, WriteOffset(w), units) :
            /\ files' = Put(files, h.name, r.file)
            /\ handles' = IF r.ok THEN InvalidatedWritten(Put(handles, w.slot, r.handle), w.slot)
                          ELSE Put(handles, w.slot, r.handle)
      BY <1>5 DEF StorePayload
    <2>3. units \in Contents
      BY CountIs, UnitsAre
    <2> QED
      BY <2>1, <2>2, <2>3, <1>2, <1>3
  <1>6. CASE EndWrite(w) \/ DiscardPayload(w) \/ FileGone(w)
    <2>1. UNCHANGED <<files, handles>>
      BY <1>6 DEF EndWrite, DiscardPayload, FileGone, volume
    <2> QED
      BY <2>1, <1>1
  <1> QED
    BY <1>4, <1>5, <1>6 DEF ContinueWrite

(* Every step of a READ.                                                    *)
LEMMA ReadFresh ==
    ASSUME IInv, FreshInv, NEW s, AtRead(s), ContinueRead(s)
    PROVE  FreshInv'
  <1> DEFINE h == handles[s.slot]
  <1>1. files' = files /\ s.slot \in DOMAIN handles
    BY DEF ContinueRead, volume, AtRead, ReadOK
  <1>2. h \in HandleType
    BY <1>1 DEF IInv, OpenedInv, HandlesTyped
  <1>3. ASSUME NEW C, handles' = [handles EXCEPT ![s.slot].read = C],
               \A c \in C : Points(c, h.name, files)
        PROVE  FreshInv'
    <2>1. PICK g : g = [h EXCEPT !.read = C]
      OBVIOUS
    <2>2. g.name = h.name /\ g.read = C /\ g.append = h.append
      BY <1>2, <2>1 DEF HandleType
    <2>3. /\ DOMAIN handles' = DOMAIN handles /\ handles'[s.slot] = g
          /\ \A i \in DOMAIN handles : i # s.slot => handles'[i] = handles[i]
      BY <1>1, <1>3, <2>1
    <2>4. ASSUME NEW c \in Cursors(g) PROVE Points(c, h.name, files)
      <3>1. CASE c \in C
        BY <3>1, <1>3
      <3>2. CASE c \in Cursors(h)
        BY <3>2, <1>1 DEF FreshInv, CursorsPoint
      <3> QED
        BY <3>1, <3>2, <2>2 DEF Cursors
    <2>5. CursorsPoint(handles', files)
      BY <2>2, <2>3, <2>4 DEF FreshInv, CursorsPoint
    <2> QED
      BY <2>5, <1>1 DEF FreshInv
  <1>4. CASE handles' = [handles EXCEPT ![s.slot].read = {}]
    <2>1. PICK C : C = {}
      OBVIOUS
    <2>2. handles' = [handles EXCEPT ![s.slot].read = C]
      BY <1>4, <2>1
    <2>3. \A c \in C : Points(c, h.name, files)
      BY <2>1
    <2> QED
      BY <1>3, <2>2, <2>3
  <1>5. ASSUME NEW at, h.name \in DOMAIN files,
               handles' = [handles EXCEPT ![s.slot].read = {Cursor(files[h.name], at)}]
        PROVE  FreshInv'
    <2>1. PICK C : C = {Cursor(files[h.name], at)}
      OBVIOUS
    <2>2. \A c \in C : Points(c, h.name, files)
      BY <2>1, <1>5, CursorPoints DEF FreshInv
    <2>3. handles' = [handles EXCEPT ![s.slot].read = C]
      BY <1>5, <2>1
    <2> QED
      BY <1>3, <2>2, <2>3
  <1> QED
    BY <1>4, <1>5 DEF ContinueRead

(* Every step of a growing SETSTAT.                                         *)
LEMMA ResizeFresh ==
    ASSUME IInv, FreshInv, NEW j, AtResize(j), ContinueResize(j)
    PROVE  FreshInv'
  <1> DEFINE n    == j.file.name
             f    == files[n]
             todo == j.size - Len(f.data)
  <1>1. /\ j \in JobType /\ n \in DOMAIN files /\ Len(f.data) <= j.size
    BY DEF AtResize, JobOK
  <1>2. /\ j.file \in HandleType /\ j.size \in 0 .. MaxSize /\ IsFile(f) /\ Len(f.data) \in Nat
        /\ MaxSize \in Nat /\ WriteChunk \in Nat \ {0}
    BY <1>1, SftpAssumption DEF JobType, IInv, VolumeInv, FilesTyped, IsFile
  <1>3. ASSUME NEW g, g.born = f.born, files' = Put(files, n, g),
               handles' = InvalidatedFile(handles, n) \/ handles' = handles
        PROVE  FreshInv'
    <2>1. Fewer(handles, handles')
      BY <1>3, InvalidatedIsFewer, FewerReflexive DEF IInv, OpenedInv
    <2> QED
      BY <2>1, <1>1, <1>3, FewerPoint, PutFresh DEF FreshInv
  <1>4. CASE todo > 0
    <2> DEFINE k == Min({todo, WriteChunk})
    <2>1. PICK r \in WriteOutcomes(j.file, Len(f.data), Zeros(k)) :
            /\ files' = Put(files, n, r.file)
            /\ handles' = IF r.ok THEN InvalidatedFile(handles, n) ELSE handles
      BY <1>4 DEF ContinueResize
    <2>2. todo \in Nat
      BY <1>1, <1>2
    <2>3. k \in Nat
      BY <2>2, <1>2, ChunkIs
    <2> HIDE DEF k
    <2>4. Zeros(k) \in Contents
      BY <2>3, ZerosAre
    <2>5. Written(j.file, f, Len(f.data), Zeros(k), r)
      BY <2>1, <2>4, <1>1, <1>2, OutcomesOfWrite DEF IInv, VolumeInv
    <2>6. r.file.born = f.born
      BY <2>5 DEF Written
    <2> QED
      BY <2>1, <2>6, <1>3
  <1>5. CASE ~(todo > 0)
    <2>1. CASE files' = Put(files, n, Permitted(f, j.perm)) /\ handles' = InvalidatedFile(handles, n)
      BY <2>1, <1>2, <1>3, PermittedIs
    <2>2. CASE UNCHANGED <<files, handles>>
      BY <2>2, SameFreshness, FewerReflexive
    <2> QED
      BY <1>5, <2>1, <2>2 DEF ContinueResize
  <1> QED
    BY <1>4, <1>5

(* A step of the server.                                                    *)
LEMMA StepFresh ==
    ASSUME IInv, FreshInv, ~CardFails, Step
    PROVE  FreshInv'
  <1>1. ASSUME UNCHANGED <<files, handles>> PROVE FreshInv'
    BY <1>1, SameFreshness, FewerReflexive
  <1>2. ~fatal /\ out = <<>>
    BY DEF Step
  <1>3. CASE DiscardOversized \/ ParseNext
    <2>1. CASE ParseRequest(Head(input))
      BY <2>1, RequestFresh DEF ParseRequest, IInv
    <2>2. CASE ParseWrite(Head(input))
      BY <2>2, <1>1 DEF ParseWrite, BeginWrite, volume, opened
    <2>3. CASE DiscardOversized \/ ParseOversized(Head(input)) \/ ParseBroken(Head(input))
      BY <2>3, <1>1 DEF DiscardOversized, ParseOversized, ParseBroken, volume, opened
    <2> QED
      BY <1>3, <2>1, <2>2, <2>3 DEF ParseNext
  <1>4. CASE AtRest
    <2>1. readStream = {} /\ writeStream = {} /\ resize = {}
      BY <1>4 DEF AtRest, NoWork
    <2> QED
      BY <2>1, <1>3 DEF Step
  <1>5. ASSUME NEW s, AtRead(s) PROVE FreshInv'
    <2>1. readStream = {s} /\ resize = {}
      BY <1>5 DEF AtRead
    <2>2. ContinueRead(s)
      BY <2>1 DEF Step, Idle
    <2> QED
      BY <2>2, <1>5, ReadFresh
  <1>6. ASSUME NEW w, AtWrite(w) PROVE FreshInv'
    <2>1. readStream = {} /\ writeStream = {w} /\ resize = {}
      BY <1>6 DEF AtWrite
    <2>2. ContinueWrite(w)
      BY <2>1 DEF Step, Idle
    <2> QED
      BY <2>2, <1>6, WriteFresh
  <1>7. ASSUME NEW j, AtResize(j) PROVE FreshInv'
    <2>1. resize = {j}
      BY <1>7 DEF AtResize
    <2>2. ContinueResize(j)
      BY <2>1 DEF Step, Idle
    <2> QED
      BY <2>2, <1>7, ResizeFresh
  <1> QED
    BY <1>2, <1>4, <1>5, <1>6, <1>7, AtWork

(* Whatever happens, cursors point where they should.                       *)
LEMMA EveryStepFresh ==
    ASSUME IInv, FreshInv, ~CardFails, [Next]_vars
    PROVE  FreshInv'
  <1>1. CASE ClientLeaves \/ SessionDropped
    <2>1. handles' = [s \in {} |-> 0] /\ files' = files
      BY <1>1 DEF ClientLeaves, SessionDropped, NewSession, volume
    <2>2. Fewer(handles, handles')
      BY <2>1 DEF Fewer
    <2> QED
      BY <2>1, <2>2, SameFreshness
  <1>2. CASE BeginPoll \/ SendOutput \/ ClientAsks \/ ClientSendsPayload \/ UNCHANGED vars
    <2>1. UNCHANGED <<files, handles>>
      BY <1>2 DEF BeginPoll, SendOutput, ClientAsks, ClientSendsPayload, vars, volume, opened
    <2> QED
      BY <2>1, SameFreshness, FewerReflexive
  <1> QED
    BY <1>1, <1>2, StepFresh DEF Next

(* On a card that works, no cursor that the volume would accept points into *)
(* a chain that was cut: the two invalidate functions take every such       *)
(* cursor, under whichever handle it is kept, for any number of handles,    *)
(* files and sizes.                                                         *)
THEOREM CursorsStayFresh ==
    ASSUME ~CardFails
    PROVE  Spec => []CursorsAreFresh
  <1>1. Init => FreshInv
    BY DEF Init, FreshInv, OneFile, CursorsPoint
  <1>2. IInv /\ FreshInv /\ [Next]_vars => FreshInv'
    BY EveryStepFresh
  <1>3. FreshInv => CursorsAreFresh
    BY DEF FreshInv, CursorsPoint, Points, CursorsAreFresh
  <1> QED
    BY <1>1, <1>2, <1>3, Kept, PTL DEF Spec
=============================================================================
