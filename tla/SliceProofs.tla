----------------------------- MODULE SliceProofs ------------------------------
(***************************************************************************)
(* The chains of keys do what they are for, for any keys, any capacity of  *)
(* the slice that Evaluate makes and any capacities that append chooses;   *)
(* the input of a hash is not changed by the buffer that it is put into,   *)
(* whatever its first capacity and however long the input becomes; its     *)
(* bytes, as hexadecimal digits, give the number that they spell; and      *)
(* what a builder has built stays as it is, and preprocessed, however the  *)
(* builder is used afterwards.                                             *)
(***************************************************************************)
EXTENDS VisitChains, HexProperties, Builders, SequenceTheorems, RecursionFacts

------------------------------------------------------------------------------
(***************************************************************************)
(* The chains of keys.                                                     *)
(***************************************************************************)
SliceRecord == [array : Nat, len : Nat]
FrameRecord == [key : Keys, chain : SliceRecord, extended : BOOLEAN]
Arrays == Seq(Keys \cup {Zero})

ChainTypes ==
  /\ chainHeap \in Seq(Arrays)
  /\ frames \in Seq(FrameRecord)

\* Every call but the innermost has appended its key; the length of its slice says how deep
\* it is nested.
DepthIsLength ==
  \A i \in 1..Len(frames) :
    /\ i < Len(frames) => frames[i].extended
    /\ frames[i].chain.len = IF frames[i].extended THEN i ELSE i - 1

\* The slice of every call holds the keys of the calls around it, and its own.
HoldsTheNesting ==
  \A i \in 1..Len(frames) :
    /\ frames[i].chain.array \in 1..Len(chainHeap)
    /\ frames[i].chain.len <= Len(chainHeap[frames[i].chain.array])
    /\ \A j \in 1..frames[i].chain.len :
         chainHeap[frames[i].chain.array][j] = frames[j].key

ChainInv == ChainTypes /\ DepthIsLength /\ HoldsTheNesting

\* The keys of the calls, the innermost last.
NestingOf(fs) == [i \in DOMAIN fs |-> fs[i].key]

------------------------------------------------------------------------------
\* A function on an initial segment of the numbers is a sequence.
LEMMA FunctionsAsSequences ==
  ASSUME NEW S, NEW n \in Nat, NEW f \in [1..n -> S]
  PROVE  f \in Seq(S) /\ Len(f) = n
<1>1. f \in Seq(S)
  BY SeqDef
<1> QED BY <1>1, LenProperties

\* The keys of the calls are a sequence of their number.
LEMMA NestingTypes ==
  ASSUME NEW fs \in Seq(FrameRecord)
  PROVE  /\ NestingOf(fs) \in Seq(Keys)
         /\ Len(NestingOf(fs)) = Len(fs)
         /\ \A i \in 1..Len(fs) : NestingOf(fs)[i] = fs[i].key
<1>1. Len(fs) \in Nat /\ DOMAIN fs = 1..Len(fs)
  BY LenProperties
<1>2. \A i \in 1..Len(fs) : fs[i].key \in Keys
  <2>1. \A i \in 1..Len(fs) : fs[i] \in FrameRecord
    BY ElementOfSeq
  <2> QED BY <2>1 DEF FrameRecord
<1>3. NestingOf(fs) \in [1..Len(fs) -> Keys]
  BY <1>1, <1>2 DEF NestingOf
<1> QED BY <1>1, <1>3, FunctionsAsSequences DEF NestingOf

\* It depends on nothing but the keys.
LEMMA NestingOfSameKeys ==
  ASSUME NEW fs \in Seq(FrameRecord), NEW gs \in Seq(FrameRecord),
         Len(gs) = Len(fs), \A i \in 1..Len(fs) : gs[i].key = fs[i].key
  PROVE  NestingOf(gs) = NestingOf(fs)
<1>1. \A i \in 1..Len(fs) : NestingOf(gs)[i] = NestingOf(fs)[i]
  BY NestingTypes
<1> QED BY <1>1, NestingTypes, SeqEqual

\* A call adds its key.
LEMMA NestingOfOneMore ==
  ASSUME NEW fs \in Seq(FrameRecord), NEW gs \in Seq(FrameRecord), NEW key \in Keys,
         Len(gs) = Len(fs) + 1, \A i \in 1..Len(fs) : gs[i] = fs[i],
         gs[Len(fs) + 1].key = key
  PROVE  NestingOf(gs) = Append(NestingOf(fs), key)
<1> DEFINE n == Len(fs)
           before == NestingOf(fs)
           after == NestingOf(gs)
<1>1. n \in Nat /\ before \in Seq(Keys) /\ Len(before) = n
      /\ \A i \in 1..n : before[i] = fs[i].key
  BY NestingTypes, LenProperties
<1>2. after \in Seq(Keys) /\ Len(after) = n + 1
      /\ \A i \in 1..(n + 1) : after[i] = gs[i].key
  BY NestingTypes
<1>3. (\A i \in 1..n : after[i] = before[i]) /\ after[n + 1] = key
  BY <1>1, <1>2
<1> HIDE DEF n, before, after
<1>4. Append(before, key) \in Seq(Keys) /\ Len(Append(before, key)) = n + 1
  BY <1>1
<1>5. \A i \in 1..(n + 1) : Append(before, key)[i] = after[i]
  BY <1>1, <1>3
<1>6. after = Append(before, key)
  BY <1>2, <1>4, <1>5, SeqEqual
<1> QED BY <1>6 DEF before, after

\* A return takes it away.
LEMMA NestingOfOneLess ==
  ASSUME NEW fs \in Seq(FrameRecord), NEW gs \in Seq(FrameRecord), fs # <<>>,
         Len(gs) = Len(fs) - 1, \A i \in 1..Len(gs) : gs[i] = fs[i]
  PROVE  NestingOf(gs) = SubSeq(NestingOf(fs), 1, Len(fs) - 1)
<1> DEFINE m == Len(fs) - 1
           before == NestingOf(fs)
           after == NestingOf(gs)
           sub == SubSeq(before, 1, m)
<1>1. m \in Nat /\ Len(fs) = m + 1
  BY EmptySeq
<1>2. before \in Seq(Keys) /\ \A i \in 1..Len(fs) : before[i] = fs[i].key /\ before[i] \in Keys
  BY NestingTypes, ElementOfSeq
<1>3. after \in Seq(Keys) /\ Len(after) = m /\ \A i \in 1..m : after[i] = gs[i].key
  BY NestingTypes
<1> HIDE DEF before, after, m
<1>4. \A i \in 1..m : after[i] = before[i] /\ before[i] \in Keys
  <2>1. \A i \in 1..m : i \in 1..Len(gs) /\ i \in 1..Len(fs)
    BY <1>1 DEF m
  <2> QED BY <1>2, <1>3, <2>1
<1>5. /\ sub \in Seq(Keys)
      /\ Len(sub) = IF 1 <= m THEN m - 1 + 1 ELSE 0
      /\ \A i \in 1..(m - 1 + 1) : sub[i] = before[1 + i - 1]
  BY <1>1, <1>4, SubSeqProperties
<1> HIDE DEF sub
<1>6. Len(sub) = m /\ \A i \in 1..m : sub[i] = before[i]
  BY <1>1, <1>5
<1>7. after = sub
  BY <1>3, <1>4, <1>5, <1>6, SeqEqual
<1> QED BY <1>7 DEF sub, after, before, m

\* A slice with a length has an array, which is at least as long.
FitsIts(h, s) ==
  /\ s.len # 0 => s.array # 0
  /\ s.array # 0 => s.array \in 1..Len(h) /\ s.len <= Len(h[s.array])

\* What append promises: a slice with what the slice held and one element behind it, in the
\* same array or in a new one; nothing else in the arrays changes.
KeepsElements(S, h, s, x, r) ==
  /\ r.heap \in Seq(Seq(S)) /\ r.slice \in SliceRecord
  /\ r.slice.len = s.len + 1
  /\ r.slice.array \in 1..Len(r.heap)
  /\ r.slice.len <= Len(r.heap[r.slice.array])
  /\ \A j \in 1..s.len : r.heap[r.slice.array][j] = h[s.array][j]
  /\ r.heap[r.slice.array][s.len + 1] = x
  /\ \/ r.slice.array = s.array /\ s.array # 0 /\ Len(r.heap) = Len(h)
     \/ r.slice.array = Len(h) + 1 /\ Len(r.heap) = Len(h) + 1
  /\ \A a \in 1..Len(h) :
       /\ Len(r.heap[a]) = Len(h[a])
       /\ \A j \in 1..Len(h[a]) : a # s.array \/ j # s.len + 1 => r.heap[a][j] = h[a][j]

\* Both cases of append keep the promise.
LEMMA AppendKeepsElements ==
  ASSUME NEW S, Zero \in S, NEW h \in Seq(Seq(S)), NEW s \in SliceRecord, FitsIts(h, s),
         NEW x \in S, NEW r \in AppendOutcomes(h, s, x)
  PROVE  KeepsElements(S, h, s, x, r)
<1>1. /\ s.len \in Nat /\ s.array \in Nat /\ Len(h) \in Nat
      /\ \A a \in 1..Len(h) : h[a] \in Seq(S) /\ Len(h[a]) \in Nat
  <2>1. \A a \in 1..Len(h) : h[a] \in Seq(S)
    BY ElementOfSeq
  <2> QED BY <2>1, LenProperties DEF SliceRecord
<1>2. CASE s.len < Capacity(h, s)
  <2> DEFINE array == [h[s.array] EXCEPT ![s.len + 1] = x]
             k == s.len + 1
  <2>1. /\ r.heap = [h EXCEPT ![s.array] = array]
        /\ r.slice = [s EXCEPT !.len = s.len + 1]
    BY <1>2 DEF AppendOutcomes, AppendedInPlace
  <2>2. /\ s.array # 0 /\ s.array \in 1..Len(h) /\ s.len < Len(h[s.array])
    BY <1>1, <1>2 DEF Capacity, FitsIts
  <2>3. k \in 1..Len(h[s.array]) /\ k \in Nat
    BY <1>1, <2>2
  <2>4. /\ array \in Seq(S) /\ Len(array) = Len(h[s.array])
        /\ \A j \in 1..Len(h[s.array]) : array[j] = IF j = k THEN x ELSE h[s.array][j]
    <3> HIDE DEF k
    <3>1. /\ [h[s.array] EXCEPT ![k] = x] \in Seq(S)
          /\ Len([h[s.array] EXCEPT ![k] = x]) = Len(h[s.array])
          /\ \A j \in 1..Len(h[s.array]) :
               [h[s.array] EXCEPT ![k] = x][j] = IF j = k THEN x ELSE h[s.array][j]
      BY <1>1, <2>2, <2>3, ExceptSeq
    <3> QED BY <3>1 DEF k
  <2>5. r.slice \in SliceRecord /\ r.slice.array = s.array /\ r.slice.len = s.len + 1
    BY <1>1, <2>1 DEF SliceRecord
  <2>6. \A j \in 1..s.len : j \in 1..Len(h[s.array]) /\ j # k
    BY <1>1, <2>2
  <2>7. s.len + 1 = k
    OBVIOUS
  <2> HIDE DEF array, k
  <2>8. /\ r.heap \in Seq(Seq(S)) /\ Len(r.heap) = Len(h)
        /\ \A a \in 1..Len(h) : r.heap[a] = IF a = s.array THEN array ELSE h[a]
    BY <2>1, <2>2, <2>4, ExceptSeq
  <2>9. r.heap[s.array] = array
    BY <2>2, <2>8
  <2>10. \A j \in 1..s.len : r.heap[s.array][j] = h[s.array][j]
    BY <2>4, <2>6, <2>9
  <2>11. r.heap[s.array][k] = x
    BY <2>3, <2>4, <2>9
  <2>12. k <= Len(r.heap[s.array])
    BY <2>3, <2>4, <2>9
  <2>13. ASSUME NEW a \in 1..Len(h)
         PROVE  /\ Len(r.heap[a]) = Len(h[a])
                /\ \A j \in 1..Len(h[a]) : a # s.array \/ j # k => r.heap[a][j] = h[a][j]
    BY <2>4, <2>8
  <2> QED BY <2>2, <2>5, <2>7, <2>8, <2>10, <2>11, <2>12, <2>13, Zenon DEF KeepsElements
<1>3. CASE ~(s.len < Capacity(h, s))
  <2>1. PICK spare \in Spares : r = AppendedByCopy(h, s, x, s.len + 1 + spare)
    BY <1>3 DEF AppendOutcomes
  <2> DEFINE k == s.len + 1
             n == Len(h) + 1
             size == s.len + 1 + spare
             array == [i \in 1..size |-> IF i <= s.len THEN h[s.array][i]
                                         ELSE IF i = s.len + 1 THEN x ELSE Zero]
  <2>2. r.heap = Append(h, array) /\ r.slice = [array |-> n, len |-> k]
    BY <2>1 DEF AppendedByCopy
  <2>3. spare \in Nat
    BY GoSlicesAssumption
  <2>4. /\ size \in Nat /\ k \in 1..size /\ k \in Nat /\ ~(k <= s.len) /\ n \in Nat
        /\ n \in 1..n /\ n \notin 1..Len(h)
        /\ \A j \in 1..s.len : j \in 1..size /\ j <= s.len
    BY <1>1, <2>3
  <2>5. \A i \in 1..s.len : h[s.array][i] \in S
    <3>1. ASSUME NEW i \in 1..s.len PROVE h[s.array][i] \in S
      <4>1. s.array \in 1..Len(h) /\ i \in 1..Len(h[s.array])
        BY <1>1 DEF FitsIts
      <4> QED BY <1>1, <4>1, ElementOfSeq
    <3> QED BY <3>1
  <2>6. \A i \in 1..size : i <= s.len => i \in 1..s.len
    BY <1>1
  <2>7. array \in [1..size -> S]
    BY <2>5, <2>6
  <2>8. array[k] = x /\ \A j \in 1..s.len : array[j] = h[s.array][j]
    <3>1. \A j \in 1..size : array[j] = IF j <= s.len THEN h[s.array][j]
                                        ELSE IF j = k THEN x ELSE Zero
      OBVIOUS
    <3> HIDE DEF array, k, size
    <3> QED BY <2>4, <3>1
  <2>9. k = s.len + 1 /\ n = Len(h) + 1 /\ k <= size
    BY <1>1, <2>3
  <2> HIDE DEF array, k, n, size
  <2>10. array \in Seq(S) /\ Len(array) = size
    BY <2>4, <2>7, FunctionsAsSequences
  <2>11. /\ r.heap \in Seq(Seq(S)) /\ Len(r.heap) = n /\ r.heap[n] = array
         /\ \A a \in 1..Len(h) : r.heap[a] = h[a]
    BY <2>2, <2>9, <2>10, AppendProperties
  <2>12. r.slice \in SliceRecord /\ r.slice.array = n /\ r.slice.len = k
    BY <2>2, <2>4 DEF SliceRecord
  <2>13. /\ r.slice.array \in 1..Len(r.heap)
         /\ r.slice.len <= Len(r.heap[r.slice.array])
         /\ \A j \in 1..s.len : r.heap[r.slice.array][j] = h[s.array][j]
         /\ r.heap[r.slice.array][k] = x
    BY <2>4, <2>8, <2>9, <2>10, <2>11, <2>12, Zenon
  <2>14. \A a \in 1..Len(h) :
           /\ Len(r.heap[a]) = Len(h[a])
           /\ \A j \in 1..Len(h[a]) : a # s.array \/ j # k => r.heap[a][j] = h[a][j]
    BY <2>11, Zenon
  <2> QED BY <2>9, <2>11, <2>12, <2>13, <2>14, Zenon DEF KeepsElements
<1> QED BY <1>2, <1>3

\* For a chain: any other slice keeps what it held before the place of the new key.
LEMMA AppendKeeps ==
  ASSUME NEW h \in Seq(Arrays), NEW s \in SliceRecord, NEW x \in Keys,
         s.array \in 1..Len(h), s.len <= Len(h[s.array]),
         NEW r \in AppendOutcomes(h, s, x)
  PROVE  /\ r.heap \in Seq(Arrays) /\ r.slice \in SliceRecord
         /\ r.slice.len = s.len + 1
         /\ r.slice.array \in 1..Len(r.heap)
         /\ r.slice.len <= Len(r.heap[r.slice.array])
         /\ \A j \in 1..s.len : r.heap[r.slice.array][j] = h[s.array][j]
         /\ r.heap[r.slice.array][s.len + 1] = x
         /\ Len(h) <= Len(r.heap)
         /\ \A a \in 1..Len(h) :
              /\ Len(r.heap[a]) = Len(h[a])
              /\ \A j \in 1..s.len : j <= Len(h[a]) => r.heap[a][j] = h[a][j]
<1> DEFINE S == Keys \cup {Zero}
<1>1. Zero \in S /\ x \in S /\ h \in Seq(Seq(S)) /\ Len(h) \in Nat /\ s.len \in Nat
  BY LenProperties DEF Arrays, SliceRecord
<1>2. FitsIts(h, s)
  BY <1>1 DEF FitsIts
<1> HIDE DEF S
<1>3. KeepsElements(S, h, s, x, r)
  BY <1>1, <1>2, AppendKeepsElements
<1>4. /\ r.heap \in Seq(Seq(S)) /\ r.slice \in SliceRecord
      /\ r.slice.len = s.len + 1
      /\ r.slice.array \in 1..Len(r.heap)
      /\ r.slice.len <= Len(r.heap[r.slice.array])
      /\ \A j \in 1..s.len : r.heap[r.slice.array][j] = h[s.array][j]
      /\ r.heap[r.slice.array][s.len + 1] = x
      /\ Len(r.heap) = Len(h) \/ Len(r.heap) = Len(h) + 1
      /\ \A a \in 1..Len(h) :
           /\ Len(r.heap[a]) = Len(h[a])
           /\ \A j \in 1..Len(h[a]) : a # s.array \/ j # s.len + 1 => r.heap[a][j] = h[a][j]
  BY <1>3 DEF KeepsElements
<1>5. ASSUME NEW a \in 1..Len(h), NEW j \in 1..s.len, j <= Len(h[a])
      PROVE  r.heap[a][j] = h[a][j]
  <2>1. Len(h[a]) \in Nat
    BY <1>1, ElementOfSeq, LenProperties
  <2>2. j \in 1..Len(h[a]) /\ j # s.len + 1
    BY <1>1, <1>5, <2>1
  <2> QED BY <1>4, <2>2
<1>6. Len(h) <= Len(r.heap)
  BY <1>1, <1>4
<1> QED BY <1>4, <1>5, <1>6 DEF S, Arrays

------------------------------------------------------------------------------
\* The first call.
LEMMA InitNests == ChainInit => ChainInv /\ Nesting!Init
<1> SUFFICES ASSUME ChainInit PROVE ChainInv /\ Nesting!Init
  OBVIOUS
<1> DEFINE array == [i \in 1..Preallocated |-> Zero]
<1>1. array \in Arrays
  BY VisitChainsAssumption DEF Arrays
<1>2. chainHeap = <<array>> /\ chainHeap \in Seq(Arrays) /\ Len(chainHeap) = 1
  BY <1>1 DEF ChainInit
<1> HIDE DEF array
<1>3. PICK key \in Keys : frames = <<NewFrame(key, [array |-> 1, len |-> 0])>>
  BY DEF ChainInit
<1>4. /\ Len(frames) = 1 /\ frames \in Seq(FrameRecord)
      /\ frames[1].key = key /\ frames[1].extended = FALSE
      /\ frames[1].chain.array = 1 /\ frames[1].chain.len = 0
  BY <1>3 DEF NewFrame, FrameRecord, SliceRecord
<1>5. ChainInv
  BY <1>1, <1>2, <1>4 DEF ChainInv, ChainTypes, DepthIsLength, HoldsTheNesting, Arrays
<1>6. [i \in DOMAIN frames |-> frames[i].key] = <<key>>
  BY <1>4
<1> QED BY <1>5, <1>6 DEF Nesting!Init, ChainInit

\* The innermost call finds a key in its slice exactly if the key is being visited.
LEMMA FoundIfVisited ==
  ASSUME ChainInv, frames # <<>>, Frame.extended, NEW key
  PROVE  InChain(key) <=> key \in Nesting!Visited
<1>1. /\ Len(frames) \in Nat \ {0}
      /\ DOMAIN frames = 1..Len(frames)
  BY DEF ChainInv, ChainTypes
<1>2. Frame.chain.len = Len(frames)
  BY <1>1 DEF ChainInv, DepthIsLength, Frame
<1>3. \A j \in 1..Len(frames) : chainHeap[Frame.chain.array][j] = frames[j].key
  BY <1>1, <1>2 DEF ChainInv, HoldsTheNesting, Frame
<1>4. Nesting!Visited = {frames[i].key : i \in 1..Len(frames)}
  BY <1>1 DEF Nesting!Visited
<1> QED BY <1>2, <1>3, <1>4 DEF InChain

\* Appending to the chain does not show.
LEMMA ExtendNests ==
  ASSUME ChainInv, Extend
  PROVE  ChainInv' /\ NestingOf(frames)' = NestingOf(frames) /\ refused' = refused
<1> DEFINE n == Len(frames)
<1>1. n \in Nat \ {0} /\ Frame = frames[n] /\ Frame \in FrameRecord /\ ~Frame.extended
  BY DEF ChainInv, ChainTypes, Extend, Frame
<1>2. PICK r \in AppendOutcomes(chainHeap, Frame.chain, Frame.key) :
        /\ chainHeap' = r.heap
        /\ frames' = [frames EXCEPT ![Len(frames)] =
                        [@ EXCEPT !.chain = r.slice, !.extended = TRUE]]
  BY DEF Extend
<1>3. /\ Frame.chain.array \in 1..Len(chainHeap)
      /\ Frame.chain.len <= Len(chainHeap[Frame.chain.array])
      /\ Frame.chain.len = n - 1 /\ Frame.chain \in SliceRecord
      /\ Frame.key \in Keys /\ chainHeap \in Seq(Arrays)
  BY <1>1 DEF ChainInv, ChainTypes, DepthIsLength, HoldsTheNesting, FrameRecord
<1>4. /\ r.heap \in Seq(Arrays) /\ r.slice \in SliceRecord
      /\ r.slice.len = n
      /\ r.slice.array \in 1..Len(r.heap)
      /\ r.slice.len <= Len(r.heap[r.slice.array])
      /\ \A j \in 1..(n - 1) : r.heap[r.slice.array][j] = chainHeap[Frame.chain.array][j]
      /\ r.heap[r.slice.array][n] = Frame.key
      /\ Len(chainHeap) <= Len(r.heap)
      /\ \A a \in 1..Len(chainHeap) :
           /\ Len(r.heap[a]) = Len(chainHeap[a])
           /\ \A j \in 1..(n - 1) : j <= Len(chainHeap[a]) => r.heap[a][j] = chainHeap[a][j]
  <2> DEFINE c == Frame.chain
             key == Frame.key
  <2>1. n - 1 + 1 = n
    BY <1>1
  <2>2. c.len = n - 1 /\ key = Frame.key /\ c.array = Frame.chain.array
    BY <1>3
  <2>3. /\ c \in SliceRecord /\ c.array \in 1..Len(chainHeap) /\ c.len <= Len(chainHeap[c.array])
        /\ key \in Keys /\ chainHeap \in Seq(Arrays) /\ r \in AppendOutcomes(chainHeap, c, key)
    BY <1>3
  <2> HIDE DEF c, key, n
  <2>4. /\ r.heap \in Seq(Arrays) /\ r.slice \in SliceRecord
        /\ r.slice.len = c.len + 1
        /\ r.slice.array \in 1..Len(r.heap)
        /\ r.slice.len <= Len(r.heap[r.slice.array])
        /\ \A j \in 1..c.len : r.heap[r.slice.array][j] = chainHeap[c.array][j]
        /\ r.heap[r.slice.array][c.len + 1] = key
        /\ Len(chainHeap) <= Len(r.heap)
        /\ \A a \in 1..Len(chainHeap) :
             /\ Len(r.heap[a]) = Len(chainHeap[a])
             /\ \A j \in 1..c.len : j <= Len(chainHeap[a]) => r.heap[a][j] = chainHeap[a][j]
    BY <2>3, AppendKeeps
  <2> QED BY <2>1, <2>2, <2>4
<1>5. /\ frames' \in Seq(FrameRecord) /\ Len(frames') = n
      /\ \A i \in 1..(n - 1) : frames'[i] = frames[i]
      /\ frames'[n].chain = r.slice /\ frames'[n].extended
      /\ frames'[n].key = Frame.key
  <2> DEFINE new == [frames[n] EXCEPT !.chain = r.slice, !.extended = TRUE]
  <2>1. /\ new \in FrameRecord /\ new.chain = r.slice /\ new.extended
        /\ new.key = Frame.key
    BY <1>1, <1>4 DEF FrameRecord
  <2>2. frames' = [frames EXCEPT ![n] = new] /\ frames \in Seq(FrameRecord) /\ n \in 1..n
    BY <1>1, <1>2 DEF ChainInv, ChainTypes
  <2> HIDE DEF new
  <2>3. /\ frames' \in Seq(FrameRecord) /\ Len(frames') = n
        /\ \A j \in 1..n : frames'[j] = IF j = n THEN new ELSE frames[j]
    BY <2>1, <2>2, ExceptSeq
  <2> QED BY <1>1, <2>1, <2>2, <2>3
<1>6. \A i \in 1..n : frames'[i].key = frames[i].key
  BY <1>1, <1>5
<1>7. ChainTypes'
  BY <1>2, <1>4, <1>5 DEF ChainTypes
<1>8. DepthIsLength'
  <2>1. frames'[n].extended /\ frames'[n].chain.len = n
    BY <1>4, <1>5
  <2>2. \A i \in 1..(n - 1) : frames[i].extended /\ frames[i].chain.len = i
    BY <1>1 DEF ChainInv, DepthIsLength
  <2>3. \A i \in 1..(n - 1) : frames'[i].extended /\ frames'[i].chain.len = i
    BY <1>5, <2>2
  <2>4. Len(frames') = n /\ \A i \in 1..n : i = n \/ i \in 1..(n - 1)
    BY <1>1, <1>5
  <2> QED BY <2>1, <2>3, <2>4 DEF DepthIsLength
<1>9. HoldsTheNesting'
  <2> SUFFICES ASSUME NEW i \in 1..n
               PROVE  /\ frames'[i].chain.array \in 1..Len(chainHeap')
                      /\ frames'[i].chain.len <= Len(chainHeap'[frames'[i].chain.array])
                      /\ \A j \in 1..frames'[i].chain.len :
                           chainHeap'[frames'[i].chain.array][j] = frames'[j].key
    BY <1>5 DEF HoldsTheNesting
  <2>1. CASE i = n
    <3>1. \A j \in 1..(n - 1) : chainHeap[Frame.chain.array][j] = frames[j].key
      <4>1. \A j \in 1..frames[n].chain.len :
              chainHeap[frames[n].chain.array][j] = frames[j].key
        BY <1>1 DEF ChainInv, HoldsTheNesting
      <4> QED BY <1>1, <1>3, <4>1
    <3>2. \A j \in 1..(n - 1) : r.heap[r.slice.array][j] = frames[j].key
      BY <1>4, <3>1
    <3>3. \A j \in 1..n : r.heap[r.slice.array][j] = frames[j].key
      <4>1. \A j \in 1..n : j = n \/ j \in 1..(n - 1)
        BY <1>1
      <4>2. r.heap[r.slice.array][n] = frames[n].key
        BY <1>1, <1>4
      <4> QED BY <3>2, <4>1, <4>2, Zenon
    <3>4. \A j \in 1..n : r.heap[r.slice.array][j] = frames'[j].key
      BY <1>6, <3>3
    <3>5. /\ r.slice.array \in 1..Len(r.heap)
          /\ r.slice.len <= Len(r.heap[r.slice.array])
          /\ r.slice.len = n
      BY <1>4
    <3>6. frames'[i].chain = r.slice /\ chainHeap' = r.heap
      BY <1>2, <1>5, <2>1
    <3> QED BY <3>4, <3>5, <3>6
  <2>2. CASE i # n
    <3>1. i \in 1..(n - 1) /\ frames'[i] = frames[i] /\ i \in 1..Len(frames)
      BY <1>1, <1>5, <2>2
    <3>2. /\ frames[i].chain.array \in 1..Len(chainHeap)
          /\ frames[i].chain.len = i
          /\ i <= Len(chainHeap[frames[i].chain.array])
          /\ \A j \in 1..i : chainHeap[frames[i].chain.array][j] = frames[j].key
      BY <1>1, <3>1 DEF ChainInv, DepthIsLength, HoldsTheNesting
    <3>3. Len(chainHeap) \in Nat /\ Len(r.heap) \in Nat
          /\ chainHeap[frames[i].chain.array] \in Arrays
      <4>1. chainHeap \in Seq(Arrays) /\ r.heap \in Seq(Arrays)
        BY <1>3, <1>4
      <4> QED BY <3>2, <4>1, ElementOfSeq, LenProperties
    <3>4. Len(chainHeap[frames[i].chain.array]) \in Nat
      BY <3>3 DEF Arrays
    <3> DEFINE a == frames[i].chain.array
    <3>5. \A j \in 1..i : j \in 1..(n - 1) /\ j <= Len(chainHeap[a]) /\ j \in 1..n
      BY <1>1, <3>1, <3>2, <3>4
    <3>6. \A j \in 1..i : r.heap[a][j] = chainHeap[a][j]
      <4>1. \A j \in 1..(n - 1) :
              j <= Len(chainHeap[a]) => r.heap[a][j] = chainHeap[a][j]
        BY <1>4, <3>2
      <4> QED BY <3>5, <4>1
    <3>7. \A j \in 1..i : r.heap[a][j] = frames'[j].key
      BY <1>6, <3>2, <3>5, <3>6
    <3>8. a \in 1..Len(r.heap) /\ Len(r.heap[a]) = Len(chainHeap[a])
      <4>1. Len(chainHeap) <= Len(r.heap) /\ Len(r.heap[a]) = Len(chainHeap[a])
        BY <1>4, <3>2
      <4> QED BY <3>2, <3>3, <4>1
    <3> QED BY <1>2, <3>1, <3>2, <3>7, <3>8
  <2> QED BY <2>1, <2>2
<1>10. NestingOf(frames') = NestingOf(frames)
  BY <1>5, <1>6, NestingOfSameKeys DEF ChainInv, ChainTypes
<1> QED BY <1>7, <1>8, <1>9, <1>10 DEF ChainInv, Extend

\* A nested call.
LEMMA EnterNests ==
  ASSUME ChainInv, NEW key \in Keys, Enter(key)
  PROVE  ChainInv' /\ Nesting!Enter(key)
<1> DEFINE n == Len(frames)
           new == NewFrame(key, Frame.chain)
<1>1. n \in Nat \ {0} /\ Frame = frames[n] /\ Frame \in FrameRecord /\ Frame.extended
      /\ frames # <<>>
  BY DEF ChainInv, ChainTypes, Enter, Frame
<1>2. new \in FrameRecord /\ new.key = key /\ new.chain = Frame.chain /\ new.extended = FALSE
  BY <1>1 DEF NewFrame, FrameRecord
<1>3. frames' = Append(frames, new) /\ UNCHANGED <<chainHeap, refused>>
  BY DEF Enter
<1> HIDE DEF new
<1>4. /\ frames' \in Seq(FrameRecord) /\ Len(frames') = n + 1
      /\ \A i \in 1..n : frames'[i] = frames[i]
      /\ frames'[n + 1] = new
  BY <1>2, <1>3 DEF ChainInv, ChainTypes
<1>5. ChainTypes'
  BY <1>3, <1>4 DEF ChainInv, ChainTypes
<1>6. /\ \A i \in 1..n : frames[i].extended /\ frames[i].chain.len = i
      /\ new.chain.len = n
  BY <1>1, <1>2 DEF ChainInv, DepthIsLength
<1>7. DepthIsLength'
  BY <1>1, <1>2, <1>4, <1>6 DEF DepthIsLength
<1>8. HoldsTheNesting'
  <2> SUFFICES ASSUME NEW i \in 1..(n + 1)
               PROVE  /\ frames'[i].chain.array \in 1..Len(chainHeap)
                      /\ frames'[i].chain.len <= Len(chainHeap[frames'[i].chain.array])
                      /\ \A j \in 1..frames'[i].chain.len :
                           chainHeap[frames'[i].chain.array][j] = frames'[j].key
    BY <1>3, <1>4 DEF HoldsTheNesting
  <2>1. PICK k \in 1..n : frames'[i].chain = frames[k].chain /\ frames[k].chain.len = k
    BY <1>1, <1>2, <1>4, <1>6
  <2>2. /\ frames[k].chain.array \in 1..Len(chainHeap)
        /\ k <= Len(chainHeap[frames[k].chain.array])
        /\ \A j \in 1..k : chainHeap[frames[k].chain.array][j] = frames[j].key
    BY <2>1 DEF ChainInv, HoldsTheNesting
  <2>3. \A j \in 1..k : frames'[j] = frames[j]
    BY <1>1, <1>4
  <2> QED BY <2>1, <2>2, <2>3
<1>9. key \notin Nesting!Visited
  BY <1>1, FoundIfVisited DEF Enter
<1>10. NestingOf(frames') = Append(NestingOf(frames), key)
  BY <1>2, <1>4, NestingOfOneMore DEF ChainInv, ChainTypes
<1>11. NestingOf(frames) # <<>>
  BY <1>1, NestingTypes DEF ChainInv, ChainTypes
<1> QED BY <1>3, <1>5, <1>7, <1>8, <1>9, <1>10, <1>11 DEF ChainInv, Nesting!Enter, NestingOf

\* A key that is refused is one that is being visited.
LEMMA RefuseNests ==
  ASSUME ChainInv, NEW key \in Keys, Refuse(key)
  PROVE  ChainInv' /\ Nesting!Refuse(key)
<1>1. frames # <<>> /\ Frame.extended /\ frames' = <<>> /\ refused' = {key}
      /\ chainHeap' = chainHeap
  BY DEF Refuse
<1>2. ChainInv'
  BY <1>1 DEF ChainInv, ChainTypes, DepthIsLength, HoldsTheNesting
<1>3. key \in Nesting!Visited
  BY <1>1, FoundIfVisited DEF Refuse
<1>4. [i \in DOMAIN frames' |-> frames'[i].key] = <<>>
  BY <1>1
<1>5. [i \in DOMAIN frames |-> frames[i].key] # <<>>
  BY <1>1 DEF ChainInv, ChainTypes
<1> QED BY <1>1, <1>2, <1>3, <1>4, <1>5 DEF Nesting!Refuse

\* A return.
LEMMA LeaveNests == ASSUME ChainInv, Leave PROVE ChainInv' /\ Nesting!Leave
<1> DEFINE n == Len(frames)
<1>1. n \in Nat \ {0} /\ frames # <<>> /\ frames' = SubSeq(frames, 1, n - 1)
      /\ UNCHANGED <<chainHeap, refused>>
  BY DEF ChainInv, ChainTypes, Leave
<1>2. /\ frames' \in Seq(FrameRecord) /\ Len(frames') = n - 1
      /\ \A i \in 1..(n - 1) : frames'[i] = frames[i]
  <2> DEFINE m == n - 1
  <2>1. m \in Nat /\ n = m + 1 /\ frames \in Seq(FrameRecord)
    BY <1>1 DEF ChainInv, ChainTypes
  <2>2. \A i \in 1..m : frames[i] \in FrameRecord
    BY <2>1, ElementOfSeq
  <2>3. frames' = SubSeq(frames, 1, m)
    BY <1>1
  <2> HIDE DEF m
  <2>4. /\ frames' \in Seq(FrameRecord)
        /\ Len(frames') = IF 1 <= m THEN m - 1 + 1 ELSE 0
        /\ \A i \in 1..(m - 1 + 1) : frames'[i] = frames[1 + i - 1]
    BY <2>1, <2>2, <2>3, SubSeqProperties
  <2> QED BY <2>1, <2>4
<1>3. ChainTypes'
  BY <1>1, <1>2 DEF ChainInv, ChainTypes
<1>4. DepthIsLength'
  BY <1>1, <1>2 DEF ChainInv, DepthIsLength
<1>5. HoldsTheNesting'
  <2> SUFFICES ASSUME NEW i \in 1..(n - 1)
               PROVE  /\ frames'[i].chain.array \in 1..Len(chainHeap)
                      /\ frames'[i].chain.len <= Len(chainHeap[frames'[i].chain.array])
                      /\ \A j \in 1..frames'[i].chain.len :
                           chainHeap[frames'[i].chain.array][j] = frames'[j].key
    BY <1>1, <1>2 DEF HoldsTheNesting
  <2>1. i \in 1..n /\ frames'[i] = frames[i] /\ frames[i].chain.len = i
    BY <1>1, <1>2 DEF ChainInv, DepthIsLength
  <2> QED BY <1>1, <1>2, <2>1 DEF ChainInv, HoldsTheNesting
<1>6. NestingOf(frames') = SubSeq(NestingOf(frames), 1, n - 1)
  BY <1>1, <1>2, NestingOfOneLess DEF ChainInv, ChainTypes
<1>7. NestingOf(frames) # <<>> /\ Len(NestingOf(frames)) = n
  BY <1>1, NestingTypes DEF ChainInv, ChainTypes
<1> QED BY <1>1, <1>3, <1>4, <1>5, <1>6, <1>7 DEF ChainInv, Nesting!Leave, NestingOf

------------------------------------------------------------------------------
\* A flag or a segment is refused as circular exactly if it is being visited: the slices of
\* nested calls, which share backing arrays and write over each other's, implement a plain
\* nesting (evaluator.go:170-176 and 198, evaluator_segment.go:21-33).
THEOREM ChainsRefineNesting == ChainSpec => NestingIsExact
<1>1. ChainInit => ChainInv /\ Nesting!Init
  BY InitNests
<1>2. ASSUME ChainInv, [ChainNext]_chainVars
      PROVE  ChainInv' /\ [Nesting!Next]_<<[i \in DOMAIN frames |-> frames[i].key], refused>>
  <2>1. CASE Extend
    BY <1>2, <2>1, ExtendNests DEF NestingOf
  <2>2. CASE Leave
    BY <1>2, <2>2, LeaveNests DEF Nesting!Next
  <2>3. ASSUME NEW key \in Keys, Enter(key)
        PROVE  ChainInv' /\ Nesting!Next
    BY <1>2, <2>3, EnterNests DEF Nesting!Next
  <2>4. ASSUME NEW key \in Keys, Refuse(key)
        PROVE  ChainInv' /\ Nesting!Next
    BY <1>2, <2>4, RefuseNests DEF Nesting!Next
  <2>5. CASE UNCHANGED chainVars
    BY <1>2, <2>5 DEF chainVars, ChainInv, ChainTypes, DepthIsLength, HoldsTheNesting
  <2> QED BY <1>2, <2>1, <2>2, <2>3, <2>4, <2>5 DEF ChainNext
<1> QED BY <1>1, <1>2, PTL DEF ChainSpec, NestingIsExact, Nesting!Spec

------------------------------------------------------------------------------
(***************************************************************************)
(* The input of a hash.                                                    *)
(***************************************************************************)
BufferRecord == [array : Seq(Int), len : Nat]
Fits(b) == b.len <= Len(b.array)

BufferInv ==
  /\ buffer \in BufferRecord
  /\ Fits(buffer)
  /\ appended \in Seq(Int)
  /\ HoldsWhatWasAppended

------------------------------------------------------------------------------
\* What a buffer holds is a sequence of its length.
LEMMA DataTypes ==
  ASSUME NEW b \in BufferRecord, Fits(b)
  PROVE  /\ Data(b) \in Seq(Int)
         /\ Len(Data(b)) = b.len
         /\ \A i \in 1..b.len : Data(b)[i] = b.array[i]
<1>1. b.len \in Nat /\ Len(b.array) \in Nat /\ b.array \in Seq(Int)
  BY LenProperties DEF BufferRecord
<1>2. \A i \in 1..Len(b.array) : b.array[i] \in Int
  BY <1>1, ElementOfSeq
<1>3. Data(b) \in [1..b.len -> Int]
  BY <1>1, <1>2 DEF Data, Fits
<1> QED BY <1>1, <1>3, FunctionsAsSequences DEF Data

\* Growing makes room and keeps what is there.
LEMMA GrowKeeps ==
  ASSUME NEW b \in BufferRecord, Fits(b), NEW addBytes \in Nat
  PROVE  /\ Grow(b, addBytes) \in BufferRecord /\ Fits(Grow(b, addBytes))
         /\ Grow(b, addBytes).len = b.len + addBytes
         /\ \A i \in 1..b.len : Grow(b, addBytes).array[i] = b.array[i]
<1> DEFINE size == Len(b.array)
           newLen == b.len + addBytes
           newCap == IF 2 * size < newLen THEN 2 * newLen ELSE 2 * size
           array == [i \in 1..newCap |-> IF i <= b.len THEN b.array[i] ELSE 0]
           grown == Grow(b, addBytes)
<1>1. b.len \in Nat /\ size \in Nat /\ b.array \in Seq(Int) /\ newLen \in Nat /\ b.len <= size
  BY LenProperties DEF BufferRecord, Fits
<1>2. CASE size >= newLen
  <2>1. grown = [b EXCEPT !.len = newLen]
    BY <1>2 DEF Grow
  <2>2. grown.array = b.array /\ grown.len = newLen /\ grown \in BufferRecord
    BY <1>1, <2>1 DEF BufferRecord
  <2> QED BY <1>1, <1>2, <2>2 DEF Fits
<1>3. CASE ~(size >= newLen)
  <2>1. grown = [array |-> array, len |-> newLen]
    BY <1>3 DEF Grow
  <2>2. \A i \in 1..size : b.array[i] \in Int
    BY <1>1, ElementOfSeq
  <2>3. newCap \in Nat /\ newLen <= newCap /\ b.len <= newCap
    <3> HIDE DEF size, newLen
    <3> QED BY <1>1, <1>3 DEF newLen
  <2> HIDE DEF newCap, newLen, size
  <2>4. \A i \in 1..b.len : i \in 1..size /\ i \in 1..newCap
    BY <1>1, <2>3
  <2>5. array \in [1..newCap -> Int]
    BY <1>1, <2>2, <2>3 DEF size
  <2>6. \A i \in 1..b.len : array[i] = b.array[i]
    BY <1>1, <2>4
  <2> HIDE DEF array
  <2>7. array \in Seq(Int) /\ Len(array) = newCap
    BY <2>3, <2>5, FunctionsAsSequences
  <2>8. grown.array = array /\ grown.len = newLen /\ grown \in BufferRecord
    BY <1>1, <2>1, <2>7 DEF BufferRecord
  <2> QED BY <2>3, <2>6, <2>7, <2>8 DEF Fits, newLen
<1> QED BY <1>2, <1>3

\* Writing appends.
LEMMA WriteAppends ==
  ASSUME NEW b \in BufferRecord, Fits(b), NEW bytes \in Seq(Int)
  PROVE  /\ Write(b, bytes) \in BufferRecord /\ Fits(Write(b, bytes))
         /\ Data(Write(b, bytes)) = Data(b) \o bytes
<1> DEFINE add == Len(bytes)
           grown == Grow(b, add)
           size == Len(grown.array)
           array == [i \in 1..size |-> IF i > b.len /\ i <= grown.len
                                       THEN bytes[i - b.len] ELSE grown.array[i]]
           written == Write(b, bytes)
<1>1. add \in Nat /\ b.len \in Nat
  BY LenProperties DEF BufferRecord
<1>2. /\ grown \in BufferRecord /\ Fits(grown) /\ grown.len = b.len + add
      /\ \A i \in 1..b.len : grown.array[i] = b.array[i]
  BY <1>1, GrowKeeps
<1>3. /\ size \in Nat /\ grown.array \in Seq(Int) /\ DOMAIN grown.array = 1..size
      /\ b.len + add <= size
  BY <1>2, LenProperties DEF BufferRecord, Fits
<1>4. written = [grown EXCEPT !.array = array]
  BY <1>3 DEF Write
<1>5. (\A i \in 1..size : grown.array[i] \in Int) /\ \A i \in 1..add : bytes[i] \in Int
  BY <1>3, ElementOfSeq
<1> HIDE DEF grown, add, size, written
<1>6. /\ \A i \in 1..b.len : i \in 1..size /\ ~(i > b.len)
      /\ \A i \in 1..add : /\ b.len + i \in 1..size /\ b.len + i > b.len
                           /\ b.len + i <= grown.len /\ b.len + i - b.len = i
      /\ \A i \in 1..size : i > b.len /\ i <= grown.len => i - b.len \in 1..add
  <2>1. \A l, a, n \in Nat : l + a <= n =>
          /\ \A i \in 1..l : i \in 1..n /\ ~(i > l)
          /\ \A i \in 1..a : /\ l + i \in 1..n /\ l + i > l
                            /\ l + i <= l + a /\ l + i - l = i
          /\ \A i \in 1..n : i > l /\ i <= l + a => i - l \in 1..a
    OBVIOUS
  <2>2. b.len \in Nat /\ add \in Nat /\ size \in Nat /\ b.len + add <= size
    BY <1>1, <1>3
  <2>3. grown.len = b.len + add
    BY <1>2
  <2>4. /\ \A i \in 1..b.len : i \in 1..size /\ ~(i > b.len)
        /\ \A i \in 1..add : /\ b.len + i \in 1..size /\ b.len + i > b.len
                             /\ b.len + i <= b.len + add /\ b.len + i - b.len = i
        /\ \A i \in 1..size : i > b.len /\ i <= b.len + add => i - b.len \in 1..add
    BY <2>1, <2>2, Zenon
  <2> QED BY <2>3, <2>4
<1>7. array \in [1..size -> Int]
  BY <1>5, <1>6
<1>8. \A i \in 1..b.len : array[i] = b.array[i]
  BY <1>2, <1>6
<1>9. \A i \in 1..add : array[b.len + i] = bytes[i]
  <2> TAKE i \in 1..add
  <2>1. /\ b.len + i \in 1..size /\ b.len + i > b.len
        /\ b.len + i <= grown.len /\ b.len + i - b.len = i
    BY <1>6
  <2>2. PICK place \in 1..size : place = b.len + i
    BY <2>1
  <2>3. place > b.len /\ place <= grown.len /\ place - b.len = i
    <3>1. place > b.len /\ place - b.len = i
      BY <1>1, <2>2, SMT
    <3>2. place <= grown.len
      BY <2>1, <2>2, Zenon
    <3> QED BY <3>1, <3>2, Zenon
  <2>4. array[place] = bytes[place - b.len]
    BY <2>3
  <2> QED BY <2>2, <2>3, <2>4
<1> HIDE DEF array
<1>10. array \in Seq(Int) /\ Len(array) = size
  BY <1>3, <1>7, FunctionsAsSequences
<1>11. written.array = array /\ written.len = b.len + add /\ written \in BufferRecord
  BY <1>2, <1>4, <1>10 DEF BufferRecord
<1>12. Fits(written)
  BY <1>3, <1>10, <1>11 DEF Fits
<1>13. /\ Data(written) \in Seq(Int) /\ Len(Data(written)) = b.len + add
       /\ \A i \in 1..(b.len + add) : Data(written)[i] = array[i]
  BY <1>11, <1>12, DataTypes
<1>14. /\ Data(b) \in Seq(Int) /\ Len(Data(b)) = b.len
       /\ \A i \in 1..b.len : Data(b)[i] = b.array[i]
  BY DataTypes
<1>15. /\ Data(b) \o bytes \in Seq(Int)
       /\ Len(Data(b) \o bytes) = b.len + add
       /\ \A i \in 1..(b.len + add) :
            (Data(b) \o bytes)[i] = IF i <= b.len THEN Data(b)[i] ELSE bytes[i - b.len]
  <2> DEFINE d == Data(b)
  <2>1. d \in Seq(Int) /\ Len(d) = b.len
    BY <1>14
  <2> HIDE DEF d
  <2>2. /\ d \o bytes \in Seq(Int)
        /\ Len(d \o bytes) = Len(d) + Len(bytes)
        /\ \A i \in 1..(Len(d) + Len(bytes)) :
             (d \o bytes)[i] = IF i <= Len(d) THEN d[i] ELSE bytes[i - Len(d)]
    BY <2>1, ConcatProperties
  <2>3. Len(bytes) = add
    BY DEF add
  <2> QED BY <2>1, <2>2, <2>3 DEF d
<1>16. ASSUME NEW i \in 1..(b.len + add)
       PROVE  Data(written)[i] = (Data(b) \o bytes)[i]
  <2>1. CASE i <= b.len
    <3>1. i \in 1..b.len
      BY <2>1, <1>1
    <3> QED BY <1>8, <1>13, <1>14, <1>15, <2>1, <3>1
  <2>2. CASE ~(i <= b.len)
    <3>1. i - b.len \in 1..add /\ b.len + (i - b.len) = i
      BY <1>1, <2>2
    <3>2. array[i] = bytes[i - b.len]
      BY <1>9, <3>1
    <3> QED BY <1>13, <1>15, <2>2, <3>2
  <2> QED BY <2>1, <2>2
<1>17. Data(written) = Data(b) \o bytes
  BY <1>13, <1>15, <1>16, SeqEqual
<1> QED BY <1>11, <1>12, <1>17 DEF written

DigitsStep(f, n) == IF n < 10 THEN <<48 + n>> ELSE Append(f[n \div 10], 48 + (n % 10))

\* Each digit leaves a smaller number.
LEMMA DivisionByTen ==
  ASSUME NEW n \in Nat, ~(n < 10)
  PROVE  n \div 10 \in 0..(n - 1) /\ n \div 10 \in Nat /\ n % 10 \in 0..9
OBVIOUS

\* The digits are those that the recursion says: it ends.
LEMMA DigitsAreDefined ==
  \A n \in Nat : DigitsOf[n] = DigitsStep(DigitsOf, n) /\ DigitsOf[n] \in Seq(Int)
<1> DEFINE T == Seq(Int)
           step == [p \in Nat \X [Nat -> T] |-> DigitsStep(p[2], p[1])]
<1>1. ASSUME NEW n \in Nat, NEW f \in [Nat -> T] PROVE DigitsStep(f, n) \in T
  <2>1. CASE n < 10
    BY <2>1 DEF DigitsStep
  <2>2. CASE ~(n < 10)
    <3>1. f[n \div 10] \in Seq(Int) /\ 48 + (n % 10) \in Int
      BY <2>2, DivisionByTen
    <3>2. Append(f[n \div 10], 48 + (n % 10)) \in Seq(Int)
      BY <3>1, AppendProperties
    <3> QED BY <2>2, <3>2 DEF DigitsStep
  <2> QED BY <2>1, <2>2
<1>2. ASSUME NEW n \in Nat, NEW f, NEW g, \A m \in 0..(n - 1) : f[m] = g[m]
      PROVE  DigitsStep(f, n) = DigitsStep(g, n)
  <2>1. CASE n < 10
    BY <2>1 DEF DigitsStep
  <2>2. CASE ~(n < 10)
    <3>1. f[n \div 10] = g[n \div 10]
      BY <1>2, <2>2, DivisionByTen
    <3> QED BY <2>2, <3>1 DEF DigitsStep
  <2> QED BY <2>1, <2>2
<1>3. \A n \in Nat : \A f \in [Nat -> T] : step[<<n, f>>] = DigitsStep(f, n)
  OBVIOUS
<1>4. step \in [Nat \X [Nat -> T] -> T]
  <2>1. \A p \in Nat \X [Nat -> T] : DigitsStep(p[2], p[1]) \in T
    BY <1>1
  <2> QED BY <2>1
<1> HIDE DEF step
<1>5. LooksBack(T, step)
  <2>1. SUFFICES ASSUME NEW n \in Nat, NEW f \in [Nat -> T], NEW g \in [Nat -> T],
                        \A m \in 0..(n - 1) : f[m] = g[m]
                 PROVE  step[<<n, f>>] = step[<<n, g>>]
    BY DEF LooksBack
  <2>2. DigitsStep(f, n) = DigitsStep(g, n)
    BY <1>2, <2>1
  <2> QED BY <1>3, <2>2
<1>6. <<>> \in T
  OBVIOUS
<1> HIDE DEF T
<1>7. PICK f \in [Nat -> T] : \A n \in Nat : f[n] = step[<<n, f>>]
  BY <1>4, <1>5, <1>6, NaturalsByRecursion
<1>8. f = [n \in Nat |-> DigitsStep(f, n)]
  BY <1>3, <1>7
<1>9. DigitsOf = CHOOSE d : d = [n \in Nat |-> DigitsStep(d, n)]
  BY DEF DigitsOf, DigitsStep
<1>10. DigitsOf = [n \in Nat |-> DigitsStep(DigitsOf, n)]
  BY <1>8, <1>9
<1> DEFINE X == {n \in Nat : DigitsOf[n] \in Seq(Int)}
<1>11. ASSUME NEW n \in Nat, 0..(n - 1) \subseteq X PROVE n \in X
  <2>1. DigitsOf[n] = DigitsStep(DigitsOf, n)
    BY <1>10
  <2>2. CASE n < 10
    <3>1. DigitsOf[n] = <<48 + n>>
      BY <2>1, <2>2 DEF DigitsStep
    <3>2. <<48 + n>> \in Seq(Int)
      OBVIOUS
    <3> QED BY <3>1, <3>2
  <2>3. CASE ~(n < 10)
    <3>1. DigitsOf[n \div 10] \in Seq(Int) /\ 48 + (n % 10) \in Int
      BY <1>11, <2>3, DivisionByTen
    <3>2. Append(DigitsOf[n \div 10], 48 + (n % 10)) \in Seq(Int)
      BY <3>1, AppendProperties
    <3> QED BY <2>1, <2>3, <3>2 DEF DigitsStep
  <2> QED BY <2>2, <2>3
<1>12. Nat \subseteq X
  <2> HIDE DEF X
  <2> QED BY <1>11, NaturalsByInduction
<1> QED BY <1>10, <1>12

\* The decimal form of an integer is made of bytes.
LEMMA DecimalIsBytes ==
  ASSUME NEW n \in Int
  PROVE  Decimal(n) \in Seq(Int)
<1>1. CASE n < 0
  <2>1. -n \in Nat
    BY <1>1
  <2>2. DigitsOf[-n] \in Seq(Int)
    BY <2>1, DigitsAreDefined
  <2>3. <<45>> \in Seq(Int)
    OBVIOUS
  <2> QED BY <1>1, <2>2, <2>3, ConcatProperties DEF Decimal
<1>2. CASE ~(n < 0)
  <2>1. n \in Nat
    BY <1>2
  <2> QED BY <1>2, <2>1, DigitsAreDefined DEF Decimal
<1> QED BY <1>1, <1>2

\* So every append keeps what the buffer holds.
LEMMA AppendKeepsInv ==
  ASSUME BufferInv, NEW bytes \in Seq(Int), AppendBytes(bytes)
  PROVE  BufferInv'
<1>1. /\ buffer \in BufferRecord /\ Fits(buffer) /\ appended \in Seq(Int)
      /\ Data(buffer) = appended
      /\ buffer' = Write(buffer, bytes) /\ appended' = appended \o bytes
  BY DEF BufferInv, AppendBytes, HoldsWhatWasAppended
<1>2. buffer' \in BufferRecord /\ Fits(buffer') /\ Data(buffer') = appended'
  BY <1>1, WriteAppends
<1>3. appended' \in Seq(Int)
  BY <1>1, ConcatProperties
<1> QED BY <1>2, <1>3 DEF BufferInv, HoldsWhatWasAppended, Fits, Data

------------------------------------------------------------------------------
\* The buffer is a buffer of bytes that holds what was appended: so it starts, and so every
\* append leaves it (local_buffer.go:28).
THEOREM BufferInvariant == BufferSpec => []BufferInv
<1>1. BufferInit => BufferInv
  <2> SUFFICES ASSUME BufferInit PROVE BufferInv
    OBVIOUS
  <2> DEFINE array == [i \in 1..InitialCapacity |-> 0]
  <2>1. array \in Seq(Int) /\ Len(array) = InitialCapacity
    <3>1. array \in [1..InitialCapacity -> Int]
      OBVIOUS
    <3> HIDE DEF array
    <3> QED BY <3>1, FunctionsAsSequences, LocalBufferAssumption
  <2>2. buffer = [array |-> array, len |-> 0] /\ appended = <<>>
    BY DEF BufferInit
  <2> HIDE DEF array
  <2>3. buffer \in BufferRecord /\ buffer.array = array /\ buffer.len = 0
    BY <2>1, <2>2 DEF BufferRecord
  <2>4. Fits(buffer)
    BY <2>1, <2>3, LocalBufferAssumption DEF Fits
  <2>5. Data(buffer) \in Seq(Int) /\ Len(Data(buffer)) = 0
    BY <2>3, <2>4, DataTypes
  <2>6. Data(buffer) = <<>>
    BY <2>5, EmptySeq
  <2> QED BY <2>2, <2>3, <2>4, <2>6, EmptySeq DEF BufferInv, HoldsWhatWasAppended
<1>2. BufferInv /\ [BufferNext]_bufferVars => BufferInv'
  <2> SUFFICES ASSUME BufferInv, [BufferNext]_bufferVars PROVE BufferInv'
    OBVIOUS
  <2>1. ASSUME NEW a \in Bytes, NEW b \in Bytes,
               AppendBytes(<<>>) \/ AppendBytes(<<a>>) \/ AppendBytes(<<a, b>>)
        PROVE  BufferInv'
    <3>1. <<>> \in Seq(Int) /\ <<a>> \in Seq(Int) /\ <<a, b>> \in Seq(Int)
      BY LocalBufferAssumption
    <3> QED BY <2>1, <3>1, AppendKeepsInv
  <2>2. ASSUME NEW n \in Ints, AppendInt(n)
        PROVE  BufferInv'
    <3>1. Decimal(n) \in Seq(Int)
      BY LocalBufferAssumption, DecimalIsBytes
    <3> QED BY <2>2, <3>1, AppendKeepsInv DEF AppendInt
  <2>3. CASE UNCHANGED bufferVars
    BY <2>3 DEF bufferVars, BufferInv, HoldsWhatWasAppended, Fits, Data
  <2> QED BY <2>1, <2>2, <2>3 DEF BufferNext
<1> QED BY <1>1, <1>2, PTL DEF BufferSpec

\* What is hashed is what was appended, for every first capacity and every sequence of
\* appends (local_buffer.go:57).
THEOREM BufferIsExact == BufferSpec => []HoldsWhatWasAppended
<1>1. BufferInv => HoldsWhatWasAppended
  BY DEF BufferInv
<1> QED BY <1>1, BufferInvariant, PTL

------------------------------------------------------------------------------
(***************************************************************************)
(* Hexadecimal digits.                                                     *)
(***************************************************************************)
\* Powers are defined one by one.
PowersStep(b, size, f) == [n \in 0..size |-> IF n = 0 THEN 1 ELSE b * f[n - 1]]

\* There are such powers, and they are positive.
LEMMA PowersAreDefined ==
  ASSUME NEW b \in Nat \ {0}, NEW size \in Nat
  PROVE  /\ Powers(b, size) = PowersStep(b, size, Powers(b, size))
         /\ \A n \in 0..size : Powers(b, size)[n] \in Nat \ {0}
<1> DEFINE T == Nat \ {0}
           up == [p \in Nat \X T |-> b * p[2]]
           w == Powers(b, size)
<1>1. up \in [Nat \X T -> T] /\ \A n \in Nat, r \in T : up[<<n, r>>] = b * r
  OBVIOUS
<1> HIDE DEF up
<1>2. PICK f \in [0..size -> T] : Recurs(f, size, 1, up)
  <2>1. 1 \in T
    OBVIOUS
  <2> HIDE DEF T
  <2> QED BY <1>1, <2>1, PrimitiveRecursion
<1>3. ASSUME NEW n \in 0..size, n # 0 PROVE up[<<n, f[n - 1]>>] = b * f[n - 1]
  <2>1. n \in Nat /\ n - 1 \in 0..size
    BY <1>3
  <2>2. f[n - 1] \in T
    BY <2>1
  <2> QED BY <1>1, <2>1, <2>2, Zenon
<1>4. f = PowersStep(b, size, f)
  <2>1. \A n \in 0..size : (IF n = 0 THEN 1 ELSE up[<<n, f[n - 1]>>]) =
                           IF n = 0 THEN 1 ELSE b * f[n - 1]
    BY <1>3, Zenon
  <2> QED BY <1>2, <2>1 DEF PowersStep, Recurs
<1>5. w = CHOOSE g : g = PowersStep(b, size, g)
  BY DEF Powers, PowersStep
<1>6. w = PowersStep(b, size, w)
  BY <1>4, <1>5
<1> HIDE DEF w
<1> DEFINE X == {n \in Nat : n \in 0..size => w[n] \in Nat \ {0}}
<1>7. ASSUME NEW n \in Nat, 0..(n - 1) \subseteq X PROVE n \in X
  <2> SUFFICES ASSUME n \in 0..size PROVE w[n] \in Nat \ {0}
    OBVIOUS
  <2>1. w[n] = IF n = 0 THEN 1 ELSE b * w[n - 1]
    BY <1>6 DEF PowersStep
  <2>2. CASE n = 0
    BY <2>1, <2>2
  <2>3. CASE n # 0
    <3>1. n - 1 \in 0..(n - 1) /\ n - 1 \in 0..size
      BY <2>3
    <3>2. w[n - 1] \in Nat \ {0}
      BY <1>7, <3>1
    <3> QED BY <2>1, <2>3, <3>2
  <2> QED BY <2>2, <2>3
<1>8. Nat \subseteq X
  <2> HIDE DEF X
  <2> QED BY <1>7, NaturalsByInduction
<1>9. \A n \in 0..size : w[n] \in Nat \ {0}
  BY <1>8
<1> QED BY <1>6, <1>9 DEF w

\* An integer has a multiple of 16 values.
LEMMA Sixteens == UintSize \in Nat \ {0} /\ \E m \in Nat \ {0} : UintSize = 16 * m
<1> DEFINE p == Powers(2, Width)
<1>1. Width \in Nat /\ Width >= 4
  BY WidthAssumption
<1>2. p = PowersStep(2, Width, p) /\ \A n \in 0..Width : p[n] \in Nat \ {0}
  BY <1>1, PowersAreDefined
<1> HIDE DEF p
<1>3. \A n \in 0..Width : p[n] = IF n = 0 THEN 1 ELSE 2 * p[n - 1]
  BY <1>2 DEF PowersStep
<1>4. /\ Width \in 0..Width /\ Width - 1 \in 0..Width /\ Width - 2 \in 0..Width
      /\ Width - 3 \in 0..Width /\ Width - 4 \in 0..Width
      /\ Width # 0 /\ Width - 1 # 0 /\ Width - 2 # 0 /\ Width - 3 # 0
      /\ Width - 1 - 1 = Width - 2 /\ Width - 2 - 1 = Width - 3 /\ Width - 3 - 1 = Width - 4
  BY <1>1
<1>5. /\ p[Width] = 2 * p[Width - 1] /\ p[Width - 1] = 2 * p[Width - 2]
      /\ p[Width - 2] = 2 * p[Width - 3] /\ p[Width - 3] = 2 * p[Width - 4]
  BY <1>3, <1>4
<1>6. p[Width - 4] \in Nat \ {0} /\ p[Width] \in Nat \ {0}
  BY <1>2, <1>4
<1>7. p[Width] = 16 * p[Width - 4]
  BY <1>5, <1>6
<1> QED BY <1>6, <1>7 DEF p, UintSize

\* Quotient and remainder.
LEMMA Divided ==
  ASSUME NEW x \in Int, NEW M \in Nat \ {0}
  PROVE  x = M * (x \div M) + (x % M) /\ x \div M \in Int /\ x % M \in 0..(M - 1)
OBVIOUS

\* There is only one remainder.
LEMMA Remainder ==
  ASSUME NEW M \in Nat \ {0}, NEW q \in Int, NEW r \in 0..(M - 1), NEW x, x = M * q + r
  PROVE  x % M = r
<1> DEFINE p == x \div M
           s == x % M
<1>1. x \in Int
  OBVIOUS
<1>2. x = M * p + s /\ p \in Int /\ s \in 0..(M - 1)
  BY <1>1
<1> HIDE DEF p, s
<1>3. M * (q - p) = s - r
  BY <1>2
<1>4. \A k \in Int : k >= 1 => M * k >= M
  OBVIOUS
<1>5. \A k \in Int : k <= -1 => M * k <= -M
  OBVIOUS
<1>6. q - p \in Int /\ q - p < 1 /\ q - p > -1
  <2>1. CASE q - p >= 1
    BY <1>2, <1>3, <1>4, <2>1
  <2>2. CASE q - p <= -1
    BY <1>2, <1>3, <1>5, <2>2
  <2> QED BY <1>2, <2>1, <2>2
<1>7. q - p = 0
  BY <1>6
<1>8. M * 0 = 0
  OBVIOUS
<1>9. s - r = 0
  BY <1>3, <1>7, <1>8
<1> QED BY <1>2, <1>9 DEF s

\* Shifting by a digit and cutting off the upper digits can be done in either order.
LEMMA ShiftThenCut ==
  ASSUME NEW m \in Nat \ {0}, NEW h \in Nat, NEW d \in 0..15
  PROVE  ((16 * (h % (16 * m))) % (16 * m)) + d = (16 * h + d) % (16 * m)
<1> DEFINE M == 16 * m
           k == h \div M
           c == h % M
           q == c \div m
           r == c % m
<1>0. M \in Nat \ {0} /\ M = 16 * m
  OBVIOUS
<1> HIDE DEF M
<1>1. M \in Nat \ {0} /\ h = M * k + c /\ k \in Int /\ c \in Nat
  <2>1. M \in Nat \ {0} /\ h \in Int
    BY <1>0
  <2>2. h = M * k + c /\ k \in Int /\ c \in 0..(M - 1)
    BY <2>1, Divided
  <2> QED BY <2>1, <2>2
<1>2. c = m * q + r /\ q \in Int /\ r \in 0..(m - 1)
  <2>1. c \in Int
    BY <1>1
  <2> QED BY <2>1, Divided
<1>3. M = 16 * m
  BY <1>0
<1> HIDE DEF k, c, q, r
<1>4. 16 * r \in 0..(M - 1) /\ 16 * r + d \in 0..(M - 1)
  BY <1>2, <1>3
<1>5. 16 * (m * q) = M * q
  BY <1>2, <1>3
<1>6. 16 * c = M * q + 16 * r
  BY <1>1, <1>2, <1>5
<1>7. (16 * c) % M = 16 * r
  BY <1>1, <1>2, <1>4, <1>6, Remainder
<1>8. M * (16 * k + q) = 16 * (M * k) + M * q
  BY <1>1, <1>2
<1>9. M * k \in Int /\ M * q \in Int
  BY <1>1, <1>2
<1>10. 16 * h + d = M * (16 * k + q) + (16 * r + d)
  BY <1>1, <1>2, <1>6, <1>8, <1>9
<1>11. (16 * h + d) % M = 16 * r + d
  <2> DEFINE u == 16 * k + q
             t == 16 * r + d
  <2>1. u \in Int /\ t \in 0..(M - 1) /\ 16 * h + d = M * u + t
    BY <1>1, <1>2, <1>4, <1>10
  <2> HIDE DEF u, t
  <2>2. (16 * h + d) % M = t
    BY <1>1, <2>1, Remainder
  <2> QED BY <2>2 DEF t
<1> QED BY <1>7, <1>11 DEF M, c

\* The parser's digits are those that are spelled.
LEMMA DigitsAreThoseSpelled ==
  ASSUME NEW ch \in Int
  PROVE  /\ HexDigit(ch) \in Int
         /\ HexDigit(ch) # NotADigit <=> DigitSpelled(ch) # {}
         /\ DigitSpelled(ch) # {} => HexDigit(ch) \in 0..15 /\ DigitOf(ch) = HexDigit(ch)
<1>1. HexDigit(ch) \in Int /\ (HexDigit(ch) # NotADigit => HexDigit(ch) \in 0..15)
  BY DEF HexDigit, NotADigit
<1>2. ASSUME NEW d \in 0..15 PROVE ch \in SpellingsOf(d) <=> HexDigit(ch) = d
  BY DEF HexDigit, NotADigit, SpellingsOf
<1>3. \A d \in DigitSpelled(ch) : d \in 0..15 /\ HexDigit(ch) = d
  BY <1>2 DEF DigitSpelled
<1>4. HexDigit(ch) # NotADigit => HexDigit(ch) \in DigitSpelled(ch)
  BY <1>1, <1>2 DEF DigitSpelled
<1>5. DigitSpelled(ch) # {} => DigitOf(ch) \in DigitSpelled(ch)
  BY DEF DigitOf
<1>6. \A d \in 0..15 : d # NotADigit
  BY DEF NotADigit
<1> QED BY <1>1, <1>3, <1>4, <1>5, <1>6

\* What the parser accumulates is defined digit by digit.
AccumulatedStep(data, f) ==
  [n \in 0..Len(data) |->
     IF n = 0 THEN 0 ELSE ((16 * f[n - 1]) % UintSize) + HexDigit(data[n])]

\* The digits of a text are integers, so there is such a number for each of its prefixes.
LEMMA AccumulatedIsDefined ==
  ASSUME NEW data \in Seq(Int)
  PROVE  Accumulated(data) = AccumulatedStep(data, Accumulated(data))
<1> DEFINE M == UintSize
           D(n) == IF n \in 1..Len(data) THEN HexDigit(data[n]) ELSE 0
           up == [p \in Nat \X Int |-> ((16 * p[2]) % M) + D(p[1])]
<1>1. Len(data) \in Nat /\ \A n \in 1..Len(data) : data[n] \in Int
  BY LenProperties, ElementOfSeq
<1>2. M \in Nat \ {0}
  BY Sixteens
<1>3. \A n \in Nat : D(n) \in Int
  <2>1. \A n \in 1..Len(data) : HexDigit(data[n]) \in Int
    BY <1>1, DigitsAreThoseSpelled
  <2> QED BY <2>1
<1> HIDE DEF M
<1>4. up \in [Nat \X Int -> Int] /\ \A n \in Nat, r \in Int : up[<<n, r>>] = ((16 * r) % M) + D(n)
  <2> HIDE DEF D
  <2>1. \A n \in Nat, r \in Int : ((16 * r) % M) + D(n) \in Int
    BY <1>2, <1>3
  <2> QED BY <2>1
<1> HIDE DEF up
<1>5. PICK f \in [0..Len(data) -> Int] : Recurs(f, Len(data), 0, up)
  <2>1. 0 \in Int
    OBVIOUS
  <2> QED BY <1>1, <1>4, <2>1, PrimitiveRecursion
<1>6. ASSUME NEW n \in 0..Len(data), n # 0
      PROVE  up[<<n, f[n - 1]>>] = ((16 * f[n - 1]) % M) + HexDigit(data[n])
  <2>1. n \in 1..Len(data) /\ n \in Nat /\ n - 1 \in 0..Len(data)
    BY <1>1, <1>6
  <2>2. D(n) = HexDigit(data[n])
    BY <2>1
  <2> HIDE DEF D
  <2>3. f[n - 1] \in Int
    BY <2>1
  <2> QED BY <1>4, <2>1, <2>2, <2>3, Zenon
<1>7. f = AccumulatedStep(data, f)
  <2>1. \A n \in 0..Len(data) : (IF n = 0 THEN 0 ELSE up[<<n, f[n - 1]>>]) =
            IF n = 0 THEN 0 ELSE ((16 * f[n - 1]) % M) + HexDigit(data[n])
    BY <1>6, Zenon
  <2>2. AccumulatedStep(data, f) =
          [n \in 0..Len(data) |-> IF n = 0 THEN 0 ELSE ((16 * f[n - 1]) % M) + HexDigit(data[n])]
    BY DEF AccumulatedStep, M
  <2> QED BY <1>5, <2>1, <2>2 DEF Recurs
<1>8. Accumulated(data) = CHOOSE g : g = AccumulatedStep(data, g)
  BY DEF Accumulated, AccumulatedStep
<1> QED BY <1>7, <1>8

\* And the value of the first digits.
SpelledStep(data, f) ==
  [n \in 0..Len(data) |->
     IF n = 0 THEN 0
     ELSE f[n - 1] + Powers(16, Len(data))[Len(data) - n] * DigitOf(data[n])]

\* There is such a value for a text of digits.
LEMMA SpelledIsDefined ==
  ASSUME NEW data \in Seq(Int), \A i \in 1..Len(data) : DigitSpelled(data[i]) # {}
  PROVE  SpelledSoFar(data) = SpelledStep(data, SpelledSoFar(data))
<1> DEFINE size == Len(data)
           w == Powers(16, size)
           D(n) == IF n \in 1..size THEN w[size - n] * DigitOf(data[n]) ELSE 0
           up == [p \in Nat \X Int |-> p[2] + D(p[1])]
<1>1. size \in Nat /\ \A n \in 1..size : data[n] \in Int /\ DigitSpelled(data[n]) # {}
  BY LenProperties, ElementOfSeq
<1>2. \A n \in 0..size : w[n] \in Nat
  BY <1>1, PowersAreDefined
<1> HIDE DEF size, w
<1>3. ASSUME NEW n \in Nat PROVE D(n) \in Int
  <2>1. CASE n \in 1..size
    <3>1. size - n \in 0..size
      BY <1>1, <2>1
    <3>2. w[size - n] \in Nat
      BY <1>2, <3>1
    <3>3. DigitOf(data[n]) \in 0..15
      BY <1>1, <2>1, DigitsAreThoseSpelled
    <3>4. w[size - n] * DigitOf(data[n]) \in Int
      BY <3>2, <3>3
    <3> QED BY <2>1, <3>4
  <2>2. CASE n \notin 1..size
    BY <2>2
  <2> QED BY <2>1, <2>2
<1>4. up \in [Nat \X Int -> Int] /\ \A n \in Nat, r \in Int : up[<<n, r>>] = r + D(n)
  <2>1. \A n \in Nat : D(n) \in Int
    BY <1>3
  <2> HIDE DEF D
  <2>2. \A n \in Nat, r \in Int : r + D(n) \in Int
    BY <2>1
  <2> QED BY <2>2
<1> HIDE DEF up
<1>5. PICK f \in [0..size -> Int] : Recurs(f, size, 0, up)
  <2>1. 0 \in Int
    OBVIOUS
  <2> QED BY <1>1, <1>4, <2>1, PrimitiveRecursion
<1>6. ASSUME NEW n \in 0..size, n # 0
      PROVE  up[<<n, f[n - 1]>>] = f[n - 1] + w[size - n] * DigitOf(data[n])
  <2>1. n \in 1..size /\ n \in Nat /\ n - 1 \in 0..size
    BY <1>1, <1>6
  <2>2. D(n) = w[size - n] * DigitOf(data[n])
    BY <2>1
  <2> HIDE DEF D
  <2>3. f[n - 1] \in Int
    BY <2>1
  <2>4. up[<<n, f[n - 1]>>] = f[n - 1] + D(n)
    BY <1>4, <2>1, <2>3, Zenon
  <2> QED BY <2>2, <2>4, Zenon
<1>7. f = SpelledStep(data, f)
  <2>1. \A n \in 0..size : (IF n = 0 THEN 0 ELSE up[<<n, f[n - 1]>>]) =
            IF n = 0 THEN 0 ELSE f[n - 1] + w[size - n] * DigitOf(data[n])
    BY <1>6, Zenon
  <2>2. SpelledStep(data, f) =
          [n \in 0..size |-> IF n = 0 THEN 0 ELSE f[n - 1] + w[size - n] * DigitOf(data[n])]
    BY DEF SpelledStep, w, size
  <2> QED BY <1>5, <2>1, <2>2 DEF Recurs
<1>8. SpelledSoFar(data) = CHOOSE g : g = SpelledStep(data, g)
  BY DEF SpelledSoFar, SpelledStep
<1> QED BY <1>7, <1>8

\* What is accumulated is what is spelled, but for what does not fit.
LEMMA AccumulatedIsSpelled ==
  ASSUME NEW data \in Seq(Int), \A i \in 1..Len(data) : DigitSpelled(data[i]) # {}
  PROVE  /\ PositionalValue(data) \in Nat
         /\ Accumulated(data)[Len(data)] = PositionalValue(data) % UintSize
<1> DEFINE size == Len(data)
           M == UintSize
           a == Accumulated(data)
           w == Powers(16, size)
           v == SpelledSoFar(data)
           X == {n \in Nat : n \in 0..size =>
                   \E h \in Nat : a[n] = h % M /\ v[n] = w[size - n] * h}
<1>1. size \in Nat /\ \A n \in 1..size : data[n] \in Int /\ DigitSpelled(data[n]) # {}
  BY LenProperties, ElementOfSeq
<1>2. \A n \in 0..size : a[n] = IF n = 0 THEN 0 ELSE ((16 * a[n - 1]) % M) + HexDigit(data[n])
  <2>1. a = AccumulatedStep(data, a)
    BY AccumulatedIsDefined
  <2> HIDE DEF a
  <2> QED BY <2>1 DEF AccumulatedStep
<1>3. \A n \in 0..size : w[n] \in Nat /\ w[n] = IF n = 0 THEN 1 ELSE 16 * w[n - 1]
  <2>1. w = PowersStep(16, size, w) /\ \A n \in 0..size : w[n] \in Nat
    BY <1>1, PowersAreDefined
  <2> HIDE DEF w, size
  <2> QED BY <2>1 DEF PowersStep
<1>4. \A n \in 0..size :
        v[n] = IF n = 0 THEN 0 ELSE v[n - 1] + w[size - n] * DigitOf(data[n])
  <2>1. v = SpelledStep(data, v)
    BY SpelledIsDefined
  <2> HIDE DEF v
  <2> QED BY <2>1 DEF SpelledStep
<1>5. PICK m \in Nat \ {0} : M = 16 * m
  BY Sixteens
<1> HIDE DEF a, w, v, M, size
<1>6. ASSUME NEW n \in Nat, 0..(n - 1) \subseteq X, n \in 0..size
      PROVE  \E h \in Nat : a[n] = h % M /\ v[n] = w[size - n] * h
  <2>1. CASE n = 0
    <3>1. a[n] = 0 /\ v[n] = 0
      BY <1>2, <1>4, <1>6, <2>1
    <3>2. size - n \in 0..size
      BY <1>1, <2>1
    <3>3. w[size - n] \in Nat
      BY <1>3, <3>2
    <3>4. 0 % M = 0 /\ w[size - n] * 0 = 0
      BY <1>5, <3>3
    <3> QED BY <3>1, <3>4
  <2>2. CASE n # 0
    <3> DEFINE d == HexDigit(data[n])
               p == w[size - n]
    <3>1. /\ n - 1 \in 0..(n - 1) /\ n - 1 \in 0..size /\ size - n \in 0..size
          /\ size - (n - 1) \in 0..size /\ size - (n - 1) # 0
          /\ size - (n - 1) - 1 = size - n /\ n \in 1..size
      BY <1>1, <1>6, <2>2
    <3>2. PICK h \in Nat : a[n - 1] = h % M /\ v[n - 1] = w[size - (n - 1)] * h
      BY <1>6, <3>1
    <3>3. w[size - (n - 1)] = 16 * p /\ p \in Nat
      BY <1>3, <3>1
    <3>4. d \in 0..15 /\ DigitOf(data[n]) = d
      BY <1>1, <3>1, DigitsAreThoseSpelled
    <3>5. a[n] = ((16 * a[n - 1]) % M) + d
      BY <1>2, <1>6, <2>2
    <3>6. v[n] = v[n - 1] + p * d
      BY <1>4, <1>6, <2>2, <3>4
    <3>7. ((16 * (h % (16 * m))) % (16 * m)) + d = (16 * h + d) % (16 * m)
      BY <1>5, <3>4, ShiftThenCut
    <3> HIDE DEF d, p
    <3>8. (16 * p) * h + p * d = p * (16 * h + d)
      BY <3>3, <3>4
    <3>9. 16 * h + d \in Nat
      BY <3>4
    <3>10. a[n] = (16 * h + d) % M
      BY <1>5, <3>2, <3>5, <3>7
    <3>11. v[n] = p * (16 * h + d)
      BY <3>2, <3>3, <3>6, <3>8
    <3> QED BY <3>9, <3>10, <3>11 DEF p
  <2> QED BY <2>1, <2>2
<1>7. Nat \subseteq X
  <2>1. ASSUME NEW n \in Nat, 0..(n - 1) \subseteq X PROVE n \in X
    BY <1>6, <2>1
  <2> HIDE DEF X
  <2> QED BY <2>1, NaturalsByInduction
<1>8. PICK h \in Nat : a[size] = h % M /\ v[size] = w[size - size] * h
  <2>1. size \in Nat /\ size \in 0..size
    BY <1>1
  <2> QED BY <1>7, <2>1
<1>9. size - size = 0 /\ 0 \in 0..size
  BY <1>1
<1>10. w[0] = 1
  BY <1>3, <1>9
<1>11. v[size] = h
  BY <1>8, <1>9, <1>10
<1> QED BY <1>8, <1>11 DEF PositionalValue, a, v, M, size

\* A text of digits gives the number that it spells, and any other gives none.
LEMMA ParsedAsSpelled ==
  ASSUME NEW data \in Seq(Int)
  PROVE  ParseHexUint64(data) =
           IF data # <<>> /\ \A i \in DOMAIN data : DigitSpelled(data[i]) # {}
           THEN <<PositionalValue(data) % UintSize>>
           ELSE <<>>
<1>1. DOMAIN data = 1..Len(data) /\ \A i \in DOMAIN data : data[i] \in Int
  BY LenProperties, ElementOfSeq
<1>2. \A i \in DOMAIN data : HexDigit(data[i]) # NotADigit <=> DigitSpelled(data[i]) # {}
  BY <1>1, DigitsAreThoseSpelled
<1>3. CASE data # <<>> /\ \A i \in DOMAIN data : DigitSpelled(data[i]) # {}
  <2>1. \A i \in 1..Len(data) : DigitSpelled(data[i]) # {}
    BY <1>1, <1>3
  <2>2. Accumulated(data)[Len(data)] = PositionalValue(data) % UintSize
    BY <2>1, AccumulatedIsSpelled
  <2> QED BY <1>2, <1>3, <2>2, Zenon DEF ParseHexUint64
<1>4. CASE ~(data # <<>> /\ \A i \in DOMAIN data : DigitSpelled(data[i]) # {})
  BY <1>2, <1>4, Zenon DEF ParseHexUint64
<1> QED BY <1>3, <1>4

\* Whatever the bytes are, however many they are, and however many bits the integer has from
\* four on, they give the number that strconv.ParseUint gives, or none as it does, if it is not
\* too large for the integer (parse_hex.go:7).
THEOREM HexIsPositional == BufferSpec => []HexAgreesWithPositions
<1>1. BufferInv => HexAgreesWithPositions
  <2> SUFFICES ASSUME BufferInv, ~IsTooLarge(Data(buffer))
               PROVE  ParseHexUint64(Data(buffer)) = ParseUint(Data(buffer))
    BY DEF HexAgreesWithPositions
  <2>0. PICK data : data = Data(buffer) /\ ~IsTooLarge(data)
    OBVIOUS
  <2>1. data \in Seq(Int)
    BY <2>0, DataTypes DEF BufferInv
  <2> SUFFICES ParseHexUint64(data) = ParseUint(data)
    BY <2>0
  <2>2. CASE IsHexadecimal(data)
    <3>1. \A i \in 1..Len(data) : DigitSpelled(data[i]) # {}
      BY <2>1, <2>2, LenProperties DEF IsHexadecimal
    <3>2. PositionalValue(data) \in Nat
      BY <2>1, <3>1, AccumulatedIsSpelled
    <3>3. ~(PositionalValue(data) >= UintSize)
      BY <2>0, <2>2, Zenon DEF IsTooLarge
    <3>4. UintSize \in Nat \ {0}
      BY Sixteens
    <3>5. PositionalValue(data) % UintSize = PositionalValue(data)
      BY <3>2, <3>3, <3>4
    <3> QED BY <2>0, <2>1, <2>2, <3>5, ParsedAsSpelled, Zenon DEF ParseUint, IsHexadecimal
  <2>3. CASE ~IsHexadecimal(data)
    BY <2>1, <2>3, ParsedAsSpelled, Zenon DEF ParseUint, IsHexadecimal
  <2> QED BY <2>2, <2>3
<1> QED BY <1>1, BufferInvariant, PTL

------------------------------------------------------------------------------
(***************************************************************************)
(* Flattening: what is in some of the sequences, and nothing else.         *)
(***************************************************************************)
Joined(ss, f) ==
  [i \in 1..Len(ss) |-> IF i = 1 THEN ss[i] ELSE f[i - 1] \o ss[i]]

\* What is in the first n sequences.
ElementsOf(ss, n) == UNION {Range(ss[j]) : j \in 1..n}

\* The sequences can be joined one after the other.
LEMMA JoinedExists ==
  ASSUME NEW T, NEW ss \in Seq(Seq(T))
  PROVE  \E f : f = Joined(ss, f)
<1> DEFINE size == Len(ss)
           w == [n \in Nat |-> IF n \in 1..size THEN ss[n] ELSE <<>>]
           step == [p \in Nat \X [Nat -> Seq(T)] |->
                      IF p[1] \in {0, 1} THEN w[p[1]] ELSE p[2][p[1] - 1] \o w[p[1]]]
<1>1. size \in Nat /\ \A n \in 1..size : ss[n] \in Seq(T)
  BY LenProperties, ElementOfSeq
<1>2. w \in [Nat -> Seq(T)]
  BY <1>1, EmptySeq
<1>3. \A n \in 1..size : w[n] = ss[n]
  BY <1>1
<1> HIDE DEF w
<1>4. \A n \in Nat : \A f \in [Nat -> Seq(T)] :
        step[<<n, f>>] = IF n \in {0, 1} THEN w[n] ELSE f[n - 1] \o w[n]
  OBVIOUS
<1>5. step \in [Nat \X [Nat -> Seq(T)] -> Seq(T)]
  <2>1. ASSUME NEW n \in Nat, NEW f \in [Nat -> Seq(T)]
        PROVE  (IF n \in {0, 1} THEN w[n] ELSE f[n - 1] \o w[n]) \in Seq(T)
    <3>1. w[n] \in Seq(T)
      BY <1>2
    <3>2. CASE n \in {0, 1}
      BY <3>1, <3>2
    <3>3. CASE n \notin {0, 1}
      <4>1. n - 1 \in Nat
        BY <3>3
      <4>2. f[n - 1] \in Seq(T)
        BY <4>1
      <4>3. f[n - 1] \o w[n] \in Seq(T)
        BY <3>1, <4>2, ConcatProperties
      <4> QED BY <3>3, <4>3
    <3> QED BY <3>2, <3>3
  <2> QED BY <2>1
<1> HIDE DEF step
<1>6. LooksBack(Seq(T), step)
  <2> SUFFICES ASSUME NEW n \in Nat, NEW f \in [Nat -> Seq(T)], NEW g \in [Nat -> Seq(T)],
                      \A m \in 0..(n - 1) : f[m] = g[m]
               PROVE  step[<<n, f>>] = step[<<n, g>>]
    BY DEF LooksBack
  <2>1. n \notin {0, 1} => n - 1 \in 0..(n - 1)
    OBVIOUS
  <2>2. n \notin {0, 1} => f[n - 1] = g[n - 1]
    BY <2>1
  <2>3. /\ step[<<n, f>>] = IF n \in {0, 1} THEN w[n] ELSE f[n - 1] \o w[n]
        /\ step[<<n, g>>] = IF n \in {0, 1} THEN w[n] ELSE g[n - 1] \o w[n]
    BY <1>4, Zenon
  <2> QED BY <2>2, <2>3, Zenon
<1>7. <<>> \in Seq(T)
  BY EmptySeq
<1>8. PICK f \in [Nat -> Seq(T)] : \A n \in Nat : f[n] = step[<<n, f>>]
  <2>1. Seq(T) # {}
    BY <1>7
  <2> QED BY <1>5, <1>6, <2>1, NaturalsByRecursion
<1> DEFINE g == [i \in 1..size |-> f[i]]
<1>9. \A i \in 1..size : f[i] = IF i = 1 THEN ss[i] ELSE f[i - 1] \o ss[i]
  <2> SUFFICES ASSUME NEW i \in 1..size PROVE f[i] = IF i = 1 THEN ss[i] ELSE f[i - 1] \o ss[i]
    OBVIOUS
  <2>1. i \in Nat /\ i # 0
    BY <1>1
  <2> QED BY <1>3, <1>4, <1>8, <2>1
<1>10. \A i \in 1..size : i # 1 => i - 1 \in 1..size
  BY <1>1
<1>11. \A i \in 1..size : g[i] = f[i]
  OBVIOUS
<1>12. \A i \in 1..size : f[i] = IF i = 1 THEN ss[i] ELSE g[i - 1] \o ss[i]
  BY <1>9, <1>10, <1>11
<1>13. g = Joined(ss, g)
  <2> HIDE DEF g
  <2>1. Joined(ss, g) = [i \in 1..size |-> IF i = 1 THEN ss[i] ELSE g[i - 1] \o ss[i]]
    BY DEF Joined
  <2>2. [i \in 1..size |-> f[i]] = [i \in 1..size |-> IF i = 1 THEN ss[i] ELSE g[i - 1] \o ss[i]]
    BY <1>12
  <2> QED BY <2>1, <2>2 DEF g
<1> QED BY <1>13

\* What has been joined so far is in the sequences so far, and the other way round.
LEMMA JoinedRange ==
  ASSUME NEW T, NEW ss \in Seq(Seq(T)), NEW f, f = Joined(ss, f), NEW i \in 1..Len(ss)
  PROVE  f[i] \in Seq(T) /\ Range(f[i]) = ElementsOf(ss, i)
<1>1. Len(ss) \in Nat /\ \A n \in 1..Len(ss) : ss[n] \in Seq(T)
  BY LenProperties, ElementOfSeq
<1>2. \A n \in 1..Len(ss) : f[n] = IF n = 1 THEN ss[n] ELSE f[n - 1] \o ss[n]
  BY DEF Joined
<1> DEFINE size == Len(ss)
           X == {n \in Nat : n \in 1..size => f[n] \in Seq(T) /\ Range(f[n]) = ElementsOf(ss, n)}
<1>3. ASSUME NEW n \in Nat, 0..(n - 1) \subseteq X PROVE n \in X
  <2>1. SUFFICES ASSUME n \in 1..size PROVE f[n] \in Seq(T) /\ Range(f[n]) = ElementsOf(ss, n)
    BY Zenon
  <2>2. CASE n = 1
    <3>1. 1..n = {1}
      BY <2>2
    <3>2. ElementsOf(ss, n) = Range(ss[1])
      BY <3>1 DEF ElementsOf
    <3>3. f[n] = ss[1]
      BY <1>2, <2>1, <2>2
    <3> QED BY <1>1, <2>1, <2>2, <3>2, <3>3
  <2>3. CASE n # 1
    <3>1. n - 1 \in 0..(n - 1) /\ n - 1 \in 1..size /\ n - 1 \in Nat
      BY <1>1, <2>1, <2>3
    <3>2. n - 1 \in X
      BY <1>3, <3>1
    <3>3. f[n - 1] \in Seq(T) /\ Range(f[n - 1]) = ElementsOf(ss, n - 1)
      BY <3>1, <3>2
    <3>4. ss[n] \in Seq(T) /\ f[n] = f[n - 1] \o ss[n]
      BY <1>1, <1>2, <2>1, <2>3
    <3>5. f[n] \in Seq(T) /\ Range(f[n]) = ElementsOf(ss, n - 1) \cup Range(ss[n])
      BY <3>3, <3>4, ConcatProperties, RangeConcatenation
    <3>6. 1..n = (1..(n - 1)) \cup {n}
      BY <2>1, <1>1
    <3>7. ElementsOf(ss, n) = ElementsOf(ss, n - 1) \cup Range(ss[n])
      BY <3>6 DEF ElementsOf
    <3> QED BY <3>5, <3>7
  <2> QED BY <2>2, <2>3
<1>4. Nat \subseteq X
  <2> HIDE DEF X
  <2> QED BY <1>3, NaturalsByInduction
<1>5. i \in X /\ i \in 1..size
  <2>1. i \in Nat /\ i \in 1..size
    BY <1>1
  <2> HIDE DEF X
  <2> QED BY <1>4, <2>1
<1> QED BY <1>5

\* Flattening sequences keeps their elements.
LEMMA FlattenedRange ==
  ASSUME NEW T, NEW ss \in Seq(Seq(T))
  PROVE  /\ FlattenSeq(ss) \in Seq(T)
         /\ Range(FlattenSeq(ss)) = ElementsOf(ss, Len(ss))
<1>1. Len(ss) \in Nat
  BY LenProperties
<1>2. CASE Len(ss) = 0
  <2>1. FlattenSeq(ss) = ss /\ ss = <<>>
    BY <1>2, EmptySeq DEF FlattenSeq
  <2>2. <<>> \in Seq(T) /\ Range(<<>>) = {} /\ 1..Len(ss) = {}
    <3>1. Range(<<>>) = {}
      BY DEF Range
    <3> QED BY <1>2, <3>1, EmptySeq
  <2> QED BY <2>1, <2>2 DEF ElementsOf
<1>3. CASE Len(ss) # 0
  <2> DEFINE f == CHOOSE f : f = Joined(ss, f)
  <2>1. FlattenSeq(ss) = f[Len(ss)]
    BY <1>3 DEF FlattenSeq, Joined
  <2>2. f = Joined(ss, f)
    BY JoinedExists
  <2> HIDE DEF f
  <2>3. Len(ss) \in 1..Len(ss)
    BY <1>1, <1>3
  <2>4. f[Len(ss)] \in Seq(T) /\ Range(f[Len(ss)]) = ElementsOf(ss, Len(ss))
    BY <2>2, <2>3, JoinedRange
  <2> QED BY <2>1, <2>4, Zenon
<1> QED BY <1>2, <1>3

------------------------------------------------------------------------------
(***************************************************************************)
(* The arrays of the builders.                                             *)
(***************************************************************************)
OptionalKeys == KeyLists \cup {<<>>}
KeySets == {PreprocessStringSet(keys) : keys \in OptionalKeys}
ItemRecord(k) ==
  [lists : [Lists(k) -> SliceRecord], rules : SliceRecord, setting : Settings \cup {""},
   included : OptionalKeys, excluded : OptionalKeys,
   preprocessed : [included : KeySets, excluded : KeySets]]

\* What the arrays hold.
TargetRecord == [values : KeyLists, preprocessed : KeySets]
RuleRecord == [clauses : SliceRecord]
WrittenClauses == UNION {Range(clauses) : clauses \in ClauseLists}
ClauseElements == WrittenClauses \cup {PreprocessClause(c) : c \in WrittenClauses}
HeapElements == TargetRecord \cup RuleRecord \cup ClauseElements \cup {Zero}

BuilderTypes ==
  /\ kind \in {"flag", "segment"}
  /\ heap \in Seq(Seq(HeapElements))
  /\ item \in ItemRecord(kind)
  /\ rule \in RuleRecord
  /\ building = <<>> \/ \E x \in ItemRecord(kind) : building = <<x>>
  /\ built \in Seq(ItemRecord(kind))
  /\ todo \in Seq(Nat \X Nat)

\* Every array belongs to one of the lists, to the rules, or to the clauses of a rule: its
\* owner.  A slice is valid if it lies in an array of the right owner.
Owners(k) == Lists(k) \cup {"rules", "clauses"}
Contents(o) ==
  CASE o = "rules"   -> RuleRecord
    [] o = "clauses" -> ClauseElements
    [] OTHER         -> TargetRecord

ValidSlice(h, owner, s, o) ==
  /\ s \in SliceRecord
  /\ FitsIts(h, s)
  /\ s.array # 0 => owner[s.array] = o
  /\ \A i \in 1..s.len : h[s.array][i] \in Contents(o)
ClausesOfRule(h, x, i) == h[x.rules.array][i].clauses
ValidItem(k, h, owner, x) ==
  /\ \A name \in Lists(k) : ValidSlice(h, owner, x.lists[name], name)
  /\ ValidSlice(h, owner, x.rules, "rules")
  /\ \A i \in 1..x.rules.len : ValidSlice(h, owner, ClausesOfRule(h, x, i), "clauses")

\* The copies of the builder's struct, and the slices in all of them, in the builder and in
\* the rule builder.
Copies == Range(building) \cup Range(built)
OwnedBy(owner) ==
  /\ owner \in [1..Len(heap) -> Owners(kind)]
  /\ \A x \in {item} \cup Copies : ValidItem(kind, heap, owner, x)
  /\ ValidSlice(heap, owner, rule.clauses, "clauses")
EveryArrayHasAnOwner == \E owner : OwnedBy(owner)

\* The builder's slices reach at least as far as those of what was built from it.
ReachesNoFurther(s, t) == s.array = t.array => s.len <= t.len
CopiesAreBehind ==
  \A x \in Copies :
    /\ \A name \in Lists(kind) : ReachesNoFurther(x.lists[name], item.lists[name])
    /\ ReachesNoFurther(x.rules, item.rules)

\* The places of an item that preprocessing writes.
PlacesIn(s) == {<<s.array, i>> : i \in 1..s.len}
PlacesOf(k, h, x) ==
  (UNION {PlacesIn(x.lists[name]) : name \in Lists(k) \ {"contextTargets"}})
    \cup (UNION {PlacesIn(ClausesOfRule(h, x, i)) : i \in 1..x.rules.len})
IsPreprocessed(e) == PreprocessElement(e) = e

\* What has been built is preprocessed, and what is being built is, except for what is left
\* to do.
PreprocessedSoFar ==
  /\ Idle => todo = <<>>
  /\ \A x \in Copies : PreprocessStruct(x) = x
  /\ \A x \in Range(built) : \A p \in PlacesOf(kind, heap, x) : IsPreprocessed(At(heap, p))
  /\ \A x \in Range(building) :
       /\ Range(todo) \subseteq PlacesOf(kind, heap, x)
       /\ \A p \in PlacesOf(kind, heap, x) : p \in Range(todo) \/ IsPreprocessed(At(heap, p))

BuilderInv == BuilderTypes /\ EveryArrayHasAnOwner /\ CopiesAreBehind /\ PreprocessedSoFar

------------------------------------------------------------------------------
(***************************************************************************)
(* Preprocessing an element again changes nothing.                         *)
(***************************************************************************)
LEMMA TargetElements ==
  ASSUME NEW e \in TargetRecord
  PROVE  /\ PreprocessElement(e) \in TargetRecord
         /\ IsPreprocessed(PreprocessElement(e))
         /\ IsPreprocessed(e) => e.preprocessed = PreprocessStringSet(e.values)
<1>1. "op" \notin DOMAIN e
  BY DEF TargetRecord
<1>2. PreprocessElement(e) = [e EXCEPT !.preprocessed = PreprocessStringSet(e.values)]
  BY <1>1 DEF PreprocessElement
<1>3. PreprocessStringSet(e.values) \in KeySets
  BY DEF TargetRecord, KeySets, OptionalKeys
<1> DEFINE d == PreprocessElement(e)
<1>4. d \in TargetRecord /\ d.values = e.values /\ d.preprocessed = PreprocessStringSet(e.values)
  BY <1>2, <1>3 DEF TargetRecord
<1> HIDE DEF d
<1>5. "op" \notin DOMAIN d
  BY <1>4 DEF TargetRecord
<1>6. PreprocessElement(d) = [d EXCEPT !.preprocessed = PreprocessStringSet(e.values)]
  BY <1>4, <1>5 DEF PreprocessElement
<1>7. PreprocessElement(d) = d
  BY <1>4, <1>6 DEF TargetRecord
<1> QED BY <1>4, <1>7 DEF IsPreprocessed, d

\* The clauses that the builders are given are clauses.
LEMMA WrittenClausesAreClauses == WrittenClauses \subseteq Clause
<1>1. ASSUME NEW clauses \in ClauseLists PROVE Range(clauses) \subseteq Clause
  <2>1. clauses \in Seq(Clause)
    BY BuildersAssumption
  <2> QED BY <2>1, RangeOfSeq
<1> QED BY <1>1 DEF WrittenClauses

\* What preprocessing adds depends on the operator and the values alone.
LEMMA PreprocessTwice ==
  ASSUME NEW c \in Clause
  PROVE  /\ PreprocessClause(PreprocessClause(c)) = PreprocessClause(c)
         /\ "op" \in DOMAIN c /\ "op" \in DOMAIN PreprocessClause(c)
<1> DEFINE p == PreprocessClause(c)
           Added(d) ==
             [valuesMap |-> ValuesMap(d),
              values    |-> IF d.op \in {"matches"} \cup DateOperators \cup SemVerOperators
                            THEN <<[i \in DOMAIN d.values |-> PreprocessValue(d.op, d.values[i])]>>
                            ELSE <<>>]
<1>1. p = [c EXCEPT !.preprocessed = Added(c)]
  BY Zenon DEF PreprocessClause
<1>2. PreprocessClause(p) = [p EXCEPT !.preprocessed = Added(p)]
  BY Zenon DEF PreprocessClause
<1>3. p.op = c.op /\ p.values = c.values
  <2> HIDE DEF Added, p
  <2> QED BY <1>1 DEF Clause
<1>4. ValuesMap(p) = ValuesMap(c)
  <2> HIDE DEF p
  <2> QED BY <1>3, Zenon DEF ValuesMap
<1>5. Added(p) = Added(c)
  <2> HIDE DEF p
  <2> QED BY <1>3, <1>4, Zenon
<1> HIDE DEF Added, p
<1>6. [p EXCEPT !.preprocessed = Added(c)] = p
  BY <1>1 DEF Clause
<1>7. "op" \in DOMAIN c /\ "op" \in DOMAIN p
  BY <1>1 DEF Clause
<1> QED BY <1>2, <1>5, <1>6, <1>7, Zenon DEF p

\* Preprocessing keeps the clauses that the builders are given, and what they become, together.
LEMMA ClausesAreElements ==
  ASSUME NEW e \in ClauseElements
  PROVE  /\ PreprocessElement(e) = PreprocessClause(e)
         /\ PreprocessElement(e) \in ClauseElements
         /\ IsPreprocessed(PreprocessElement(e))
<1>1. CASE e \in WrittenClauses
  <2>1. e \in Clause
    BY <1>1, WrittenClausesAreClauses
  <2>2. PreprocessElement(e) = PreprocessClause(e)
    BY <2>1, PreprocessTwice DEF PreprocessElement
  <2>3. PreprocessElement(PreprocessClause(e)) = PreprocessClause(e)
    BY <2>1, PreprocessTwice, Zenon DEF PreprocessElement
  <2> QED BY <1>1, <2>2, <2>3 DEF ClauseElements, IsPreprocessed
<1>2. CASE e \in {PreprocessClause(c) : c \in WrittenClauses}
  <2>1. PICK c \in WrittenClauses : e = PreprocessClause(c)
    BY <1>2
  <2>2. c \in Clause
    BY <2>1, WrittenClausesAreClauses
  <2>3. "op" \in DOMAIN e /\ PreprocessClause(e) = e
    BY <2>1, <2>2, PreprocessTwice
  <2>4. PreprocessElement(e) = PreprocessClause(e)
    BY <2>3, Zenon DEF PreprocessElement
  <2> QED BY <2>3, <2>4 DEF IsPreprocessed
<1> QED BY <1>1, <1>2 DEF ClauseElements

------------------------------------------------------------------------------
(***************************************************************************)
(* What is read of an item, and when it stays the same.                    *)
(***************************************************************************)
SameSlice(g, h, s) == \A i \in 1..s.len : g[s.array][i] = h[s.array][i]
LooksTheSame(g, h, x) ==
  /\ \A name \in DOMAIN x.lists : SameSlice(g, h, x.lists[name])
  /\ SameSlice(g, h, x.rules)
  /\ \A i \in 1..x.rules.len : SameSlice(g, h, ClausesOfRule(h, x, i))

\* Arrays are only added, each with an owner of its own, and do not change their length.
Grown(g, h, after, before) ==
  /\ Len(h) \in Nat /\ Len(g) \in Nat /\ Len(h) <= Len(g)
  /\ \A a \in 1..Len(h) : Len(g[a]) = Len(h[a]) /\ after[a] = before[a]
\* At most one element changes.
ChangedAt(g, h, place) ==
  \A a \in 1..Len(h) : \A j \in 1..Len(h[a]) : <<a, j>> # place => g[a][j] = h[a][j]

\* A slice is where its array is.
LEMMA PlacesOfSlice ==
  ASSUME NEW s \in SliceRecord, NEW a, NEW j
  PROVE  <<a, j>> \in PlacesIn(s) <=> a = s.array /\ j \in 1..s.len
<1>1. \A i : <<a, j>> = <<s.array, i>> <=> a = s.array /\ j = i
  OBVIOUS
<1> QED BY <1>1, Zenon DEF PlacesIn

\* A place stands for its element.
LEMMA ElementAt == \A h, a, j : At(h, <<a, j>>) = h[a][j]
BY DEF At

\* An item that is read the same is the same for an evaluation.
LEMMA SameRead ==
  ASSUME NEW g, NEW h, NEW x, LooksTheSame(g, h, x)
  PROVE  Read(g, x) = Read(h, x)
<1>1. \A s : SameSlice(g, h, s) => Content(g, s) = Content(h, s)
  BY DEF SameSlice, Content
<1>2. [name \in DOMAIN x.lists |-> Content(g, x.lists[name])] =
      [name \in DOMAIN x.lists |-> Content(h, x.lists[name])]
  BY <1>1 DEF LooksTheSame
<1>3. \A i \in 1..x.rules.len : At(g, <<x.rules.array, i>>) = At(h, <<x.rules.array, i>>)
  BY ElementAt DEF LooksTheSame, SameSlice
<1>4. \A i \in 1..x.rules.len :
        Content(g, At(h, <<x.rules.array, i>>).clauses) =
        Content(h, At(h, <<x.rules.array, i>>).clauses)
  BY <1>1, ElementAt DEF LooksTheSame, ClausesOfRule
<1>5. [i \in 1..x.rules.len |-> Content(g, At(g, <<x.rules.array, i>>).clauses)] =
      [i \in 1..x.rules.len |-> Content(h, At(h, <<x.rules.array, i>>).clauses)]
  BY <1>3, <1>4
<1> QED BY <1>2, <1>5, Zenon DEF Read

\* So are its places.
LEMMA SamePlaces ==
  ASSUME NEW k, NEW x \in ItemRecord(k), NEW g, NEW h, NEW owner,
         ValidItem(k, h, owner, x), LooksTheSame(g, h, x)
  PROVE  /\ PlacesOf(k, g, x) = PlacesOf(k, h, x)
         /\ \A p \in PlacesOf(k, h, x) : At(g, p) = At(h, p)
<1>1. \A i \in 1..x.rules.len : ClausesOfRule(g, x, i) = ClausesOfRule(h, x, i)
  BY DEF LooksTheSame, SameSlice, ClausesOfRule
<1>2. PlacesOf(k, g, x) = PlacesOf(k, h, x)
  BY <1>1 DEF PlacesOf
<1>3. \A s : SameSlice(g, h, s) => \A p \in PlacesIn(s) : At(g, p) = At(h, p)
  BY DEF SameSlice, PlacesIn, At
<1>4. \A name \in Lists(k) : SameSlice(g, h, x.lists[name])
  BY DEF LooksTheSame, ItemRecord
<1>5. \A i \in 1..x.rules.len : SameSlice(g, h, ClausesOfRule(h, x, i))
  BY DEF LooksTheSame
<1>6. \A p \in PlacesOf(k, h, x) : At(g, p) = At(h, p)
  BY <1>3, <1>4, <1>5 DEF PlacesOf
<1> QED BY <1>2, <1>6

\* A slice that is read the same stays valid.
LEMMA SliceStaysValid ==
  ASSUME NEW g, NEW h, NEW after, NEW before, Grown(g, h, after, before),
         NEW s, NEW o, ValidSlice(h, before, s, o), SameSlice(g, h, s)
  PROVE  ValidSlice(g, after, s, o)
<1>1. s \in SliceRecord /\ (s.len # 0 => s.array # 0)
  BY DEF ValidSlice, FitsIts
<1>2. ASSUME s.array # 0
      PROVE  /\ s.array \in 1..Len(g) /\ s.len <= Len(g[s.array])
             /\ after[s.array] = o
  <2>1. s.array \in 1..Len(h) /\ s.len <= Len(h[s.array]) /\ before[s.array] = o
    BY <1>2 DEF ValidSlice, FitsIts
  <2>2. s.array \in 1..Len(g)
    BY <2>1 DEF Grown
  <2> QED BY <2>1, <2>2 DEF Grown
<1>3. \A i \in 1..s.len : g[s.array][i] \in Contents(o)
  BY DEF ValidSlice, SameSlice
<1> QED BY <1>1, <1>2, <1>3, Zenon DEF ValidSlice, FitsIts

\* So does an item.
LEMMA ItemStaysValid ==
  ASSUME NEW k, NEW x \in ItemRecord(k), NEW g, NEW h, NEW after, NEW before,
         Grown(g, h, after, before), ValidItem(k, h, before, x), LooksTheSame(g, h, x)
  PROVE  ValidItem(k, g, after, x)
<1>1. \A name \in Lists(k) : SameSlice(g, h, x.lists[name])
  BY DEF LooksTheSame, ItemRecord
<1>2. \A name \in Lists(k) : ValidSlice(g, after, x.lists[name], name)
  BY <1>1, SliceStaysValid DEF ValidItem
<1>3. ValidSlice(g, after, x.rules, "rules")
  BY SliceStaysValid DEF ValidItem, LooksTheSame
<1>4. ASSUME NEW i \in 1..x.rules.len
      PROVE  ValidSlice(g, after, ClausesOfRule(g, x, i), "clauses")
  <2>1. ClausesOfRule(g, x, i) = ClausesOfRule(h, x, i)
    BY DEF LooksTheSame, SameSlice, ClausesOfRule
  <2>2. /\ ValidSlice(h, before, ClausesOfRule(h, x, i), "clauses")
        /\ SameSlice(g, h, ClausesOfRule(h, x, i))
    BY DEF ValidItem, LooksTheSame
  <2>3. ValidSlice(g, after, ClausesOfRule(h, x, i), "clauses")
    BY <2>2, SliceStaysValid
  <2> QED BY <2>1, <2>3
<1> QED BY <1>2, <1>3, <1>4 DEF ValidItem

\* A slice is read the same if what changes is not in it.
LEMMA NotInSlice ==
  ASSUME NEW S, NEW h \in Seq(Seq(S)), NEW g, NEW place, ChangedAt(g, h, place),
         NEW owner, NEW s, NEW o, ValidSlice(h, owner, s, o), place \notin PlacesIn(s)
  PROVE  SameSlice(g, h, s)
<1> SUFFICES ASSUME NEW i \in 1..s.len PROVE g[s.array][i] = h[s.array][i]
  BY DEF SameSlice
<1>1. s \in SliceRecord /\ s.len \in Nat /\ s.len # 0
  BY DEF ValidSlice, SliceRecord
<1>2. s.array \in 1..Len(h) /\ s.len <= Len(h[s.array])
  BY <1>1 DEF ValidSlice, FitsIts
<1>3. Len(h[s.array]) \in Nat
  BY <1>2, ElementOfSeq, LenProperties
<1>4. i \in 1..Len(h[s.array])
  BY <1>1, <1>2, <1>3
<1>5. <<s.array, i>> # place
  BY <1>1, PlacesOfSlice
<1> QED BY <1>2, <1>4, <1>5 DEF ChangedAt

\* No slice of another owner has a place in an array.
LEMMA NotOfOtherOwner ==
  ASSUME NEW h, NEW owner, NEW s, NEW o, ValidSlice(h, owner, s, o),
         NEW a, NEW j, owner[a] # o
  PROVE  <<a, j>> \notin PlacesIn(s)
<1>1. s \in SliceRecord /\ s.len \in Nat
  BY DEF ValidSlice, SliceRecord
<1>2. SUFFICES ASSUME a = s.array, j \in 1..s.len PROVE FALSE
  BY <1>1, PlacesOfSlice
<1>3. s.array # 0
  BY <1>1, <1>2 DEF ValidSlice, FitsIts
<1> QED BY <1>2, <1>3 DEF ValidSlice

------------------------------------------------------------------------------
(***************************************************************************)
(* append, where every array has an owner.                                 *)
(***************************************************************************)
\* A new array belongs to whom it is made for.
NewOwner(owner, h, g, o) == [a \in 1..Len(g) |-> IF a \in 1..Len(h) THEN owner[a] ELSE o]

\* The slice s of owner o gets the element x: the slice that append returns is valid, and at
\* most one element changes.
AppendsValidly(S, k, h, owner, o, s, x, r, after) ==
  /\ r.heap \in Seq(Seq(S))
  /\ after \in [1..Len(r.heap) -> Owners(k)]
  /\ Grown(r.heap, h, after, owner)
  /\ ChangedAt(r.heap, h, <<s.array, s.len + 1>>)
  /\ ValidSlice(r.heap, after, r.slice, o)
  /\ r.slice.len = s.len + 1
  /\ r.slice.array = s.array \/ r.slice.array = Len(h) + 1
  /\ \A j \in 1..s.len : r.heap[r.slice.array][j] = h[s.array][j]
  /\ r.heap[r.slice.array][s.len + 1] = x

\* If there is an owner for every array before append, so there is after it.
LEMMA AppendIsValid ==
  ASSUME NEW S, Zero \in S, NEW h \in Seq(Seq(S)), NEW k,
         NEW owner \in [1..Len(h) -> Owners(k)],
         NEW o \in Owners(k), NEW s, ValidSlice(h, owner, s, o),
         NEW x \in S, x \in Contents(o), NEW r \in AppendOutcomes(h, s, x)
  PROVE  \E after : AppendsValidly(S, k, h, owner, o, s, x, r, after)
<1> DEFINE after == NewOwner(owner, h, r.heap, o)
<1>1. s \in SliceRecord /\ FitsIts(h, s) /\ s.len \in Nat
  BY DEF ValidSlice, SliceRecord
<1>2. /\ r.heap \in Seq(Seq(S)) /\ r.slice \in SliceRecord
      /\ r.slice.len = s.len + 1
      /\ r.slice.array \in 1..Len(r.heap)
      /\ r.slice.len <= Len(r.heap[r.slice.array])
      /\ \A j \in 1..s.len : r.heap[r.slice.array][j] = h[s.array][j]
      /\ r.heap[r.slice.array][s.len + 1] = x
      /\ \/ r.slice.array = s.array /\ s.array # 0 /\ Len(r.heap) = Len(h)
         \/ r.slice.array = Len(h) + 1 /\ Len(r.heap) = Len(h) + 1
      /\ \A a \in 1..Len(h) :
           /\ Len(r.heap[a]) = Len(h[a])
           /\ \A j \in 1..Len(h[a]) : a # s.array \/ j # s.len + 1 => r.heap[a][j] = h[a][j]
  <2>1. KeepsElements(S, h, s, x, r)
    BY <1>1, AppendKeepsElements
  <2> QED BY <2>1 DEF KeepsElements
<1>3. Len(h) \in Nat /\ Len(r.heap) \in Nat /\ Len(h) <= Len(r.heap)
  <2>1. Len(h) \in Nat /\ Len(r.heap) \in Nat
    BY <1>2, LenProperties
  <2> QED BY <1>2, <2>1
<1>4. after \in [1..Len(r.heap) -> Owners(k)]
  BY DEF NewOwner
<1>5. \A a \in 1..Len(h) : after[a] = owner[a]
  BY <1>3 DEF NewOwner
<1>6. Grown(r.heap, h, after, owner)
  BY <1>2, <1>3, <1>5 DEF Grown
<1>7. ChangedAt(r.heap, h, <<s.array, s.len + 1>>)
  <2>1. \A a, j : <<a, j>> # <<s.array, s.len + 1>> => a # s.array \/ j # s.len + 1
    OBVIOUS
  <2> QED BY <1>2, <2>1, Zenon DEF ChangedAt
<1>8. after[r.slice.array] = o
  <2>1. CASE r.slice.array = s.array /\ s.array # 0
    <3>1. s.array \in 1..Len(h) /\ owner[s.array] = o
      BY <2>1 DEF ValidSlice, FitsIts
    <3> QED BY <1>5, <2>1, <3>1
  <2>2. CASE r.slice.array = Len(h) + 1
    <3>1. r.slice.array \notin 1..Len(h)
      BY <1>3, <2>2
    <3> QED BY <1>2, <3>1 DEF NewOwner
  <2> QED BY <1>2, <2>1, <2>2
<1>9. \A j \in 1..r.slice.len : r.heap[r.slice.array][j] \in Contents(o)
  <2>1. \A j \in 1..s.len : r.heap[r.slice.array][j] \in Contents(o)
    BY <1>2 DEF ValidSlice
  <2>2. \A j \in 1..r.slice.len : j \in 1..s.len \/ j = s.len + 1
    BY <1>1, <1>2
  <2> QED BY <1>2, <2>1, <2>2
<1>10. r.slice.array # 0
  BY <1>2, <1>3
<1>11. ValidSlice(r.heap, after, r.slice, o)
  BY <1>2, <1>8, <1>9, <1>10 DEF ValidSlice, FitsIts
<1> HIDE DEF after
<1>12. r.slice.array = s.array \/ r.slice.array = Len(h) + 1
  BY <1>2
<1>13. AppendsValidly(S, k, h, owner, o, s, x, r, after)
  BY <1>2, <1>4, <1>6, <1>7, <1>11, <1>12, Zenon DEF AppendsValidly
<1> QED BY <1>13

\* What append writes is behind every slice of the same owner that reaches no further, and
\* in no slice of another owner.
LEMMA NotAppendedTo ==
  ASSUME NEW h, NEW owner, NEW s, NEW o, ValidSlice(h, owner, s, o),
         NEW t, NEW p, ValidSlice(h, owner, t, p), p = o => ReachesNoFurther(t, s)
  PROVE  <<s.array, s.len + 1>> \notin PlacesIn(t)
<1>1. /\ s \in SliceRecord /\ t \in SliceRecord /\ s.len \in Nat /\ t.len \in Nat
      /\ s.array \in Nat /\ t.array \in Nat
  BY DEF ValidSlice, SliceRecord
<1>2. SUFFICES ASSUME s.array = t.array, s.len + 1 \in 1..t.len PROVE FALSE
  BY <1>1, PlacesOfSlice
<1>3. t.array # 0
  BY <1>1, <1>2 DEF ValidSlice, FitsIts
<1>4. p = o
  BY <1>2, <1>3 DEF ValidSlice
<1>5. t.len <= s.len
  BY <1>2, <1>4 DEF ReachesNoFurther
<1> QED BY <1>1, <1>2, <1>5

\* A slice that reaches no further than the old one reaches no further than the new one.
LEMMA StillBehind ==
  ASSUME NEW h, Len(h) \in Nat, NEW owner, NEW t, NEW p, ValidSlice(h, owner, t, p),
         NEW s \in SliceRecord, ReachesNoFurther(t, s),
         NEW new, new.len = s.len + 1, new.array = s.array \/ new.array = Len(h) + 1
  PROVE  ReachesNoFurther(t, new)
<1>1. t.len \in Nat /\ s.len \in Nat /\ t.array \in Nat
  BY DEF ValidSlice, SliceRecord
<1>2. SUFFICES ASSUME t.array = new.array PROVE t.len <= s.len + 1
  BY DEF ReachesNoFurther
<1>3. CASE new.array = s.array
  BY <1>1, <1>2, <1>3 DEF ReachesNoFurther
<1>4. CASE new.array = Len(h) + 1
  BY <1>1, <1>2, <1>4 DEF ValidSlice, FitsIts
<1> QED BY <1>3, <1>4

\* An item is read the same after an append to a slice that all its slices of the same owner
\* do not reach beyond.
LEMMA ItemNotAppendedTo ==
  ASSUME NEW S, NEW h \in Seq(Seq(S)), NEW g, NEW k, NEW owner, NEW s,
         NEW o, o # "clauses", ValidSlice(h, owner, s, o),
         ChangedAt(g, h, <<s.array, s.len + 1>>),
         NEW x \in ItemRecord(k), ValidItem(k, h, owner, x),
         o \in Lists(k) => ReachesNoFurther(x.lists[o], s),
         o = "rules" => ReachesNoFurther(x.rules, s)
  PROVE  LooksTheSame(g, h, x)
<1> DEFINE place == <<s.array, s.len + 1>>
<1>1. ASSUME NEW t, NEW p, ValidSlice(h, owner, t, p), p = o => ReachesNoFurther(t, s)
      PROVE  SameSlice(g, h, t)
  <2>1. place \notin PlacesIn(t)
    BY <1>1, NotAppendedTo
  <2> HIDE DEF place
  <2>2. ChangedAt(g, h, place)
    BY DEF place
  <2> QED BY <1>1, <2>1, <2>2, NotInSlice
<1>2. ASSUME NEW name \in DOMAIN x.lists PROVE SameSlice(g, h, x.lists[name])
  <2>1. name \in Lists(k)
    BY DEF ItemRecord
  <2> QED BY <1>1, <2>1 DEF ValidItem
<1>3. SameSlice(g, h, x.rules)
  BY <1>1 DEF ValidItem
<1>4. ASSUME NEW i \in 1..x.rules.len PROVE SameSlice(g, h, ClausesOfRule(h, x, i))
  BY <1>1 DEF ValidItem
<1> QED BY <1>2, <1>3, <1>4 DEF LooksTheSame

------------------------------------------------------------------------------
(***************************************************************************)
(* The steps that add to a list or to the rules.                           *)
(***************************************************************************)
BuiltReadsTheSame == \A i \in DOMAIN built : Read(heap', built'[i]) = Read(heap, built[i])

\* The names of the lists are not those of the other owners.
LEMMA ListNames ==
  ASSUME NEW k
  PROVE  \A name \in Lists(k) : name # "rules" /\ name # "clauses"
<1>1. Range(<<"targets">>) = {"targets"}
  BY DEF Range
<1>2. Range(<<"includedContexts", "excludedContexts">>) = {"includedContexts", "excludedContexts"}
  BY DEF Range
<1>3. \A name \in Lists(k) :
        name \in {"targets", "contextTargets", "includedContexts", "excludedContexts"}
  BY <1>1, <1>2 DEF Lists, PreprocessedLists
<1> QED BY <1>3

\* The lists hold targets.
LEMMA ContentsOfLists ==
  ASSUME NEW k, NEW name \in Lists(k)
  PROVE  Contents(name) = TargetRecord
BY ListNames DEF Contents

\* The rules hold rules, and the clauses clauses.
LEMMA ContentsOfOthers == Contents("rules") = RuleRecord /\ Contents("clauses") = ClauseElements
BY DEF Contents

\* While nothing is being built, what was built is as it was if it is read the same.
LEMMA BuiltStay ==
  ASSUME BuilderInv, NEW owner, OwnedBy(owner), NEW after, Idle,
         kind' = kind, built' = built, building' = building, todo' = todo,
         Grown(heap', heap, after, owner),
         \A x \in Range(built) : LooksTheSame(heap', heap, x)
  PROVE  /\ PreprocessedSoFar' /\ BuiltReadsTheSame
         /\ \A x \in Range(built) : ValidItem(kind, heap', after, x)
<1>1. /\ built \in Seq(ItemRecord(kind))
      /\ \A x \in Range(built) : x \in ItemRecord(kind)
  <2>1. built \in Seq(ItemRecord(kind))
    BY DEF BuilderInv, BuilderTypes
  <2> QED BY <2>1, RangeOfSeq
<1>2. building = <<>> /\ Range(building) = {} /\ Copies = Range(built)
  BY DEF Idle, Copies, Range
<1>3. \A x \in Range(built) : ValidItem(kind, heap, owner, x)
  BY <1>2 DEF OwnedBy
<1>4. \A x \in Range(built) : ValidItem(kind, heap', after, x)
  BY <1>1, <1>3, ItemStaysValid
<1>5. \A x \in Range(built) :
        /\ PlacesOf(kind, heap', x) = PlacesOf(kind, heap, x)
        /\ \A p \in PlacesOf(kind, heap, x) : At(heap', p) = At(heap, p)
  BY <1>1, <1>3, SamePlaces
<1>6. PreprocessedSoFar'
  <2>1. Idle' /\ Copies' = Copies
    BY DEF Idle, Copies
  <2>2. PreprocessedSoFar
    BY DEF BuilderInv
  <2>3. todo' = <<>>
    BY <2>2 DEF PreprocessedSoFar
  <2>4. \A x \in Copies' : PreprocessStruct(x) = x
    BY <2>1, <2>2 DEF PreprocessedSoFar
  <2>5. \A x \in Range(built') : \A p \in PlacesOf(kind', heap', x) : IsPreprocessed(At(heap', p))
    BY <1>5, <2>2 DEF PreprocessedSoFar
  <2>6. Range(building') = {}
    BY <1>2
  <2> QED BY <2>3, <2>4, <2>5, <2>6 DEF PreprocessedSoFar
<1>7. BuiltReadsTheSame
  <2>1. \A i \in DOMAIN built : built[i] \in Range(built)
    BY DEF Range
  <2>2. \A x \in Range(built) : Read(heap', x) = Read(heap, x)
    BY SameRead
  <2> QED BY <2>1, <2>2 DEF BuiltReadsTheSame
<1> QED BY <1>4, <1>6, <1>7

\* A target is added behind every list that was built.
LEMMA AddTargetStep ==
  ASSUME BuilderInv, NEW name \in Lists(kind), NEW keys \in KeyLists, AddTarget(name, keys)
  PROVE  BuilderInv' /\ BuiltReadsTheSame
<1> DEFINE s == item.lists[name]
           target == [values |-> keys, preprocessed |-> <<>>]
<1>1. PICK owner : OwnedBy(owner)
  BY DEF BuilderInv, EveryArrayHasAnOwner
<1>2. PICK r \in AppendOutcomes(heap, s, target) :
        heap' = r.heap /\ item' = [item EXCEPT !.lists[name] = r.slice]
  BY DEF AddTarget
<1>3. /\ Idle /\ kind' = kind /\ rule' = rule /\ building' = building /\ todo' = todo
      /\ built' = built
  BY DEF AddTarget
<1>4. BuilderTypes /\ CopiesAreBehind
  BY DEF BuilderInv
<1>5. /\ heap \in Seq(Seq(HeapElements)) /\ item \in ItemRecord(kind)
      /\ item.lists \in [Lists(kind) -> SliceRecord] /\ s \in SliceRecord
      /\ Zero \in HeapElements
  BY <1>4 DEF BuilderTypes, ItemRecord, HeapElements
<1>6. target \in TargetRecord /\ target \in HeapElements /\ target \in Contents(name)
  <2>1. <<>> \in KeySets
    BY DEF KeySets, OptionalKeys, PreprocessStringSet
  <2>2. target \in TargetRecord
    BY <2>1 DEF TargetRecord
  <2> QED BY <2>2, ContentsOfLists DEF HeapElements
<1>7. /\ owner \in [1..Len(heap) -> Owners(kind)] /\ name \in Owners(kind)
      /\ ValidItem(kind, heap, owner, item) /\ ValidSlice(heap, owner, s, name)
  BY <1>1 DEF OwnedBy, Owners, ValidItem
<1> HIDE DEF target, s
<1>20. PICK after :
         AppendsValidly(HeapElements, kind, heap, owner, name, s, target, r, after)
  BY <1>5, <1>6, <1>7, AppendIsValid
<1>8. /\ r.heap \in Seq(Seq(HeapElements))
      /\ after \in [1..Len(r.heap) -> Owners(kind)]
      /\ Grown(r.heap, heap, after, owner)
      /\ ChangedAt(r.heap, heap, <<s.array, s.len + 1>>)
      /\ ValidSlice(r.heap, after, r.slice, name)
      /\ r.slice.len = s.len + 1
      /\ r.slice.array = s.array \/ r.slice.array = Len(heap) + 1
  BY <1>20 DEF AppendsValidly
<1>9. Copies = Range(built) /\ Range(built) \subseteq ItemRecord(kind)
  <2>1. building = <<>> /\ Range(building) = {}
    BY <1>3 DEF Idle, Range
  <2>2. built \in Seq(ItemRecord(kind))
    BY <1>4 DEF BuilderTypes
  <2> QED BY <2>1, <2>2, RangeOfSeq DEF Copies
<1>10. name # "rules" /\ name # "clauses"
  BY ListNames
<1>11. \A x \in Range(built) : LooksTheSame(heap', heap, x)
  <2>1. ASSUME NEW x \in Range(built) PROVE LooksTheSame(heap', heap, x)
    <3>1. x \in ItemRecord(kind) /\ ValidItem(kind, heap, owner, x)
      BY <1>1, <1>9 DEF OwnedBy
    <3>2. ReachesNoFurther(x.lists[name], s)
      BY <1>4, <1>9 DEF CopiesAreBehind, s
    <3> QED BY <1>2, <1>5, <1>7, <1>8, <1>10, <3>1, <3>2, ItemNotAppendedTo
  <2> QED BY <2>1
<1>12. LooksTheSame(heap', heap, item)
  <2>1. ReachesNoFurther(item.lists[name], s)
    BY <1>5 DEF ReachesNoFurther, s, SliceRecord
  <2> QED BY <1>2, <1>5, <1>7, <1>8, <1>10, <2>1, ItemNotAppendedTo
<1>13. /\ PreprocessedSoFar' /\ BuiltReadsTheSame
       /\ \A x \in Range(built) : ValidItem(kind, heap', after, x)
  BY <1>1, <1>2, <1>3, <1>8, <1>11, BuiltStay
<1>14. /\ item' \in ItemRecord(kind) /\ item'.rules = item.rules
       /\ \A other \in Lists(kind) :
            item'.lists[other] = IF other = name THEN r.slice ELSE item.lists[other]
  <2>1. r.slice \in SliceRecord
    BY <1>8 DEF ValidSlice
  <2>2. [item.lists EXCEPT ![name] = r.slice] \in [Lists(kind) -> SliceRecord]
    BY <1>5, <2>1
  <2> QED BY <1>2, <1>5, <2>2 DEF ItemRecord
<1>15. ValidItem(kind, heap', after, item')
  <2>1. ValidItem(kind, heap', after, item)
    BY <1>2, <1>5, <1>7, <1>8, <1>12, ItemStaysValid
  <2>2. \A i \in 1..item.rules.len : ClausesOfRule(heap', item', i) = ClausesOfRule(heap', item, i)
    BY <1>14 DEF ClausesOfRule
  <2> QED BY <1>2, <1>8, <1>14, <2>1, <2>2 DEF ValidItem
<1>16. ValidSlice(heap', after, rule.clauses, "clauses")
  <2>1. ValidSlice(heap, owner, rule.clauses, "clauses")
    BY <1>1 DEF OwnedBy
  <2>2. <<s.array, s.len + 1>> \notin PlacesIn(rule.clauses)
    BY <1>7, <1>10, <2>1, NotAppendedTo
  <2>3. SameSlice(r.heap, heap, rule.clauses)
    BY <1>5, <1>8, <2>1, <2>2, NotInSlice
  <2> QED BY <1>2, <1>8, <2>1, <2>3, SliceStaysValid
<1>17. EveryArrayHasAnOwner'
  <2>1. Copies' = Range(built)
    BY <1>3, <1>9 DEF Copies
  <2>2. OwnedBy(after)'
    BY <1>2, <1>3, <1>8, <1>13, <1>15, <1>16, <2>1 DEF OwnedBy
  <2> QED BY <2>2 DEF EveryArrayHasAnOwner
<1>18. CopiesAreBehind'
  <2>1. Copies' = Range(built)
    BY <1>3, <1>9 DEF Copies
  <2>2. ASSUME NEW x \in Range(built), NEW other \in Lists(kind)
        PROVE  ReachesNoFurther(x.lists[other], item'.lists[other])
    <3>1. ReachesNoFurther(x.lists[other], item.lists[other])
      BY <1>4, <1>9 DEF CopiesAreBehind
    <3>2. CASE other # name
      BY <1>14, <3>1, <3>2
    <3>3. CASE other = name
      <4>1. ValidSlice(heap, owner, x.lists[name], name)
        BY <1>1, <1>9 DEF OwnedBy, ValidItem
      <4>2. Len(heap) \in Nat
        BY <1>8 DEF Grown
      <4>3. ReachesNoFurther(x.lists[name], s)
        BY <3>1, <3>3 DEF s
      <4>4. ReachesNoFurther(x.lists[name], r.slice)
        BY <1>5, <1>8, <4>1, <4>2, <4>3, StillBehind
      <4> QED BY <1>14, <3>3, <4>4
    <3> QED BY <3>2, <3>3
  <2>3. \A x \in Range(built) : ReachesNoFurther(x.rules, item'.rules)
    BY <1>4, <1>9, <1>14 DEF CopiesAreBehind
  <2> QED BY <1>3, <2>1, <2>2, <2>3 DEF CopiesAreBehind
<1>19. BuilderTypes'
  BY <1>2, <1>3, <1>4, <1>8, <1>14 DEF BuilderTypes
<1> QED BY <1>13, <1>17, <1>18, <1>19 DEF BuilderInv

\* The rule that is added brings the clauses of the rule builder with it.
LEMMA AddRuleStep ==
  ASSUME BuilderInv, AddRule
  PROVE  BuilderInv' /\ BuiltReadsTheSame
<1> DEFINE s == item.rules
<1>1. PICK owner : OwnedBy(owner)
  BY DEF BuilderInv, EveryArrayHasAnOwner
<1>2. PICK r \in AppendOutcomes(heap, s, rule) :
        heap' = r.heap /\ item' = [item EXCEPT !.rules = r.slice]
  BY DEF AddRule
<1>3. /\ Idle /\ kind' = kind /\ rule' = rule /\ building' = building /\ todo' = todo
      /\ built' = built
  BY DEF AddRule
<1>4. BuilderTypes /\ CopiesAreBehind
  BY DEF BuilderInv
<1>5. /\ heap \in Seq(Seq(HeapElements)) /\ item \in ItemRecord(kind)
      /\ s \in SliceRecord /\ Zero \in HeapElements
  BY <1>4 DEF BuilderTypes, ItemRecord, HeapElements
<1>6. rule \in RuleRecord /\ rule \in HeapElements /\ rule \in Contents("rules")
  BY <1>4, ContentsOfOthers DEF BuilderTypes, HeapElements
<1>7. /\ owner \in [1..Len(heap) -> Owners(kind)] /\ "rules" \in Owners(kind)
      /\ ValidItem(kind, heap, owner, item) /\ ValidSlice(heap, owner, s, "rules")
      /\ ValidSlice(heap, owner, rule.clauses, "clauses")
  BY <1>1 DEF OwnedBy, Owners, ValidItem
<1> HIDE DEF s
<1>20. PICK after :
         AppendsValidly(HeapElements, kind, heap, owner, "rules", s, rule, r, after)
  BY <1>5, <1>6, <1>7, AppendIsValid
<1>8. /\ r.heap \in Seq(Seq(HeapElements))
      /\ after \in [1..Len(r.heap) -> Owners(kind)]
      /\ Grown(r.heap, heap, after, owner)
      /\ ChangedAt(r.heap, heap, <<s.array, s.len + 1>>)
      /\ ValidSlice(r.heap, after, r.slice, "rules")
      /\ r.slice.len = s.len + 1
      /\ r.slice.array = s.array \/ r.slice.array = Len(heap) + 1
      /\ \A j \in 1..s.len : r.heap[r.slice.array][j] = heap[s.array][j]
      /\ r.heap[r.slice.array][s.len + 1] = rule
  BY <1>20 DEF AppendsValidly
<1>9. Copies = Range(built) /\ Range(built) \subseteq ItemRecord(kind)
  <2>1. building = <<>> /\ Range(building) = {}
    BY <1>3 DEF Idle, Range
  <2>2. built \in Seq(ItemRecord(kind))
    BY <1>4 DEF BuilderTypes
  <2> QED BY <2>1, <2>2, RangeOfSeq DEF Copies
<1>10. "rules" \notin Lists(kind) /\ "rules" # "clauses"
  BY ListNames
<1>11. \A x \in Range(built) : LooksTheSame(heap', heap, x)
  <2>1. ASSUME NEW x \in Range(built) PROVE LooksTheSame(heap', heap, x)
    <3>1. x \in ItemRecord(kind) /\ ValidItem(kind, heap, owner, x)
      BY <1>1, <1>9 DEF OwnedBy
    <3>2. ReachesNoFurther(x.rules, s)
      BY <1>4, <1>9 DEF CopiesAreBehind, s
    <3> QED BY <1>2, <1>5, <1>7, <1>8, <1>10, <3>1, <3>2, ItemNotAppendedTo
  <2> QED BY <2>1
<1>12. LooksTheSame(heap', heap, item)
  <2>1. ReachesNoFurther(item.rules, s)
    BY <1>5 DEF ReachesNoFurther, s, SliceRecord
  <2> QED BY <1>2, <1>5, <1>7, <1>8, <1>10, <2>1, ItemNotAppendedTo
<1>13. /\ PreprocessedSoFar' /\ BuiltReadsTheSame
       /\ \A x \in Range(built) : ValidItem(kind, heap', after, x)
  BY <1>1, <1>2, <1>3, <1>8, <1>11, BuiltStay
<1>14. /\ item' \in ItemRecord(kind) /\ item'.rules = r.slice /\ item'.lists = item.lists
  <2>1. r.slice \in SliceRecord
    BY <1>8 DEF ValidSlice
  <2> QED BY <1>2, <1>5, <2>1 DEF ItemRecord
<1>16. ValidSlice(heap', after, rule.clauses, "clauses")
  <2>2. <<s.array, s.len + 1>> \notin PlacesIn(rule.clauses)
    BY <1>7, <1>10, NotAppendedTo
  <2>3. SameSlice(r.heap, heap, rule.clauses)
    BY <1>5, <1>7, <1>8, <2>2, NotInSlice
  <2> QED BY <1>2, <1>7, <1>8, <2>3, SliceStaysValid
<1>15. ValidItem(kind, heap', after, item')
  <2>1. ValidItem(kind, heap', after, item)
    BY <1>2, <1>5, <1>7, <1>8, <1>12, ItemStaysValid
  <2>2. ASSUME NEW i \in 1..r.slice.len
        PROVE  ValidSlice(heap', after, ClausesOfRule(heap', item', i), "clauses")
    <3>1. CASE i = s.len + 1
      BY <1>2, <1>8, <1>14, <1>16, <3>1 DEF ClausesOfRule
    <3>2. CASE i # s.len + 1
      <4>1. i \in 1..s.len
        BY <1>5, <1>8, <3>2 DEF SliceRecord
      <4>2. heap'[s.array][i] = heap[s.array][i]
        BY <1>12, <4>1 DEF LooksTheSame, SameSlice, s
      <4>3. ClausesOfRule(heap', item', i) = ClausesOfRule(heap', item, i)
        BY <1>2, <1>8, <1>14, <4>1, <4>2 DEF ClausesOfRule, s
      <4> QED BY <2>1, <4>1, <4>3 DEF ValidItem, s
    <3> QED BY <3>1, <3>2
  <2> QED BY <1>2, <1>8, <1>14, <2>1, <2>2 DEF ValidItem
<1>17. EveryArrayHasAnOwner'
  <2>1. Copies' = Range(built)
    BY <1>3, <1>9 DEF Copies
  <2>2. OwnedBy(after)'
    BY <1>2, <1>3, <1>8, <1>13, <1>15, <1>16, <2>1 DEF OwnedBy
  <2> QED BY <2>2 DEF EveryArrayHasAnOwner
<1>18. CopiesAreBehind'
  <2>1. Copies' = Range(built)
    BY <1>3, <1>9 DEF Copies
  <2>2. ASSUME NEW x \in Range(built) PROVE ReachesNoFurther(x.rules, item'.rules)
    <3>1. ValidSlice(heap, owner, x.rules, "rules")
      BY <1>1, <1>9 DEF OwnedBy, ValidItem
    <3>2. Len(heap) \in Nat
      BY <1>8 DEF Grown
    <3>3. ReachesNoFurther(x.rules, s)
      BY <1>4, <1>9 DEF CopiesAreBehind, s
    <3>4. ReachesNoFurther(x.rules, r.slice)
      BY <1>5, <1>8, <3>1, <3>2, <3>3, StillBehind
    <3> QED BY <1>14, <3>4
  <2>3. \A x \in Range(built) : \A name \in Lists(kind) :
          ReachesNoFurther(x.lists[name], item'.lists[name])
    BY <1>4, <1>9, <1>14 DEF CopiesAreBehind
  <2> QED BY <1>3, <2>1, <2>2, <2>3 DEF CopiesAreBehind
<1>19. BuilderTypes'
  BY <1>2, <1>3, <1>4, <1>8, <1>14 DEF BuilderTypes
<1> QED BY <1>13, <1>17, <1>18, <1>19 DEF BuilderInv

------------------------------------------------------------------------------
(***************************************************************************)
(* The steps that set a field.                                             *)
(***************************************************************************)
\* While the arrays stay as they are, and the lists and the rules too.
LEMMA FieldStep ==
  ASSUME BuilderInv, Idle, heap' = heap, kind' = kind, rule' = rule, building' = building,
         todo' = todo, built' = built, item' \in ItemRecord(kind),
         item'.lists = item.lists, item'.rules = item.rules
  PROVE  BuilderInv' /\ BuiltReadsTheSame
<1>1. PICK owner : OwnedBy(owner)
  BY DEF BuilderInv, EveryArrayHasAnOwner
<1>2. BuilderTypes /\ CopiesAreBehind
  BY DEF BuilderInv
<1>3. Grown(heap', heap, owner, owner)
  <2>1. Len(heap) \in Nat
    BY <1>2, LenProperties DEF BuilderTypes
  <2> QED BY <2>1 DEF Grown
<1>4. \A x \in Range(built) : LooksTheSame(heap', heap, x)
  BY DEF LooksTheSame, SameSlice
<1>5. PreprocessedSoFar' /\ BuiltReadsTheSame
  BY <1>1, <1>3, <1>4, BuiltStay
<1>6. Copies' = Copies
  BY DEF Copies
<1>7. ValidItem(kind, heap, owner, item')
  BY <1>1 DEF OwnedBy, ValidItem, ClausesOfRule
<1>8. OwnedBy(owner)'
  BY <1>1, <1>6, <1>7 DEF OwnedBy
<1>9. CopiesAreBehind'
  BY <1>2, <1>6 DEF CopiesAreBehind
<1>10. BuilderTypes'
  BY <1>2 DEF BuilderTypes
<1> QED BY <1>5, <1>8, <1>9, <1>10 DEF BuilderInv, EveryArrayHasAnOwner

\* The keys of a segment are such a field.
LEMMA SetKeysStep ==
  ASSUME BuilderInv, NEW name \in {"included", "excluded"}, NEW keys \in KeyLists,
         SetKeys(name, keys)
  PROVE  BuilderInv' /\ BuiltReadsTheSame
<1>1. item \in ItemRecord(kind)
  BY DEF BuilderInv, BuilderTypes
<1>2. /\ item' \in ItemRecord(kind) /\ item'.lists = item.lists /\ item'.rules = item.rules
  BY <1>1 DEF SetKeys, ItemRecord, OptionalKeys
<1> QED BY <1>2, FieldStep DEF SetKeys

\* So are the fields that are not slices.
LEMMA SetStep ==
  ASSUME BuilderInv, NEW value \in Settings, Set(value)
  PROVE  BuilderInv' /\ BuiltReadsTheSame
<1>1. item \in ItemRecord(kind)
  BY DEF BuilderInv, BuilderTypes
<1>2. /\ item' \in ItemRecord(kind) /\ item'.lists = item.lists /\ item'.rules = item.rules
  BY <1>1 DEF Set, ItemRecord
<1> QED BY <1>2, FieldStep DEF Set

------------------------------------------------------------------------------
(***************************************************************************)
(* The step that makes an array for the clauses of a rule.                 *)
(***************************************************************************)
\* An item is read the same if what changes is in none of its slices.
LEMMA NotInItem ==
  ASSUME NEW S, NEW h \in Seq(Seq(S)), NEW g, NEW place, ChangedAt(g, h, place),
         NEW k, NEW owner, NEW x \in ItemRecord(k), ValidItem(k, h, owner, x),
         \A name \in Lists(k) : place \notin PlacesIn(x.lists[name]),
         place \notin PlacesIn(x.rules),
         \A i \in 1..x.rules.len : place \notin PlacesIn(ClausesOfRule(h, x, i))
  PROVE  LooksTheSame(g, h, x)
<1>1. ASSUME NEW name \in DOMAIN x.lists PROVE SameSlice(g, h, x.lists[name])
  <2>1. name \in Lists(k)
    BY DEF ItemRecord
  <2>2. ValidSlice(h, owner, x.lists[name], name) /\ place \notin PlacesIn(x.lists[name])
    BY <2>1 DEF ValidItem
  <2> QED BY <2>2, NotInSlice
<1>2. SameSlice(g, h, x.rules)
  <2>1. ValidSlice(h, owner, x.rules, "rules")
    BY DEF ValidItem
  <2> QED BY <2>1, NotInSlice
<1>3. ASSUME NEW i \in 1..x.rules.len PROVE SameSlice(g, h, ClausesOfRule(h, x, i))
  <2>1. ValidSlice(h, owner, ClausesOfRule(h, x, i), "clauses")
    BY DEF ValidItem
  <2>2. place \notin PlacesIn(ClausesOfRule(h, x, i))
    OBVIOUS
  <2> QED BY <2>1, <2>2, NotInSlice
<1> QED BY <1>1, <1>2, <1>3 DEF LooksTheSame

\* The clauses come in an array of their own, which no other slice is in.
LEMMA SetClausesStep ==
  ASSUME BuilderInv, NEW clauses \in ClauseLists, SetClauses(clauses)
  PROVE  BuilderInv' /\ BuiltReadsTheSame
<1> DEFINE n == Len(heap) + 1
           nowhere == <<0, 0>>
<1>1. PICK owner : OwnedBy(owner)
  BY DEF BuilderInv, EveryArrayHasAnOwner
<1>2. BuilderTypes /\ CopiesAreBehind
  BY DEF BuilderInv
<1>3. /\ Idle /\ kind' = kind /\ item' = item /\ building' = building /\ todo' = todo
      /\ built' = built /\ heap' = Append(heap, clauses)
      /\ rule' = [rule EXCEPT !.clauses = [array |-> n, len |-> Len(clauses)]]
  BY DEF SetClauses
<1>4. /\ heap \in Seq(Seq(HeapElements)) /\ rule \in RuleRecord /\ Len(heap) \in Nat
      /\ item \in ItemRecord(kind) /\ ValidItem(kind, heap, owner, item)
      /\ owner \in [1..Len(heap) -> Owners(kind)]
  BY <1>1, <1>2, LenProperties DEF BuilderTypes, OwnedBy
<1>5. /\ clauses \in Seq(HeapElements) /\ Len(clauses) \in Nat
      /\ \A i \in 1..Len(clauses) : clauses[i] \in ClauseElements
  <2>1. clauses \in Seq(Clause)
    BY BuildersAssumption
  <2>2. Range(clauses) \subseteq ClauseElements
    BY DEF ClauseElements, WrittenClauses
  <2>3. /\ Len(clauses) \in Nat /\ DOMAIN clauses = 1..Len(clauses)
        /\ clauses = [i \in 1..Len(clauses) |-> clauses[i]]
    BY <2>1, LenProperties
  <2>4. \A i \in 1..Len(clauses) : clauses[i] \in ClauseElements
    BY <2>2, <2>3 DEF Range
  <2>5. \A i \in 1..Len(clauses) : clauses[i] \in HeapElements
    BY <2>4 DEF HeapElements
  <2>6. clauses \in [1..Len(clauses) -> HeapElements]
    BY <2>1, <2>3, <2>5
  <2>7. clauses \in Seq(HeapElements)
    BY <2>3, <2>6, FunctionsAsSequences
  <2> QED BY <2>3, <2>4, <2>7
<1>6. /\ heap' \in Seq(Seq(HeapElements)) /\ Len(heap') = n /\ heap'[n] = clauses
      /\ \A a \in 1..Len(heap) : heap'[a] = heap[a]
  BY <1>3, <1>4, <1>5, AppendProperties
<1>7. n \in 1..n /\ n \notin 1..Len(heap) /\ n # 0 /\ n \in Nat /\ Len(heap) <= n
  BY <1>4
<1>8. PICK after : after = NewOwner(owner, heap, heap', "clauses")
  OBVIOUS
<1> HIDE DEF n
<1>9. /\ after \in [1..Len(heap') -> Owners(kind)] /\ after[n] = "clauses"
      /\ \A a \in 1..Len(heap) : after[a] = owner[a]
  <2>1. 1..Len(heap) \subseteq 1..n
    BY <1>4, <1>7
  <2>2. "clauses" \in Owners(kind)
    BY DEF Owners
  <2>3. after \in [1..n -> Owners(kind)]
    BY <1>4, <1>6, <1>8, <2>2 DEF NewOwner
  <2> QED BY <1>6, <1>7, <1>8, <2>1, <2>3 DEF NewOwner
<1>10. Grown(heap', heap, after, owner)
  BY <1>4, <1>6, <1>7, <1>9 DEF Grown
<1>11. ChangedAt(heap', heap, nowhere)
  BY <1>6 DEF ChangedAt
<1>12. \A t \in SliceRecord : nowhere \notin PlacesIn(t)
  <2>1. \A t \in SliceRecord : 0 \notin 1..t.len
    BY DEF SliceRecord
  <2> QED BY <2>1, PlacesOfSlice
<1> HIDE DEF nowhere
<1>13. ASSUME NEW x \in ItemRecord(kind), ValidItem(kind, heap, owner, x)
       PROVE  LooksTheSame(heap', heap, x)
  <2>1. \A name \in Lists(kind) : x.lists[name] \in SliceRecord
    BY DEF ItemRecord
  <2>2. x.rules \in SliceRecord
    BY DEF ItemRecord
  <2>3. \A i \in 1..x.rules.len : ClausesOfRule(heap, x, i) \in SliceRecord
    BY <1>13 DEF ValidItem, ValidSlice
  <2> QED BY <1>4, <1>11, <1>12, <1>13, <2>1, <2>2, <2>3, NotInItem
<1>14. Copies = Range(built) /\ Range(built) \subseteq ItemRecord(kind)
  <2>1. building = <<>> /\ Range(building) = {}
    BY <1>3 DEF Idle, Range
  <2>2. built \in Seq(ItemRecord(kind))
    BY <1>2 DEF BuilderTypes
  <2> QED BY <2>1, <2>2, RangeOfSeq DEF Copies
<1>15. \A x \in Range(built) : LooksTheSame(heap', heap, x)
  BY <1>1, <1>13, <1>14 DEF OwnedBy
<1>16. /\ PreprocessedSoFar' /\ BuiltReadsTheSame
       /\ \A x \in Range(built) : ValidItem(kind, heap', after, x)
  BY <1>1, <1>3, <1>10, <1>15, BuiltStay
<1>17. ValidItem(kind, heap', after, item)
  BY <1>4, <1>10, <1>13, ItemStaysValid
<1>18. rule' \in RuleRecord /\ rule'.clauses = [array |-> n, len |-> Len(clauses)]
  <2>1. [array |-> n, len |-> Len(clauses)] \in SliceRecord
    BY <1>5, <1>7 DEF SliceRecord
  <2> QED BY <1>3, <1>4, <2>1 DEF RuleRecord
<1>19. ValidSlice(heap', after, rule'.clauses, "clauses")
  <2>1. [array |-> n, len |-> Len(clauses)] \in SliceRecord
    BY <1>5, <1>7 DEF SliceRecord
  <2>2. FitsIts(heap', rule'.clauses)
    BY <1>5, <1>6, <1>7, <1>18 DEF FitsIts
  <2>3. \A i \in 1..Len(clauses) : heap'[n][i] \in Contents("clauses")
    BY <1>5, <1>6, ContentsOfOthers
  <2> QED BY <1>9, <1>18, <2>1, <2>2, <2>3 DEF ValidSlice
<1>20. Copies' = Copies
  BY <1>3 DEF Copies
<1>21. OwnedBy(after)'
  BY <1>3, <1>9, <1>14, <1>16, <1>17, <1>19, <1>20 DEF OwnedBy
<1>22. CopiesAreBehind'
  BY <1>2, <1>3, <1>20 DEF CopiesAreBehind
<1>23. BuilderTypes'
  BY <1>2, <1>3, <1>6, <1>18 DEF BuilderTypes
<1> QED BY <1>16, <1>21, <1>22, <1>23 DEF BuilderInv, EveryArrayHasAnOwner

------------------------------------------------------------------------------
(***************************************************************************)
(* Build.                                                                  *)
(***************************************************************************)
\* The places of slices, one slice after the other, are those in any of them.
LEMMA FlattenedPlaces ==
  ASSUME NEW N \in Nat, NEW slices, \A n \in 1..N : slices[n] \in SliceRecord,
         NEW places, places = FlattenSeq([n \in 1..N |-> Places(slices[n])])
  PROVE  /\ places \in Seq(Nat \X Nat)
         /\ Range(places) = UNION {PlacesIn(slices[n]) : n \in 1..N}
<1> DEFINE ss == [n \in 1..N |-> Places(slices[n])]
           T == Nat \X Nat
<1>1. ASSUME NEW s \in SliceRecord
      PROVE  Places(s) \in Seq(T) /\ Range(Places(s)) = PlacesIn(s)
  <2>1. s.len \in Nat /\ s.array \in Nat
    BY DEF SliceRecord
  <2>2. [i \in 1..s.len |-> <<s.array, i>>] \in [1..s.len -> T]
    BY <2>1
  <2>3. [i \in 1..s.len |-> <<s.array, i>>] \in Seq(T)
    <3> HIDE DEF T
    <3> QED BY <2>1, <2>2, FunctionsAsSequences
  <2> QED BY <2>3 DEF Places, PlacesIn, Range
<1>2. ss \in [1..N -> Seq(T)] /\ \A n \in 1..N : ss[n] = Places(slices[n])
  BY <1>1
<1> HIDE DEF ss, T
<1>3. ss \in Seq(Seq(T)) /\ Len(ss) = N
  BY <1>2, FunctionsAsSequences
<1>4. places \in Seq(T) /\ Range(places) = ElementsOf(ss, N)
  BY <1>3, FlattenedRange DEF ss
<1>5. ElementsOf(ss, N) = UNION {PlacesIn(slices[n]) : n \in 1..N}
  BY <1>1, <1>2 DEF ElementsOf
<1> QED BY <1>4, <1>5 DEF T

\* What Build sets out to preprocess is every place of the item.
LEMMA PlacesToPreprocessAreAll ==
  ASSUME NEW k \in {"flag", "segment"}, NEW x \in ItemRecord(k), NEW h, NEW owner,
         ValidItem(k, h, owner, x)
  PROVE  /\ PlacesToPreprocess(k, h, x) \in Seq(Nat \X Nat)
         /\ Range(PlacesToPreprocess(k, h, x)) = PlacesOf(k, h, x)
<1> DEFINE names == PreprocessedLists(k)
           lists == [n \in DOMAIN names |-> x.lists[names[n]]]
           clauses == [n \in 1..x.rules.len |-> ClausesOfRule(h, x, n)]
<1>1. /\ Len(names) \in Nat /\ DOMAIN names = 1..Len(names)
      /\ Range(names) = Lists(k) \ {"contextTargets"}
  <2>1. CASE k = "flag"
    <3>1. names = <<"targets">> /\ Lists(k) = Range(names) \cup {"contextTargets"}
      BY <2>1 DEF PreprocessedLists, Lists
    <3>2. Range(names) = {"targets"}
      BY <3>1 DEF Range
    <3>3. DOMAIN names = 1..1 /\ Len(names) = 1
      BY <3>1
    <3> QED BY <3>1, <3>2, <3>3
  <2>2. CASE k = "segment"
    <3>1. names = <<"includedContexts", "excludedContexts">> /\ Lists(k) = Range(names) \cup {}
      BY <2>2 DEF PreprocessedLists, Lists
    <3>2. Range(names) = {"includedContexts", "excludedContexts"}
      BY <3>1 DEF Range
    <3>3. DOMAIN names = 1..2 /\ Len(names) = 2
      BY <3>1
    <3> QED BY <3>1, <3>2, <3>3
  <2> QED BY <2>1, <2>2
<1> HIDE DEF names
<1>2. \A n \in 1..Len(names) : names[n] \in Lists(k) /\ lists[n] = x.lists[names[n]]
  BY <1>1 DEF Range
<1>3. x.lists \in [Lists(k) -> SliceRecord] /\ x.rules \in SliceRecord /\ x.rules.len \in Nat
  BY DEF ItemRecord, SliceRecord
<1>4. \A n \in 1..Len(names) : lists[n] \in SliceRecord
  BY <1>2, <1>3
<1>5. \A n \in 1..x.rules.len :
        /\ clauses[n] = ClausesOfRule(h, x, n) /\ clauses[n] \in SliceRecord
  BY DEF ValidItem, ValidSlice
<1>6. TargetPlaces(k, x) = FlattenSeq([n \in 1..Len(names) |-> Places(lists[n])])
  BY <1>1 DEF TargetPlaces, names
<1>7. ClausePlaces(h, x) = FlattenSeq([n \in 1..x.rules.len |-> Places(clauses[n])])
  <2>1. \A n \in 1..x.rules.len : At(h, <<x.rules.array, n>>).clauses = clauses[n]
    BY <1>5, ElementAt DEF ClausesOfRule
  <2> HIDE DEF clauses
  <2> QED BY <2>1 DEF ClausePlaces
<1> HIDE DEF lists, clauses
<1>8. /\ TargetPlaces(k, x) \in Seq(Nat \X Nat)
      /\ Range(TargetPlaces(k, x)) = UNION {PlacesIn(lists[n]) : n \in 1..Len(names)}
  BY <1>1, <1>4, <1>6, FlattenedPlaces
<1>9. /\ ClausePlaces(h, x) \in Seq(Nat \X Nat)
      /\ Range(ClausePlaces(h, x)) = UNION {PlacesIn(clauses[n]) : n \in 1..x.rules.len}
  BY <1>3, <1>5, <1>7, FlattenedPlaces
<1>10. UNION {PlacesIn(lists[n]) : n \in 1..Len(names)} =
       UNION {PlacesIn(x.lists[name]) : name \in Lists(k) \ {"contextTargets"}}
  BY <1>1, <1>2 DEF Range
<1>11. UNION {PlacesIn(clauses[n]) : n \in 1..x.rules.len} =
       UNION {PlacesIn(ClausesOfRule(h, x, i)) : i \in 1..x.rules.len}
  BY <1>5
<1>12. /\ TargetPlaces(k, x) \o ClausePlaces(h, x) \in Seq(Nat \X Nat)
       /\ Range(TargetPlaces(k, x) \o ClausePlaces(h, x)) =
            Range(TargetPlaces(k, x)) \cup Range(ClausePlaces(h, x))
  BY <1>8, <1>9, ConcatProperties, RangeConcatenation
<1> QED BY <1>8, <1>9, <1>10, <1>11, <1>12 DEF PlacesToPreprocess, PlacesOf

\* Preprocessing the struct again changes nothing, and leaves the lists and the rules alone.
LEMMA PreprocessedStruct ==
  ASSUME NEW k, NEW x \in ItemRecord(k)
  PROVE  /\ PreprocessStruct(x) \in ItemRecord(k)
         /\ PreprocessStruct(x).lists = x.lists /\ PreprocessStruct(x).rules = x.rules
         /\ PreprocessStruct(PreprocessStruct(x)) = PreprocessStruct(x)
         /\ PreprocessStruct(x) = x =>
              /\ x.preprocessed.included = PreprocessStringSet(x.included)
              /\ x.preprocessed.excluded = PreprocessStringSet(x.excluded)
<1> DEFINE p == [included |-> PreprocessStringSet(x.included),
                 excluded |-> PreprocessStringSet(x.excluded)]
           y == PreprocessStruct(x)
<1>1. p \in [included : KeySets, excluded : KeySets]
  BY DEF ItemRecord, KeySets
<1>2. y = [x EXCEPT !.preprocessed = p]
  BY DEF PreprocessStruct
<1>3. /\ y \in ItemRecord(k) /\ y.lists = x.lists /\ y.rules = x.rules
      /\ y.included = x.included /\ y.excluded = x.excluded /\ y.preprocessed = p
  <2> HIDE DEF p, y
  <2> QED BY <1>1, <1>2 DEF ItemRecord
<1>4. PreprocessStruct(y) = [y EXCEPT !.preprocessed = p]
  <2> HIDE DEF y
  <2> QED BY <1>3 DEF PreprocessStruct
<1>5. [y EXCEPT !.preprocessed = p] = y
  <2> HIDE DEF p, y
  <2> QED BY <1>3 DEF ItemRecord
<1>6. p.included = PreprocessStringSet(x.included) /\ p.excluded = PreprocessStringSet(x.excluded)
  OBVIOUS
<1> HIDE DEF p
<1>7. y = x => x.preprocessed = p
  BY <1>3
<1> QED BY <1>3, <1>4, <1>5, <1>6, <1>7, Zenon

\* The copy shares its arrays with the builder, and has all its places still to do.
LEMMA BuildStep ==
  ASSUME BuilderInv, Build
  PROVE  BuilderInv' /\ BuiltReadsTheSame
<1> DEFINE x == PreprocessStruct(item)
<1>1. PICK owner : OwnedBy(owner)
  BY DEF BuilderInv, EveryArrayHasAnOwner
<1>2. BuilderTypes /\ CopiesAreBehind /\ PreprocessedSoFar
  BY DEF BuilderInv
<1>3. /\ Idle /\ kind' = kind /\ heap' = heap /\ item' = item /\ rule' = rule
      /\ built' = built /\ building' = <<x>>
      /\ todo' = PlacesToPreprocess(kind, heap, item)
  BY DEF Build
<1>4. /\ item \in ItemRecord(kind) /\ kind \in {"flag", "segment"}
      /\ ValidItem(kind, heap, owner, item)
  BY <1>1, <1>2 DEF BuilderTypes, OwnedBy
<1>5. /\ x \in ItemRecord(kind) /\ x.lists = item.lists /\ x.rules = item.rules
      /\ PreprocessStruct(x) = x
  BY <1>4, PreprocessedStruct
<1> HIDE DEF x
<1>6. ValidItem(kind, heap, owner, x) /\ PlacesOf(kind, heap, x) = PlacesOf(kind, heap, item)
  BY <1>4, <1>5 DEF ValidItem, PlacesOf, ClausesOfRule
<1>7. todo' \in Seq(Nat \X Nat) /\ Range(todo') = PlacesOf(kind, heap, x)
  BY <1>3, <1>4, <1>6, PlacesToPreprocessAreAll
<1>8. Range(building) = {} /\ Range(building') = {x}
  BY <1>3 DEF Idle, Range
<1>9. Copies = Range(built) /\ Copies' = {x} \cup Range(built)
  BY <1>3, <1>8 DEF Copies
<1>10. OwnedBy(owner)'
  BY <1>1, <1>3, <1>6, <1>9 DEF OwnedBy
<1>11. CopiesAreBehind'
  <2>1. /\ \A name \in Lists(kind) : ReachesNoFurther(x.lists[name], item.lists[name])
        /\ ReachesNoFurther(x.rules, item.rules)
    <3>1. \A s \in SliceRecord : ReachesNoFurther(s, s)
      BY DEF ReachesNoFurther, SliceRecord
    <3> QED BY <1>4, <1>5, <3>1 DEF ItemRecord
  <2> QED BY <1>2, <1>3, <1>9, <2>1 DEF CopiesAreBehind
<1>12. PreprocessedSoFar'
  <2>1. ~Idle'
    BY <1>3 DEF Idle
  <2>2. \A y \in Copies' : PreprocessStruct(y) = y
    BY <1>2, <1>5, <1>9 DEF PreprocessedSoFar
  <2>3. \A y \in Range(built') : \A p \in PlacesOf(kind', heap', y) : IsPreprocessed(At(heap', p))
    BY <1>2, <1>3 DEF PreprocessedSoFar
  <2>4. \A y \in Range(building') :
          /\ Range(todo') \subseteq PlacesOf(kind', heap', y)
          /\ \A p \in PlacesOf(kind', heap', y) : p \in Range(todo') \/ IsPreprocessed(At(heap', p))
    BY <1>3, <1>7, <1>8
  <2> QED BY <2>1, <2>2, <2>3, <2>4 DEF PreprocessedSoFar
<1>13. BuilderTypes'
  BY <1>2, <1>3, <1>5, <1>7 DEF BuilderTypes
<1>14. BuiltReadsTheSame
  BY <1>3 DEF BuiltReadsTheSame
<1> QED BY <1>10, <1>11, <1>12, <1>13, <1>14 DEF BuilderInv, EveryArrayHasAnOwner

\* With nothing left to do, what was being built is preprocessed.
LEMMA BuildReturnsStep ==
  ASSUME BuilderInv, BuildReturns
  PROVE  BuilderInv' /\ BuiltReadsTheSame
<1>1. PICK owner : OwnedBy(owner)
  BY DEF BuilderInv, EveryArrayHasAnOwner
<1>2. BuilderTypes /\ CopiesAreBehind /\ PreprocessedSoFar
  BY DEF BuilderInv
<1>3. /\ ~Idle /\ todo = <<>> /\ kind' = kind /\ heap' = heap /\ item' = item /\ rule' = rule
      /\ todo' = todo /\ building' = <<>> /\ built' = Append(built, building[1])
  BY DEF BuildReturns
<1>4. PICK x \in ItemRecord(kind) : building = <<x>>
  BY <1>2, <1>3 DEF BuilderTypes, Idle
<1>5. built \in Seq(ItemRecord(kind)) /\ built' = Append(built, x)
  BY <1>2, <1>3, <1>4 DEF BuilderTypes
<1>6. /\ built' \in Seq(ItemRecord(kind)) /\ DOMAIN built \subseteq DOMAIN built'
      /\ \A i \in DOMAIN built : built'[i] = built[i]
      /\ Range(built') = Range(built) \cup {x}
  <2>1. /\ built' \in Seq(ItemRecord(kind)) /\ Len(built') = Len(built) + 1
        /\ \A i \in 1..Len(built) : built'[i] = built[i]
        /\ built'[Len(built) + 1] = x
    BY <1>5, AppendProperties
  <2>2. /\ DOMAIN built = 1..Len(built) /\ DOMAIN built' = 1..Len(built') /\ Len(built) \in Nat
    BY <1>5, <2>1, LenProperties
  <2>3. DOMAIN built' = DOMAIN built \cup {Len(built) + 1}
    BY <2>1, <2>2
  <2>4. Range(built') = Range(built) \cup {x}
    BY <2>1, <2>2, <2>3 DEF Range
  <2> QED BY <2>1, <2>2, <2>3, <2>4
<1>7. Range(building) = {x} /\ Range(building') = {}
  BY <1>3, <1>4 DEF Range
<1>8. Copies' = Copies
  BY <1>6, <1>7 DEF Copies
<1>9. Range(todo) = {}
  BY <1>3 DEF Range
<1>10. OwnedBy(owner)'
  BY <1>1, <1>3, <1>8 DEF OwnedBy
<1>11. CopiesAreBehind'
  BY <1>2, <1>3, <1>8 DEF CopiesAreBehind
<1>12. PreprocessedSoFar'
  <2>1. \A y \in Copies' : PreprocessStruct(y) = y
    BY <1>2, <1>8 DEF PreprocessedSoFar
  <2>2. \A p \in PlacesOf(kind, heap, x) : IsPreprocessed(At(heap, p))
    BY <1>2, <1>7, <1>9 DEF PreprocessedSoFar
  <2>3. \A y \in Range(built') : \A p \in PlacesOf(kind', heap', y) : IsPreprocessed(At(heap', p))
    BY <1>2, <1>3, <1>6, <2>2 DEF PreprocessedSoFar
  <2> QED BY <1>3, <1>7, <2>1, <2>3 DEF PreprocessedSoFar
<1>13. BuilderTypes'
  BY <1>2, <1>3, <1>6 DEF BuilderTypes
<1>14. BuiltReadsTheSame
  BY <1>3, <1>6 DEF BuiltReadsTheSame
<1> QED BY <1>10, <1>11, <1>12, <1>13, <1>14 DEF BuilderInv, EveryArrayHasAnOwner

------------------------------------------------------------------------------
(***************************************************************************)
(* Preprocessing an element.                                               *)
(***************************************************************************)
\* The owners of what preprocessing writes.
Written(k) == (Lists(k) \ {"contextTargets"}) \cup {"clauses"}

\* A place that preprocessing writes is in an array, which belongs to such an owner.
LEMMA PlacesAreInside ==
  ASSUME NEW S, NEW h \in Seq(Seq(S)), NEW k, NEW owner, NEW x \in ItemRecord(k),
         ValidItem(k, h, owner, x), NEW p \in PlacesOf(k, h, x)
  PROVE  \E a \in 1..Len(h) : \E j \in 1..Len(h[a]) :
           p = <<a, j>> /\ owner[a] \in Written(k) /\ h[a][j] \in Contents(owner[a])
<1>1. ASSUME NEW s, NEW o \in Written(k), ValidSlice(h, owner, s, o), p \in PlacesIn(s)
      PROVE  \E a \in 1..Len(h) : \E j \in 1..Len(h[a]) :
               p = <<a, j>> /\ owner[a] \in Written(k) /\ h[a][j] \in Contents(owner[a])
  <2>1. PICK j \in 1..s.len : p = <<s.array, j>>
    BY <1>1 DEF PlacesIn
  <2>2. s \in SliceRecord /\ s.len \in Nat /\ s.len # 0
    BY <1>1, <2>1 DEF ValidSlice, SliceRecord
  <2>3. /\ s.array \in 1..Len(h) /\ s.len <= Len(h[s.array]) /\ owner[s.array] = o
        /\ h[s.array][j] \in Contents(o)
    BY <1>1, <2>1, <2>2 DEF ValidSlice, FitsIts
  <2>4. Len(h[s.array]) \in Nat
    BY <2>3, ElementOfSeq, LenProperties
  <2>5. j \in 1..Len(h[s.array])
    BY <2>2, <2>3, <2>4
  <2> QED BY <2>1, <2>3, <2>5
<1>2. CASE \E name \in Lists(k) \ {"contextTargets"} : p \in PlacesIn(x.lists[name])
  <2>1. PICK name \in Lists(k) \ {"contextTargets"} : p \in PlacesIn(x.lists[name])
    BY <1>2
  <2>2. ValidSlice(h, owner, x.lists[name], name) /\ name \in Written(k)
    BY DEF ValidItem, Written
  <2> QED BY <1>1, <2>1, <2>2
<1>3. CASE \E i \in 1..x.rules.len : p \in PlacesIn(ClausesOfRule(h, x, i))
  <2>1. PICK i \in 1..x.rules.len : p \in PlacesIn(ClausesOfRule(h, x, i))
    BY <1>3
  <2>2. ValidSlice(h, owner, ClausesOfRule(h, x, i), "clauses") /\ "clauses" \in Written(k)
    BY DEF ValidItem, Written
  <2> QED BY <1>1, <2>1, <2>2
<1> QED BY <1>2, <1>3 DEF PlacesOf

\* What preprocessing writes is of the kind that was there, and is preprocessed.
LEMMA WrittenElements ==
  ASSUME NEW k, NEW o \in Written(k), NEW e \in Contents(o)
  PROVE  /\ PreprocessElement(e) \in Contents(o) /\ PreprocessElement(e) \in HeapElements
         /\ IsPreprocessed(PreprocessElement(e))
<1>1. CASE o = "clauses"
  BY <1>1, ContentsOfOthers, ClausesAreElements DEF HeapElements
<1>2. CASE o # "clauses"
  <2>1. Contents(o) = TargetRecord
    BY <1>2, ContentsOfLists DEF Written
  <2> QED BY <2>1, TargetElements DEF HeapElements
<1> QED BY <1>1, <1>2

\* One element of an array is written, with one of the kind of the array's owner.
WritesAt(g, h, owner, a, j) ==
  /\ Grown(g, h, owner, owner)
  /\ ChangedAt(g, h, <<a, j>>)
  /\ g[a][j] \in Contents(owner[a])
  /\ owner[a] # "rules"

\* Writing an element where its kind belongs leaves slices valid.
LEMMA SliceStaysValidWritten ==
  ASSUME NEW S, NEW h \in Seq(Seq(S)), NEW g, NEW owner, NEW a, NEW j,
         WritesAt(g, h, owner, a, j), NEW s, NEW o, ValidSlice(h, owner, s, o)
  PROVE  ValidSlice(g, owner, s, o)
<1>4. /\ Grown(g, h, owner, owner) /\ ChangedAt(g, h, <<a, j>>)
      /\ g[a][j] \in Contents(owner[a])
  BY DEF WritesAt
<1>1. s \in SliceRecord /\ (s.len # 0 => s.array # 0) /\ s.len \in Nat
  BY DEF ValidSlice, FitsIts, SliceRecord
<1>2. ASSUME s.array # 0
      PROVE  /\ s.array \in 1..Len(h) /\ s.array \in 1..Len(g) /\ s.len <= Len(g[s.array])
             /\ s.len <= Len(h[s.array]) /\ owner[s.array] = o
  <2>1. s.array \in 1..Len(h) /\ s.len <= Len(h[s.array]) /\ owner[s.array] = o
    BY <1>2 DEF ValidSlice, FitsIts
  <2>2. s.array \in 1..Len(g)
    BY <1>4, <2>1 DEF Grown
  <2> QED BY <1>4, <2>1, <2>2 DEF Grown
<1>3. ASSUME NEW i \in 1..s.len PROVE g[s.array][i] \in Contents(o)
  <2>1. s.array # 0
    BY <1>1
  <2>2. CASE <<s.array, i>> = <<a, j>>
    BY <1>2, <1>4, <2>1, <2>2
  <2>3. CASE <<s.array, i>> # <<a, j>>
    <3>1. Len(h[s.array]) \in Nat
      BY <1>2, <2>1, ElementOfSeq, LenProperties
    <3>2. i \in 1..Len(h[s.array])
      BY <1>1, <1>2, <2>1, <3>1
    <3>3. g[s.array][i] = h[s.array][i]
      BY <1>2, <1>4, <2>1, <2>3, <3>2 DEF ChangedAt
    <3> QED BY <3>3 DEF ValidSlice
  <2> QED BY <2>2, <2>3
<1> QED BY <1>1, <1>2, <1>3, Zenon DEF ValidSlice, FitsIts

\* So does it leave items, with the places that they had.
LEMMA ItemStaysValidWritten ==
  ASSUME NEW S, NEW h \in Seq(Seq(S)), NEW g, NEW owner, NEW a, NEW j,
         WritesAt(g, h, owner, a, j),
         NEW k, NEW x \in ItemRecord(k), ValidItem(k, h, owner, x)
  PROVE  ValidItem(k, g, owner, x) /\ PlacesOf(k, g, x) = PlacesOf(k, h, x)
<1>1. ValidSlice(h, owner, x.rules, "rules")
  BY DEF ValidItem
<1>2. SameSlice(g, h, x.rules)
  <2> DEFINE place == <<a, j>>
  <2>1. ChangedAt(g, h, place) /\ owner[a] # "rules"
    BY DEF WritesAt
  <2>2. place \notin PlacesIn(x.rules)
    BY <1>1, <2>1, NotOfOtherOwner
  <2> HIDE DEF place
  <2> QED BY <1>1, <2>1, <2>2, NotInSlice
<1>3. \A i \in 1..x.rules.len : ClausesOfRule(g, x, i) = ClausesOfRule(h, x, i)
  BY <1>2 DEF SameSlice, ClausesOfRule
<1>4. PlacesOf(k, g, x) = PlacesOf(k, h, x)
  BY <1>3 DEF PlacesOf
<1>5. \A name \in Lists(k) : ValidSlice(g, owner, x.lists[name], name)
  BY SliceStaysValidWritten DEF ValidItem
<1>6. ValidSlice(g, owner, x.rules, "rules")
  BY <1>1, SliceStaysValidWritten
<1>7. ASSUME NEW i \in 1..x.rules.len PROVE ValidSlice(g, owner, ClausesOfRule(g, x, i), "clauses")
  <2>1. ValidSlice(h, owner, ClausesOfRule(h, x, i), "clauses")
    BY DEF ValidItem
  <2>2. ValidSlice(g, owner, ClausesOfRule(h, x, i), "clauses")
    BY <2>1, SliceStaysValidWritten
  <2> QED BY <1>3, <2>2
<1> QED BY <1>4, <1>5, <1>6, <1>7 DEF ValidItem

\* What is written is in no item that is preprocessed throughout, unless it was there before.
LEMMA PreprocessedItemsStay ==
  ASSUME NEW S, NEW h \in Seq(Seq(S)), NEW g, NEW owner, NEW a \in 1..Len(h), NEW j,
         g[a][j] = PreprocessElement(h[a][j]), ChangedAt(g, h, <<a, j>>),
         NEW k, owner[a] \in Written(k), NEW x \in ItemRecord(k), ValidItem(k, h, owner, x),
         \A p \in PlacesOf(k, h, x) : IsPreprocessed(At(h, p))
  PROVE  LooksTheSame(g, h, x)
<1>1. CASE IsPreprocessed(h[a][j])
  <2>1. g[a][j] = h[a][j]
    BY <1>1 DEF IsPreprocessed
  <2>2. ASSUME NEW b \in 1..Len(h), NEW i \in 1..Len(h[b]) PROVE g[b][i] = h[b][i]
    <3>1. CASE <<b, i>> = <<a, j>>
      BY <2>1, <3>1
    <3>2. CASE <<b, i>> # <<a, j>>
      BY <3>2 DEF ChangedAt
    <3> QED BY <3>1, <3>2
  <2>3. ChangedAt(g, h, <<0, 0>>)
    BY <2>2 DEF ChangedAt
  <2>4. \A t \in SliceRecord : <<0, 0>> \notin PlacesIn(t)
    <3>1. \A t \in SliceRecord : 0 \notin 1..t.len
      BY DEF SliceRecord
    <3> QED BY <3>1, PlacesOfSlice
  <2>5. /\ \A name \in Lists(k) : x.lists[name] \in SliceRecord
        /\ x.rules \in SliceRecord
        /\ \A i \in 1..x.rules.len : ClausesOfRule(h, x, i) \in SliceRecord
    BY DEF ItemRecord, ValidItem, ValidSlice
  <2> DEFINE nowhere == <<0, 0>>
  <2>6. /\ ChangedAt(g, h, nowhere)
        /\ \A name \in Lists(k) : nowhere \notin PlacesIn(x.lists[name])
        /\ nowhere \notin PlacesIn(x.rules)
        /\ \A i \in 1..x.rules.len : nowhere \notin PlacesIn(ClausesOfRule(h, x, i))
    BY <2>3, <2>4, <2>5
  <2> HIDE DEF nowhere
  <2> QED BY <2>6, NotInItem
<1>2. CASE ~IsPreprocessed(h[a][j])
  <2> DEFINE place == <<a, j>>
  <2>1. place \notin PlacesOf(k, h, x)
    BY <1>2, ElementAt
  <2>2. owner[a] # "rules" /\ owner[a] # "contextTargets"
    BY ListNames DEF Written
  <2>3. place \notin PlacesIn(x.rules)
    BY <2>2, NotOfOtherOwner DEF ValidItem
  <2>4. ASSUME NEW name \in Lists(k) PROVE place \notin PlacesIn(x.lists[name])
    <3>1. CASE name = "contextTargets"
      <4>1. ValidSlice(h, owner, x.lists[name], name) /\ owner[a] # name
        BY <2>2, <3>1 DEF ValidItem
      <4> QED BY <4>1, NotOfOtherOwner
    <3>2. CASE name # "contextTargets"
      <4> HIDE DEF place
      <4> QED BY <2>1, <3>2 DEF PlacesOf
    <3> QED BY <3>1, <3>2
  <2>5. ChangedAt(g, h, place)
    OBVIOUS
  <2> HIDE DEF place
  <2>6. \A i \in 1..x.rules.len : place \notin PlacesIn(ClausesOfRule(h, x, i))
    BY <2>1 DEF PlacesOf
  <2> QED BY <2>3, <2>4, <2>5, <2>6, NotInItem
<1> QED BY <1>1, <1>2

\* What is in a sequence is its head or in its tail.
LEMMA HeadAndTail ==
  ASSUME NEW T, NEW t \in Seq(T), t # <<>>
  PROVE  Tail(t) \in Seq(T) /\ Range(t) = {Head(t)} \cup Range(Tail(t))
<1> DEFINE u == Tail(t)
           n == Len(t)
<1>1. /\ u \in Seq(T) /\ n \in Nat /\ n # 0 /\ Len(u) = n - 1
      /\ \A i \in 1..Len(u) : u[i] = t[i + 1]
      /\ Head(t) = t[1]
      /\ DOMAIN t = 1..n /\ DOMAIN u = 1..Len(u)
  BY HeadTailProperties, LenProperties, EmptySeq
<1> HIDE DEF u, n
<1>2. /\ \A i \in 1..n : i = 1 \/ (i - 1 \in 1..Len(u) /\ (i - 1) + 1 = i)
      /\ \A i \in 1..Len(u) : i + 1 \in 1..n
      /\ 1 \in 1..n
  BY <1>1
<1>3. ASSUME NEW e \in Range(t) PROVE e = Head(t) \/ e \in Range(u)
  <2>1. PICK i \in 1..n : e = t[i]
    BY <1>1 DEF Range
  <2>2. CASE i = 1
    BY <1>1, <2>1, <2>2
  <2>3. CASE i # 1
    <3>1. i - 1 \in 1..Len(u) /\ (i - 1) + 1 = i
      BY <1>2, <2>3
    <3>2. u[i - 1] = e
      BY <1>1, <2>1, <3>1
    <3> QED BY <1>1, <3>1, <3>2 DEF Range
  <2> QED BY <2>2, <2>3
<1>4. ASSUME NEW e, e = Head(t) \/ e \in Range(u) PROVE e \in Range(t)
  <2>1. CASE e = Head(t)
    BY <1>1, <1>2, <2>1 DEF Range
  <2>2. CASE e \in Range(u)
    <3>1. PICK i \in 1..Len(u) : e = u[i]
      BY <1>1, <2>2 DEF Range
    <3>2. e = t[i + 1] /\ i + 1 \in 1..n
      BY <1>1, <1>2, <3>1
    <3> QED BY <1>1, <3>2 DEF Range
  <2> QED BY <1>4, <2>1, <2>2
<1> QED BY <1>1, <1>3, <1>4 DEF u

\* Writing an element completes one place, and changes nothing that was built.
LEMMA PreprocessStep ==
  ASSUME BuilderInv, Preprocess
  PROVE  BuilderInv' /\ BuiltReadsTheSame
<1>1. PICK owner : OwnedBy(owner)
  BY DEF BuilderInv, EveryArrayHasAnOwner
<1>2. BuilderTypes /\ CopiesAreBehind /\ PreprocessedSoFar
  BY DEF BuilderInv
<1>3. /\ todo # <<>> /\ kind' = kind /\ item' = item /\ rule' = rule /\ built' = built
      /\ building' = building /\ todo' = Tail(todo)
  BY DEF Preprocess
<1>4. PICK x \in ItemRecord(kind) : building = <<x>>
  BY <1>2, <1>3 DEF BuilderTypes, PreprocessedSoFar, Idle
<1>5. /\ todo \in Seq(Nat \X Nat) /\ todo' \in Seq(Nat \X Nat)
      /\ Range(todo) = {Head(todo)} \cup Range(todo')
  <2>1. todo \in Seq(Nat \X Nat)
    BY <1>2 DEF BuilderTypes
  <2> QED BY <1>3, <2>1, HeadAndTail
<1>6. /\ heap \in Seq(Seq(HeapElements)) /\ Len(heap) \in Nat
      /\ owner \in [1..Len(heap) -> Owners(kind)]
      /\ Range(building) = {x} /\ x \in Copies /\ ValidItem(kind, heap, owner, x)
  <2>1. Range(building) = {x}
    BY <1>4 DEF Range
  <2>2. x \in Copies
    BY <2>1 DEF Copies
  <2> QED BY <1>1, <1>2, <2>1, <2>2, LenProperties DEF BuilderTypes, OwnedBy
<1>7. /\ Range(todo) \subseteq PlacesOf(kind, heap, x)
      /\ \A p \in PlacesOf(kind, heap, x) : p \in Range(todo) \/ IsPreprocessed(At(heap, p))
  BY <1>2, <1>6 DEF PreprocessedSoFar
<1>8. PICK a \in 1..Len(heap) : \E j \in 1..Len(heap[a]) :
        /\ Head(todo) = <<a, j>> /\ owner[a] \in Written(kind)
        /\ heap[a][j] \in Contents(owner[a])
  <2>1. Head(todo) \in PlacesOf(kind, heap, x)
    BY <1>5, <1>7
  <2> QED BY <1>6, <2>1, PlacesAreInside
<1>9. PICK j \in 1..Len(heap[a]) :
        /\ Head(todo) = <<a, j>> /\ owner[a] \in Written(kind)
        /\ heap[a][j] \in Contents(owner[a])
  BY <1>8
<1> DEFINE d == PreprocessElement(heap[a][j])
<1>10. d \in Contents(owner[a]) /\ d \in HeapElements /\ IsPreprocessed(d)
  BY <1>9, WrittenElements
<1>11. heap' = [heap EXCEPT ![a] = [heap[a] EXCEPT ![j] = d]]
  <2>1. Head(todo)[1] = a /\ Head(todo)[2] = j
    BY <1>9
  <2>2. heap' = [heap EXCEPT ![Head(todo)[1]] =
                   [heap[Head(todo)[1]] EXCEPT ![Head(todo)[2]] =
                      PreprocessElement(heap[Head(todo)[1]][Head(todo)[2]])]]
    BY DEF Preprocess
  <2> QED BY <2>1, <2>2, Zenon
<1> HIDE DEF d
<1>12. /\ heap' \in Seq(Seq(HeapElements)) /\ Len(heap') = Len(heap)
       /\ heap'[a][j] = d
       /\ Grown(heap', heap, owner, owner) /\ ChangedAt(heap', heap, <<a, j>>)
  <2> DEFINE array == [heap[a] EXCEPT ![j] = d]
  <2>1. heap[a] \in Seq(HeapElements)
    BY <1>6, ElementOfSeq
  <2>2. /\ array \in Seq(HeapElements) /\ Len(array) = Len(heap[a])
        /\ \A i \in 1..Len(heap[a]) : array[i] = IF i = j THEN d ELSE heap[a][i]
    BY <1>9, <1>10, <2>1, ExceptSeq
  <2> HIDE DEF array
  <2>3. /\ heap' \in Seq(Seq(HeapElements)) /\ Len(heap') = Len(heap)
        /\ \A b \in 1..Len(heap) : heap'[b] = IF b = a THEN array ELSE heap[b]
    BY <1>6, <1>8, <1>11, <2>2, ExceptSeq DEF array
  <2>4. Grown(heap', heap, owner, owner)
    <3>1. \A b \in 1..Len(heap) : Len(heap'[b]) = Len(heap[b])
      BY <2>2, <2>3
    <3>2. Len(heap) <= Len(heap')
      BY <1>6, <2>3
    <3> QED BY <1>6, <2>3, <3>1, <3>2, Zenon DEF Grown
  <2>5. ASSUME NEW b \in 1..Len(heap), NEW i \in 1..Len(heap[b]), <<b, i>> # <<a, j>>
        PROVE  heap'[b][i] = heap[b][i]
    <3>1. b # a \/ i # j
      BY <2>5
    <3> QED BY <2>2, <2>3, <3>1
  <2>6. ChangedAt(heap', heap, <<a, j>>)
    BY <2>5 DEF ChangedAt
  <2> QED BY <1>9, <2>2, <2>3, <2>4, <2>6
<1>13. WritesAt(heap', heap, owner, a, j)
  <2>1. owner[a] # "rules"
    BY <1>9, ListNames DEF Written
  <2> QED BY <1>10, <1>12, <2>1 DEF WritesAt
<1>14. Copies' = Copies /\ \A y \in {item} \cup Copies : y \in ItemRecord(kind)
  <2>1. \A y \in Range(built) : y \in ItemRecord(kind)
    <3>1. built \in Seq(ItemRecord(kind))
      BY <1>2 DEF BuilderTypes
    <3> QED BY <3>1, RangeOfSeq
  <2> QED BY <1>2, <1>3, <1>6, <2>1 DEF Copies, BuilderTypes
<1>15. \A y \in {item} \cup Copies :
         /\ ValidItem(kind, heap, owner, y)
         /\ ValidItem(kind, heap', owner, y)
         /\ PlacesOf(kind, heap', y) = PlacesOf(kind, heap, y)
  <2>1. \A y \in {item} \cup Copies : ValidItem(kind, heap, owner, y)
    BY <1>1 DEF OwnedBy
  <2>2. ASSUME NEW y \in {item} \cup Copies
        PROVE  /\ ValidItem(kind, heap', owner, y)
               /\ PlacesOf(kind, heap', y) = PlacesOf(kind, heap, y)
    <3>1. y \in ItemRecord(kind) /\ ValidItem(kind, heap, owner, y)
      BY <1>14, <2>1
    <3> QED BY <1>6, <1>13, <3>1, ItemStaysValidWritten
  <2> QED BY <2>1, <2>2
<1>16. \A y \in Range(built) : LooksTheSame(heap', heap, y)
  <2>1. ASSUME NEW y \in Range(built) PROVE LooksTheSame(heap', heap, y)
    <3>1. y \in ItemRecord(kind) /\ ValidItem(kind, heap, owner, y)
      BY <1>14, <1>15 DEF Copies
    <3>2. \A p \in PlacesOf(kind, heap, y) : IsPreprocessed(At(heap, p))
      BY <1>2 DEF PreprocessedSoFar
    <3>3. heap'[a][j] = PreprocessElement(heap[a][j])
      BY <1>12 DEF d
    <3> QED BY <1>6, <1>8, <1>9, <1>12, <3>1, <3>2, <3>3, PreprocessedItemsStay
  <2> QED BY <2>1
<1>17. OwnedBy(owner)'
  <2>1. ValidSlice(heap', owner, rule.clauses, "clauses")
    <3>1. ValidSlice(heap, owner, rule.clauses, "clauses")
      BY <1>1 DEF OwnedBy
    <3> QED BY <1>6, <1>13, <3>1, SliceStaysValidWritten
  <2> QED BY <1>3, <1>6, <1>12, <1>14, <1>15, <2>1 DEF OwnedBy
<1>18. CopiesAreBehind'
  BY <1>2, <1>3, <1>14 DEF CopiesAreBehind
<1>19. BuilderTypes'
  BY <1>2, <1>3, <1>5, <1>12 DEF BuilderTypes
<1>20. BuiltReadsTheSame
  <2>1. \A i \in DOMAIN built : built[i] \in Range(built)
    BY DEF Range
  <2>2. \A y \in Range(built) : Read(heap', y) = Read(heap, y)
    BY <1>16, SameRead
  <2> QED BY <1>3, <2>1, <2>2 DEF BuiltReadsTheSame
<1>21. PreprocessedSoFar'
  <2>1. ~Idle'
    BY <1>3, <1>4 DEF Idle
  <2>2. \A y \in Copies' : PreprocessStruct(y) = y
    BY <1>2, <1>14 DEF PreprocessedSoFar
  <2>3. \A y \in Range(built) : \A p \in PlacesOf(kind, heap', y) : IsPreprocessed(At(heap', p))
    <3>1. ASSUME NEW y \in Range(built)
          PROVE  \A p \in PlacesOf(kind, heap, y) : At(heap', p) = At(heap, p)
      <4>1. y \in ItemRecord(kind) /\ ValidItem(kind, heap, owner, y)
        BY <1>14, <1>15 DEF Copies
      <4> QED BY <1>16, <4>1, SamePlaces
    <3>2. \A y \in Range(built) : PlacesOf(kind, heap', y) = PlacesOf(kind, heap, y)
      BY <1>15 DEF Copies
    <3> QED BY <1>2, <3>1, <3>2 DEF PreprocessedSoFar
  <2>4. Range(todo') \subseteq PlacesOf(kind, heap', x)
    BY <1>5, <1>6, <1>7, <1>15
  <2>5. ASSUME NEW p \in PlacesOf(kind, heap', x), p \notin Range(todo')
        PROVE  IsPreprocessed(At(heap', p))
    <3>1. p \in PlacesOf(kind, heap, x)
      BY <1>6, <1>15
    <3>2. CASE p = <<a, j>>
      BY <1>10, <1>12, <3>2, ElementAt
    <3>3. CASE p # <<a, j>>
      <4>1. IsPreprocessed(At(heap, p))
        BY <1>5, <1>7, <1>9, <2>5, <3>1, <3>3
      <4>2. PICK b \in 1..Len(heap) : \E i \in 1..Len(heap[b]) : p = <<b, i>>
        BY <1>6, <3>1, PlacesAreInside
      <4>3. PICK i \in 1..Len(heap[b]) : p = <<b, i>>
        BY <4>2
      <4>4. heap'[b][i] = heap[b][i]
        BY <1>12, <3>3, <4>3 DEF ChangedAt
      <4> QED BY <4>1, <4>3, <4>4, ElementAt
    <3> QED BY <3>2, <3>3
  <2> QED BY <1>3, <1>6, <2>1, <2>2, <2>3, <2>4, <2>5 DEF PreprocessedSoFar
<1> QED BY <1>17, <1>18, <1>19, <1>20, <1>21 DEF BuilderInv, EveryArrayHasAnOwner

------------------------------------------------------------------------------
(***************************************************************************)
(* The invariant, and what follows from it.                                *)
(***************************************************************************)
LEMMA BuilderInvInit ==
  ASSUME BuilderInit
  PROVE  BuilderInv
<1>1. /\ kind \in {"flag", "segment"} /\ heap = <<>> /\ item = NewItem(kind) /\ rule = NewRule
      /\ building = <<>> /\ todo = <<>> /\ built = <<>>
  BY DEF BuilderInit
<1>2. /\ NilSlice \in SliceRecord /\ NilSlice.len = 0 /\ NilSlice.array = 0 /\ 1..0 = {}
  BY DEF NilSlice, SliceRecord
<1>3. item \in ItemRecord(kind)
  <2>1. <<>> \in KeySets /\ <<>> \in OptionalKeys
    BY DEF KeySets, OptionalKeys, PreprocessStringSet
  <2> QED BY <1>1, <1>2, <2>1 DEF NewItem, ItemRecord
<1>4. rule \in RuleRecord /\ rule.clauses = NilSlice
  BY <1>1, <1>2 DEF NewRule, RuleRecord
<1>5. BuilderTypes
  BY <1>1, <1>3, <1>4, EmptySeq DEF BuilderTypes
<1>6. Copies = {} /\ Range(todo) = {} /\ Range(building) = {} /\ Range(built) = {}
  BY <1>1 DEF Copies, Range
<1>7. EveryArrayHasAnOwner
  <2>1. Len(heap) = 0
    BY <1>1, EmptySeq
  <2>2. PICK owner : owner = [a \in 1..Len(heap) |-> "rules"]
    OBVIOUS
  <2>3. owner \in [1..Len(heap) -> Owners(kind)]
    BY <2>2 DEF Owners
  <2>4. \A o : ValidSlice(heap, owner, NilSlice, o)
    BY <1>2 DEF ValidSlice, FitsIts
  <2>5. /\ \A name \in Lists(kind) : item.lists[name] = NilSlice
        /\ item.rules = NilSlice
    BY <1>1 DEF NewItem
  <2>6. ValidItem(kind, heap, owner, item)
    BY <1>2, <2>4, <2>5 DEF ValidItem
  <2>7. OwnedBy(owner)
    BY <1>4, <1>6, <2>3, <2>4, <2>6 DEF OwnedBy
  <2> QED BY <2>7 DEF EveryArrayHasAnOwner
<1>8. CopiesAreBehind
  BY <1>6 DEF CopiesAreBehind
<1>9. PreprocessedSoFar
  BY <1>1, <1>6 DEF PreprocessedSoFar
<1> QED BY <1>5, <1>7, <1>8, <1>9 DEF BuilderInv

\* Every step keeps the invariant, and what was built.
LEMMA BuilderInvNext ==
  ASSUME BuilderInv, [BuilderNext]_builderVars
  PROVE  BuilderInv' /\ BuiltReadsTheSame
<1>1. CASE UNCHANGED builderVars
  BY <1>1 DEF builderVars, BuilderInv, BuilderTypes, EveryArrayHasAnOwner, OwnedBy,
     Copies, CopiesAreBehind, PreprocessedSoFar, Idle, BuiltReadsTheSame
<1>2. CASE BuilderNext
  BY <1>2, AddTargetStep, SetKeysStep, SetStep, SetClausesStep, AddRuleStep, BuildStep,
     PreprocessStep, BuildReturnsStep DEF BuilderNext
<1> QED BY <1>1, <1>2

\* Every array has one owner, what was built ends where the builder's slices go on, and it is
\* preprocessed (flag_builder.go:67, segment_builder.go:26).
THEOREM BuilderInvariant == BuilderSpec => []BuilderInv
<1>1. BuilderInit => BuilderInv
  BY BuilderInvInit
<1>2. BuilderInv /\ [BuilderNext]_builderVars => BuilderInv'
  BY BuilderInvNext
<1> QED BY <1>1, <1>2, PTL DEF BuilderSpec

\* However a builder and its rule builders are used after Build, and with any capacities that
\* append chooses, what Build has returned reads the same (flag_builder.go:67).
THEOREM BuiltItemsNeverChange == BuilderSpec => BuiltItemsStayTheSame
<1>1. BuilderInv /\ [BuilderNext]_builderVars =>
        [\A i \in DOMAIN built : Read(heap, built[i])' = Read(heap, built[i])]_builderVars
  BY BuilderInvNext DEF BuiltReadsTheSame
<1>2. BuilderSpec => []BuilderInv
  BY BuilderInvariant
<1> QED BY <1>1, <1>2, PTL DEF BuilderSpec, BuiltItemsStayTheSame

\* Whatever a builder is given, and in whatever order, what Build has returned has the
\* preprocessed data of its own values throughout (preprocess.go:51, flag_builder.go:67).
THEOREM BuiltItemsAlwaysPreprocessed == BuilderSpec => []BuiltItemsArePreprocessed
<1>1. ASSUME BuilderInv PROVE BuiltItemsArePreprocessed
  <2>1. PICK owner : OwnedBy(owner)
    BY <1>1 DEF BuilderInv, EveryArrayHasAnOwner
  <2>2. BuilderTypes /\ PreprocessedSoFar
    BY <1>1 DEF BuilderInv
  <2> SUFFICES ASSUME NEW n \in DOMAIN built
               PROVE  LET contents == Read(heap, built[n])
                      IN  /\ \A name \in Lists(kind) \ {"contextTargets"} :
                               \A t \in Range(contents.lists[name]) :
                                 t.preprocessed = PreprocessStringSet(t.values)
                          /\ \A clauses \in Range(contents.rules) : \A c \in Range(clauses) :
                               c = PreprocessClause(c)
                          /\ built[n].preprocessed.included = PreprocessStringSet(built[n].included)
                          /\ built[n].preprocessed.excluded = PreprocessStringSet(built[n].excluded)
    BY DEF BuiltItemsArePreprocessed
  <2> DEFINE x == built[n]
             contents == Read(heap, x)
  <2>3. x \in ItemRecord(kind) /\ x \in Range(built) /\ x \in Copies
    <3>1. x \in Range(built)
      BY DEF Range
    <3>2. built \in Seq(ItemRecord(kind))
      BY <2>2 DEF BuilderTypes
    <3>3. Range(built) \subseteq ItemRecord(kind)
      BY <3>2, RangeOfSeq
    <3> QED BY <3>1, <3>3 DEF Copies
  <2> HIDE DEF x
  <2>4. /\ ValidItem(kind, heap, owner, x) /\ PreprocessStruct(x) = x
        /\ \A p \in PlacesOf(kind, heap, x) : IsPreprocessed(At(heap, p))
    BY <2>1, <2>2, <2>3 DEF OwnedBy, PreprocessedSoFar
  <2>5. /\ x.preprocessed.included = PreprocessStringSet(x.included)
        /\ x.preprocessed.excluded = PreprocessStringSet(x.excluded)
    BY <2>3, <2>4, PreprocessedStruct
  <2>6. \A s : \A e \in Range(Content(heap, s)) : \E i \in 1..s.len : e = heap[s.array][i]
    BY DEF Content, Range
  <2>7. ASSUME NEW name \in Lists(kind) \ {"contextTargets"},
               NEW t \in Range(contents.lists[name])
        PROVE  t.preprocessed = PreprocessStringSet(t.values)
    <3>1. contents.lists[name] = Content(heap, x.lists[name])
      BY <2>3 DEF Read, ItemRecord
    <3>2. PICK i \in 1..x.lists[name].len : t = heap[x.lists[name].array][i]
      BY <2>6, <2>7, <3>1
    <3>3. t \in TargetRecord
      BY <2>4, <3>2, ContentsOfLists DEF ValidItem, ValidSlice
    <3>4. <<x.lists[name].array, i>> \in PlacesOf(kind, heap, x)
      BY DEF PlacesOf, PlacesIn
    <3>5. IsPreprocessed(t)
      BY <2>4, <3>2, <3>4, ElementAt
    <3> QED BY <3>3, <3>5, TargetElements
  <2>8. ASSUME NEW clauses \in Range(contents.rules), NEW c \in Range(clauses)
        PROVE  c = PreprocessClause(c)
    <3>1. contents.rules = [i \in 1..x.rules.len |->
                              Content(heap, At(heap, <<x.rules.array, i>>).clauses)]
      BY DEF Read
    <3>2. PICK i \in 1..x.rules.len : clauses = Content(heap, ClausesOfRule(heap, x, i))
      <4>1. \A i \in 1..x.rules.len :
              At(heap, <<x.rules.array, i>>).clauses = ClausesOfRule(heap, x, i)
        BY ElementAt DEF ClausesOfRule
      <4>2. PICK i \in DOMAIN contents.rules : clauses = contents.rules[i]
        BY DEF Range
      <4> HIDE DEF contents
      <4>3. i \in 1..x.rules.len /\ clauses = Content(heap, At(heap, <<x.rules.array, i>>).clauses)
        BY <3>1, <4>2
      <4> QED BY <4>1, <4>3
    <3> DEFINE s == ClausesOfRule(heap, x, i)
    <3>3. PICK j \in 1..s.len : c = heap[s.array][j]
      BY <2>6, <2>8, <3>2
    <3>4. ValidSlice(heap, owner, s, "clauses")
      BY <2>4 DEF ValidItem
    <3>5. <<s.array, j>> \in PlacesOf(kind, heap, x)
      BY DEF PlacesOf, PlacesIn
    <3> HIDE DEF s
    <3>6. c \in ClauseElements
      BY <3>3, <3>4, ContentsOfOthers DEF ValidSlice
    <3>7. IsPreprocessed(c)
      BY <2>4, <3>3, <3>5, ElementAt
    <3> QED BY <3>6, <3>7, ClausesAreElements DEF IsPreprocessed
  <2> QED BY <2>5, <2>7, <2>8 DEF x
<1>2. BuilderSpec => []BuilderInv
  BY BuilderInvariant
<1> QED BY <1>1, <1>2, PTL
==============================================================================
