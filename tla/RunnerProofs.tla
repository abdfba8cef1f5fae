---------------------------- MODULE RunnerProofs ----------------------------
(***************************************************************************)
(* What the tail of an output holds, which text it gives and what Run's    *)
(* answer means, for every capacity, every way to cut the output into      *)
(* chunks and every order of process, descendant, timer and goroutines.    *)
(***************************************************************************)
EXTENDS Runner, TLAPS, SequenceTheorems, WellFoundedInduction

\* What the bookkeeping of the streams needs of the types.
Streamed ==
  /\ written \in [Streams -> Seq(Bytes)]
  /\ pipe \in [Streams -> Seq(Bytes)]
  /\ tail \in [Streams -> [bytes : Seq(Bytes), truncated : BOOLEAN]]
  /\ answer.ok \in BOOLEAN

\* What is in the pipe is the end of what was written.
Split ==
  \A s \in Streams :
    /\ Len(pipe[s]) <= Len(written[s])
    /\ pipe[s] = SubSeq(written[s], Len(written[s]) - Len(pipe[s]) + 1,
                        Len(written[s]))

\* Giving up is a failure, and an answer without an error has seen both ends.
Answered ==
  /\ timer = "expired" => failed
  /\ answer.ok => /\ pc = "returned"
                  /\ \A s \in Streams : pipe[s] = <<>>
                  /\ ~tail["stdout"].truncated

\* What was killed starts nothing any more.
Killed == killed => leader # "running" /\ child # "running"

RunnerInv == Streamed /\ Split /\ TailsAreExact /\ Answered /\ Killed

-----------------------------------------------------------------------------
(* The tail *)

\* The end of a sequence, byte by byte.
LEMMA LastBytes ==
  ASSUME NEW S, NEW b \in Seq(S), NEW n \in Nat
  PROVE  /\ Last(b, n) \in Seq(S)
         /\ Len(Last(b, n)) = IF Len(b) <= n THEN Len(b) ELSE n
         /\ \A i \in 1..Len(Last(b, n)) :
              Last(b, n)[i] = b[Len(b) - Len(Last(b, n)) + i]
<1>0. Len(b) \in Nat /\ \A i \in 1..Len(b) : b[i] \in S
  BY ElementOfSeq, LenProperties
<1>1. CASE Len(b) <= n
  BY <1>0, <1>1 DEF Last
<1>2. CASE ~(Len(b) <= n)
  <2>1. Last(b, n) = SubSeq(b, Len(b) - n + 1, Len(b))
    BY <1>2 DEF Last
  <2>2. /\ SubSeq(b, Len(b) - n + 1, Len(b)) \in Seq(S)
        /\ Len(SubSeq(b, Len(b) - n + 1, Len(b)))
             = IF Len(b) - n + 1 <= Len(b) THEN Len(b) - (Len(b) - n + 1) + 1 ELSE 0
        /\ \A i \in 1..(Len(b) - (Len(b) - n + 1) + 1) :
             SubSeq(b, Len(b) - n + 1, Len(b))[i] = b[Len(b) - n + 1 + i - 1]
    <3>1. /\ Len(b) - n + 1 \in Int /\ Len(b) \in Int
          /\ \A i \in (Len(b) - n + 1)..Len(b) : b[i] \in S
      BY <1>0, <1>2
    <3> HIDE DEF Last
    <3> QED BY <3>1, SubSeqProperties
  <2>3. Len(Last(b, n)) = n
    BY <1>0, <1>2, <2>1, <2>2
  <2> QED BY <1>0, <1>2, <2>1, <2>2, <2>3
<1> QED BY <1>1, <1>2

\* The lengths in TailWrite: w bytes were written before, p are written now, the
\* tail had b of the ones and keeps c of the others; k of the b bytes stay.
LEMMA Lengths ==
  ASSUME NEW n \in Nat, NEW w \in Nat, NEW p \in Nat,
         NEW c, c = (IF p <= n THEN p ELSE n),
         NEW b, b = (IF w <= n THEN w ELSE n),
         NEW k, k = (IF b + c > n THEN n - c ELSE b)
  PROVE  /\ k \in Nat /\ k <= w
         /\ k = 0 \/ c = p
         /\ k + c = IF w + p <= n THEN w + p ELSE n
         /\ (w > n \/ p > n \/ b + c > n) <=> w + p > n
OBVIOUS

\* A tail that holds the end of w holds the end of w \o p after p was written,
\* and has noticed it if something is missing.
LEMMA TailWriteIsExact ==
  ASSUME NEW S, NEW w \in Seq(S), NEW p \in Seq(S), NEW n \in Nat, NEW t,
         t.bytes = Last(w, n), t.truncated = (Len(w) > n)
  PROVE  /\ TailWrite(t, p, n).bytes = Last(w \o p, n)
         /\ TailWrite(t, p, n).truncated <=> Len(w \o p) > n
<1> DEFINE chunk  == Last(p, n)
           excess == Len(t.bytes) + Len(chunk) > n
           kept   == IF excess THEN Last(t.bytes, n - Len(chunk)) ELSE t.bytes
           all    == w \o p
<1>1. Len(w) \in Nat /\ Len(p) \in Nat
  BY LenProperties
<1>2. /\ chunk \in Seq(S)
      /\ Len(chunk) = IF Len(p) <= n THEN Len(p) ELSE n
      /\ \A i \in 1..Len(chunk) : chunk[i] = p[Len(p) - Len(chunk) + i]
  BY LastBytes
<1>3. /\ t.bytes \in Seq(S)
      /\ Len(t.bytes) = IF Len(w) <= n THEN Len(w) ELSE n
      /\ \A i \in 1..Len(t.bytes) : t.bytes[i] = w[Len(w) - Len(t.bytes) + i]
  BY LastBytes
<1>4. /\ all \in Seq(S)
      /\ Len(all) = Len(w) + Len(p)
      /\ \A i \in 1..(Len(w) + Len(p)) :
           all[i] = IF i <= Len(w) THEN w[i] ELSE p[i - Len(w)]
  BY ConcatProperties
<1>5. /\ Last(all, n) \in Seq(S)
      /\ Len(Last(all, n)) = IF Len(all) <= n THEN Len(all) ELSE n
      /\ \A i \in 1..Len(Last(all, n)) :
           Last(all, n)[i] = all[Len(all) - Len(Last(all, n)) + i]
  <2> HIDE DEF all
  <2> QED BY <1>4, LastBytes
<1>6. TailWrite(t, p, n) =
        [bytes     |-> kept \o chunk,
         truncated |-> t.truncated \/ Len(p) > n \/ excess]
  BY DEF TailWrite
<1> HIDE DEF chunk, all
<1>7. /\ Len(chunk) \in Nat /\ Len(chunk) <= n /\ Len(chunk) <= Len(p)
      /\ Len(t.bytes) \in Nat /\ Len(t.bytes) <= n /\ Len(t.bytes) <= Len(w)
  BY <1>1, <1>2, <1>3
<1>8. /\ kept \in Seq(S)
      /\ Len(kept) = IF excess THEN n - Len(chunk) ELSE Len(t.bytes)
      /\ \A i \in 1..Len(kept) : kept[i] = w[Len(w) - Len(kept) + i]
  <2>1. CASE ~excess
    BY <1>3, <2>1
  <2>2. CASE excess
    <3> DEFINE m == n - Len(chunk)
    <3>1. m \in Nat /\ m < Len(t.bytes)
      BY <1>7, <2>2
    <3>2. kept = Last(t.bytes, m)
      BY <2>2
    <3> HIDE DEF m, kept
    <3>3. /\ kept \in Seq(S)
          /\ Len(kept) = IF Len(t.bytes) <= m THEN Len(t.bytes) ELSE m
          /\ \A i \in 1..Len(kept) : kept[i] = t.bytes[Len(t.bytes) - Len(kept) + i]
      <4> DEFINE b == t.bytes
      <4>1. b \in Seq(S)
        BY <1>3
      <4> HIDE DEF b
      <4>2. /\ Last(b, m) \in Seq(S)
            /\ Len(Last(b, m)) = IF Len(b) <= m THEN Len(b) ELSE m
            /\ \A i \in 1..Len(Last(b, m)) :
                 Last(b, m)[i] = b[Len(b) - Len(Last(b, m)) + i]
        BY <3>1, <4>1, LastBytes
      <4> QED BY <3>2, <4>2 DEF b
    <3>4. Len(kept) = m
      BY <1>7, <3>1, <3>3
    <3>5. ASSUME NEW i \in 1..Len(kept)
          PROVE  kept[i] = w[Len(w) - Len(kept) + i]
      <4>1. kept[i] = t.bytes[Len(t.bytes) - m + i]
        BY <3>3, <3>4
      <4>2. Len(t.bytes) - m + i \in 1..Len(t.bytes)
        BY <1>7, <3>1, <3>4
      <4>3. t.bytes[Len(t.bytes) - m + i]
              = w[Len(w) - Len(t.bytes) + (Len(t.bytes) - m + i)]
        BY <1>3, <4>2
      <4>4. Len(w) - Len(t.bytes) + (Len(t.bytes) - m + i) = Len(w) - m + i
        BY <1>1, <1>7, <3>1, <3>4
      <4> QED BY <3>4, <4>1, <4>3, <4>4
    <3>6. Len(kept) = n - Len(chunk)
      BY <3>4 DEF m
    <3> QED BY <2>2, <3>3, <3>5, <3>6
  <2> QED BY <2>1, <2>2
<1>9. /\ Len(kept) \in Nat /\ Len(kept) <= Len(w)
      /\ Len(kept) = 0 \/ Len(chunk) = Len(p)
      /\ Len(kept) + Len(chunk) = IF Len(all) <= n THEN Len(all) ELSE n
      /\ (Len(w) > n \/ Len(p) > n \/ Len(t.bytes) + Len(chunk) > n) <=> Len(all) > n
  <2>1. Len(kept) = IF Len(t.bytes) + Len(chunk) > n THEN n - Len(chunk) ELSE Len(t.bytes)
    BY <1>8
  <2>2. /\ Len(chunk) = IF Len(p) <= n THEN Len(p) ELSE n
        /\ Len(t.bytes) = IF Len(w) <= n THEN Len(w) ELSE n
        /\ Len(all) = Len(w) + Len(p)
    BY <1>2, <1>3, <1>4
  <2> DEFINE ww == Len(w)
             pp == Len(p)
             cc == Len(chunk)
             bb == Len(t.bytes)
             kk == Len(kept)
  <2>3. /\ ww \in Nat /\ pp \in Nat
        /\ cc = (IF pp <= n THEN pp ELSE n)
        /\ bb = (IF ww <= n THEN ww ELSE n)
        /\ kk = (IF bb + cc > n THEN n - cc ELSE bb)
    BY <1>1, <2>1, <2>2
  <2> HIDE DEF kept, ww, pp, cc, bb, kk
  <2>4. /\ kk \in Nat /\ kk <= ww
        /\ kk = 0 \/ cc = pp
        /\ kk + cc = IF ww + pp <= n THEN ww + pp ELSE n
        /\ (ww > n \/ pp > n \/ bb + cc > n) <=> ww + pp > n
    BY <2>3, Lengths
  <2> QED BY <2>2, <2>4 DEF ww, pp, cc, bb, kk
<1>10. (t.truncated \/ Len(p) > n \/ excess) <=> Len(all) > n
  BY <1>9
<1> HIDE DEF kept, excess
<1>11. /\ kept \o chunk \in Seq(S)
       /\ Len(kept \o chunk) = Len(kept) + Len(chunk)
       /\ \A i \in 1..(Len(kept) + Len(chunk)) :
            (kept \o chunk)[i] =
              IF i <= Len(kept) THEN kept[i] ELSE chunk[i - Len(kept)]
  <2>1. kept \in Seq(S) /\ chunk \in Seq(S)
    BY <1>2, <1>8
  <2> QED BY <2>1, ConcatProperties
<1>12. Len(kept \o chunk) = Len(Last(all, n))
  BY <1>5, <1>9, <1>11
<1>13. ASSUME NEW i \in 1..Len(kept \o chunk)
       PROVE  (kept \o chunk)[i] = Last(all, n)[i]
  <2> DEFINE R == Len(kept) + Len(chunk)
  <2>0. i \in 1..R /\ R \in Nat /\ R <= Len(w) + Len(p)
    BY <1>1, <1>7, <1>9, <1>11
  <2>1. Last(all, n)[i] = all[Len(w) + Len(p) - R + i]
    <3>1. Len(all) = Len(w) + Len(p) /\ Len(Last(all, n)) = R
      BY <1>4, <1>11, <1>12
    <3>2. i \in 1..Len(Last(all, n))
      BY <2>0, <3>1
    <3>3. Last(all, n)[i] = all[Len(all) - Len(Last(all, n)) + i]
      BY <1>5, <3>2
    <3> HIDE DEF R
    <3> QED BY <3>1, <3>3
  <2>2. Len(w) + Len(p) - R + i \in 1..(Len(w) + Len(p))
    BY <1>1, <2>0
  <2>3. CASE i <= Len(kept)
    <3>1. Len(chunk) = Len(p)
      BY <1>9, <2>0, <2>3
    <3>2. (kept \o chunk)[i] = w[Len(w) - Len(kept) + i]
      <4>1. i \in 1..Len(kept)
        BY <1>9, <2>0, <2>3
      <4>2. (kept \o chunk)[i] = kept[i]
        BY <1>11, <2>0, <2>3
      <4> QED BY <1>8, <4>1, <4>2
    <3>3. Len(w) + Len(p) - R + i = Len(w) - Len(kept) + i
      BY <1>1, <1>9, <3>1
    <3>4. Len(w) - Len(kept) + i <= Len(w)
      BY <1>1, <1>9, <2>0, <2>3
    <3> QED BY <1>4, <2>1, <2>2, <3>2, <3>3, <3>4
  <2>4. CASE ~(i <= Len(kept))
    <3>1. i - Len(kept) \in 1..Len(chunk)
      BY <1>7, <1>9, <2>0, <2>4
    <3>2. (kept \o chunk)[i] = p[Len(p) - Len(chunk) + (i - Len(kept))]
      BY <1>2, <1>11, <2>0, <2>4, <3>1
    <3>3. ~(Len(w) + Len(p) - R + i <= Len(w))
      BY <1>1, <1>7, <1>9, <2>0, <2>4
    <3>4. (Len(w) + Len(p) - R + i) - Len(w) = Len(p) - Len(chunk) + (i - Len(kept))
      BY <1>1, <1>7, <1>9, <2>0
    <3> QED BY <1>4, <2>1, <2>2, <3>2, <3>3, <3>4
  <2> QED BY <2>3, <2>4
<1>14. kept \o chunk = Last(all, n)
  BY <1>5, <1>11, <1>12, <1>13, SeqEqual
<1>15. /\ TailWrite(t, p, n).bytes = kept \o chunk
       /\ TailWrite(t, p, n).truncated = (t.truncated \/ Len(p) > n \/ excess)
  BY <1>6
<1> QED BY <1>10, <1>14, <1>15 DEF all

\* A part of a sequence, by its elements.
LEMMA Part ==
  ASSUME NEW S, NEW q \in Seq(S), NEW m \in Nat, NEW n \in Nat,
         1 <= m, m <= n + 1, n <= Len(q)
  PROVE  /\ SubSeq(q, m, n) \in Seq(S)
         /\ Len(SubSeq(q, m, n)) = n - m + 1
         /\ \A i \in 1..(n - m + 1) : SubSeq(q, m, n)[i] = q[m + i - 1]
<1>1. \A i \in m..n : q[i] \in S
  <2> SUFFICES ASSUME NEW i \in m..n PROVE q[i] \in S
    OBVIOUS
  <2>1. i \in 1..Len(q)
    BY LenProperties
  <2> QED BY <2>1, ElementOfSeq
<1>2. m \in Int /\ n \in Int /\ (IF m <= n THEN n - m + 1 ELSE 0) = n - m + 1
  OBVIOUS
<1> QED BY <1>1, <1>2, SubSeqProperties

\* Two sequences that end alike still do when the same element follows both.
LEMMA AppendBoth ==
  ASSUME NEW S, NEW w \in Seq(S), NEW p \in Seq(S), NEW b \in S,
         Len(p) <= Len(w), p = SubSeq(w, Len(w) - Len(p) + 1, Len(w))
  PROVE  /\ Len(Append(p, b)) <= Len(Append(w, b))
         /\ Append(p, b) = SubSeq(Append(w, b), Len(Append(w, b)) - Len(Append(p, b)) + 1,
                                  Len(Append(w, b)))
         /\ SubSeq(Append(w, b), 1, Len(Append(w, b)) - Len(Append(p, b)))
              = SubSeq(w, 1, Len(w) - Len(p))
<1>0. Len(w) \in Nat /\ Len(p) \in Nat
  BY LenProperties
<1>1. PICK k \in Nat : k = Len(w) - Len(p)
  <2>1. Len(w) - Len(p) \in Nat
    BY <1>0
  <2> QED BY <2>1
<1>2. PICK l \in Nat : l = Len(w)
  BY LenProperties
<1>3. PICK m \in Nat : m = Len(p)
  BY LenProperties
<1>4. /\ Append(w, b) \in Seq(S) /\ Len(Append(w, b)) = l + 1
      /\ \A i \in 1..l : Append(w, b)[i] = w[i]
      /\ Append(w, b)[l + 1] = b
  BY <1>2, AppendProperties
<1>5. /\ Append(p, b) \in Seq(S) /\ Len(Append(p, b)) = m + 1
      /\ \A i \in 1..m : Append(p, b)[i] = p[i]
      /\ Append(p, b)[m + 1] = b
  BY <1>3, AppendProperties
<1>6. l = k + m
  BY <1>1, <1>2, <1>3
<1>7. \A i \in 1..m : p[i] = w[k + i]
  <2>1. p = SubSeq(w, k + 1, l)
    BY <1>1, <1>2, <1>3
  <2>2. \A i \in 1..(l - (k + 1) + 1) : SubSeq(w, k + 1, l)[i] = w[k + 1 + i - 1]
    <3>1. k + 1 \in Nat /\ 1 <= k + 1 /\ k + 1 <= l + 1 /\ l <= Len(w)
      BY <1>2, <1>6
    <3> QED BY <3>1, Part
  <2>3. l - (k + 1) + 1 = m /\ \A i \in 1..m : k + 1 + i - 1 = k + i
    BY <1>6
  <2> QED BY <2>1, <2>2, <2>3
<1>8. Append(p, b) = SubSeq(Append(w, b), k + 1, l + 1)
  <2> DEFINE q == SubSeq(Append(w, b), k + 1, l + 1)
  <2>1. /\ q \in Seq(S) /\ Len(q) = (l + 1) - (k + 1) + 1
        /\ \A i \in 1..((l + 1) - (k + 1) + 1) : q[i] = Append(w, b)[k + 1 + i - 1]
    <3>1. /\ k + 1 \in Nat /\ l + 1 \in Nat
          /\ 1 <= k + 1 /\ k + 1 <= (l + 1) + 1 /\ l + 1 <= Len(Append(w, b))
      BY <1>4, <1>6
    <3>2. PICK a \in Seq(S) : a = Append(w, b)
      BY <1>4
    <3>3. l + 1 <= Len(a)
      BY <3>1, <3>2
    <3>4. /\ SubSeq(a, k + 1, l + 1) \in Seq(S)
          /\ Len(SubSeq(a, k + 1, l + 1)) = (l + 1) - (k + 1) + 1
          /\ \A i \in 1..((l + 1) - (k + 1) + 1) :
               SubSeq(a, k + 1, l + 1)[i] = a[k + 1 + i - 1]
      BY <3>1, <3>3, Part
    <3> QED BY <3>2, <3>4
  <2>2. (l + 1) - (k + 1) + 1 = m + 1 /\ \A i \in 1..(m + 1) : k + 1 + i - 1 = k + i
    BY <1>6
  <2>3. ASSUME NEW i \in 1..(m + 1) PROVE Append(p, b)[i] = q[i]
    <3>1. q[i] = Append(w, b)[k + i]
      BY <2>1, <2>2
    <3>2. CASE i = m + 1
      <4>1. k + i = l + 1
        BY <1>6, <3>2
      <4> QED BY <1>4, <1>5, <3>1, <3>2, <4>1
    <3>3. CASE i # m + 1
      <4>1. i \in 1..m /\ k + i \in 1..l
        BY <1>6, <3>3
      <4> QED BY <1>4, <1>5, <1>7, <3>1, <4>1
    <3> QED BY <3>2, <3>3
  <2> HIDE DEF q
  <2>4. Len(q) = m + 1
    BY <2>1, <2>2
  <2>5. Append(p, b) = q
    BY <1>5, <2>1, <2>3, <2>4, SeqEqual
  <2> QED BY <2>5 DEF q
<1>9. SubSeq(Append(w, b), 1, k) = SubSeq(w, 1, k)
  <2>1. k <= Len(w) /\ k <= Len(Append(w, b)) /\ 1 \in Nat /\ 1 <= k + 1 /\ k - 1 + 1 = k
    BY <1>2, <1>4, <1>6
  <2>2. /\ SubSeq(w, 1, k) \in Seq(S) /\ Len(SubSeq(w, 1, k)) = k
        /\ \A i \in 1..k : SubSeq(w, 1, k)[i] = w[1 + i - 1]
    BY <2>1, Part
  <2>3. /\ SubSeq(Append(w, b), 1, k) \in Seq(S) /\ Len(SubSeq(Append(w, b), 1, k)) = k
        /\ \A i \in 1..k : SubSeq(Append(w, b), 1, k)[i] = Append(w, b)[1 + i - 1]
    BY <1>4, <2>1, Part
  <2>4. \A i \in 1..k : 1 + i - 1 = i /\ i \in 1..l
    BY <1>6
  <2>5. \A i \in 1..k : SubSeq(Append(w, b), 1, k)[i] = SubSeq(w, 1, k)[i]
    BY <1>4, <2>2, <2>3, <2>4
  <2> QED BY <2>2, <2>3, <2>5, SeqEqual
<1>10. Len(Append(w, b)) - Len(Append(p, b)) = k
  BY <1>4, <1>5, <1>6
<1>11. Len(Append(p, b)) <= Len(Append(w, b))
  BY <1>4, <1>5, <1>6
<1> QED BY <1>1, <1>4, <1>8, <1>9, <1>10, <1>11

\* The end of a sequence after its first n elements were taken.
LEMMA TakeFirst ==
  ASSUME NEW S, NEW w \in Seq(S), NEW k \in Nat, NEW n \in Nat, NEW p,
         k + n <= Len(w), p = SubSeq(w, k + 1, Len(w))
  PROVE  /\ SubSeq(p, 1, n) = SubSeq(w, k + 1, k + n)
         /\ SubSeq(p, n + 1, Len(p)) = SubSeq(w, k + n + 1, Len(w))
         /\ SubSeq(w, 1, k + n) = SubSeq(w, 1, k) \o SubSeq(w, k + 1, k + n)
<1>1. PICK l \in Nat : l = Len(w)
  BY LenProperties
<1>2. /\ k + 1 \in Nat /\ k + n \in Nat /\ k + n + 1 \in Nat /\ n + 1 \in Nat
      /\ 1 <= k + 1 /\ k + 1 <= l + 1 /\ k + 1 <= k + n + 1 /\ k + n + 1 <= l + 1
      /\ l <= Len(w) /\ k + n <= Len(w) /\ l - k \in Nat
      /\ l - (k + 1) + 1 = l - k /\ n <= l - k
      /\ (k + n) - (k + 1) + 1 = n /\ n - 1 + 1 = n /\ l - (k + n + 1) + 1 = (l - k) - n
      /\ (l - k) - (n + 1) + 1 = (l - k) - n /\ n + 1 <= (l - k) + 1
      /\ 1 <= n + 1 /\ 1 <= k + n + 1 /\ (l - k) - n \in Nat
  BY <1>1
<1>3. /\ p \in Seq(S) /\ Len(p) = l - k
      /\ \A i \in 1..(l - k) : p[i] = w[k + 1 + i - 1]
  BY <1>1, <1>2, Part
<1>4. /\ SubSeq(w, k + 1, k + n) \in Seq(S) /\ Len(SubSeq(w, k + 1, k + n)) = n
      /\ \A i \in 1..n : SubSeq(w, k + 1, k + n)[i] = w[k + 1 + i - 1]
  BY <1>2, Part
<1>5. /\ SubSeq(p, 1, n) \in Seq(S) /\ Len(SubSeq(p, 1, n)) = n
      /\ \A i \in 1..n : SubSeq(p, 1, n)[i] = p[1 + i - 1]
  BY <1>2, <1>3, Part
<1>6. /\ SubSeq(w, k + n + 1, l) \in Seq(S) /\ Len(SubSeq(w, k + n + 1, l)) = (l - k) - n
      /\ \A i \in 1..((l - k) - n) : SubSeq(w, k + n + 1, l)[i] = w[k + n + 1 + i - 1]
  BY <1>1, <1>2, Part
<1>7. /\ SubSeq(p, n + 1, l - k) \in Seq(S) /\ Len(SubSeq(p, n + 1, l - k)) = (l - k) - n
      /\ \A i \in 1..((l - k) - n) : SubSeq(p, n + 1, l - k)[i] = p[n + 1 + i - 1]
  <2>1. l - k <= Len(p)
    BY <1>2, <1>3
  <2> QED BY <1>2, <1>3, <2>1, Part
<1>8. SubSeq(p, 1, n) = SubSeq(w, k + 1, k + n)
  <2>1. \A i \in 1..n : 1 + i - 1 = i /\ i \in 1..(l - k)
    BY <1>2
  <2>2. \A i \in 1..n : SubSeq(p, 1, n)[i] = SubSeq(w, k + 1, k + n)[i]
    BY <1>3, <1>4, <1>5, <2>1
  <2> QED BY <1>4, <1>5, <2>2, SeqEqual
<1>9. SubSeq(p, n + 1, l - k) = SubSeq(w, k + n + 1, l)
  <2>1. \A i \in 1..((l - k) - n) : /\ n + 1 + i - 1 \in 1..(l - k)
                                    /\ k + 1 + (n + 1 + i - 1) - 1 = k + n + 1 + i - 1
    BY <1>2
  <2>2. \A i \in 1..((l - k) - n) :
          SubSeq(p, n + 1, l - k)[i] = SubSeq(w, k + n + 1, l)[i]
    BY <1>3, <1>6, <1>7, <2>1
  <2> QED BY <1>6, <1>7, <2>2, SeqEqual
<1>10. SubSeq(w, 1, k + n) = SubSeq(w, 1, k) \o SubSeq(w, k + 1, k + n)
  <2>1. /\ 1 \in 1..(Len(w) + 1) /\ k \in (1 - 1)..Len(w) /\ k + n \in k..Len(w)
    BY <1>1, <1>2
  <2> QED BY <2>1, ConcatAdjacentSubSeq
<1> QED BY <1>1, <1>3, <1>8, <1>9, <1>10

\* The flag is a truth value, whatever it was computed from.
LEMMA TailWriteFlag ==
  ASSUME NEW t, NEW p, NEW n
  PROVE  TailWrite(t, p, n).truncated \in BOOLEAN
<1>1. TailWrite(t, p, n).truncated =
        (t.truncated \/ Len(p) > n
           \/ Len(t.bytes) + Len(Last(p, n)) > n)
  BY DEF TailWrite
<1> HIDE DEF TailWrite
<1> QED BY <1>1, Zenon

-----------------------------------------------------------------------------
(* The invariant *)

LEMMA InitHolds == Init => RunnerInv
<1> SUFFICES ASSUME Init PROVE RunnerInv
  OBVIOUS
<1>1. /\ \A s \in Streams : written[s] = <<>> /\ pipe[s] = <<>> /\ Copied(s) = <<>>
      /\ \A s \in Streams : tail[s] = [bytes |-> <<>>, truncated |-> FALSE]
  BY DEF Init, Copied
<1>2. Streamed
  BY DEF Init, Streamed, NoAnswer
<1>3. Split
  <2>1. SubSeq(<<>>, 1, 0) = <<>>
    BY SubSeqEmpty
  <2>2. Len(<<>>) = 0 /\ Len(<<>>) - Len(<<>>) + 1 = 1
    OBVIOUS
  <2>3. /\ Len(<<>>) <= Len(<<>>)
        /\ <<>> = SubSeq(<<>>, Len(<<>>) - Len(<<>>) + 1, Len(<<>>))
    BY <2>1, <2>2
  <2> SUFFICES ASSUME NEW s \in Streams
               PROVE  /\ Len(pipe[s]) <= Len(written[s])
                      /\ pipe[s] = SubSeq(written[s],
                              Len(written[s]) - Len(pipe[s]) + 1, Len(written[s]))
    BY DEF Split
  <2>4. written[s] = <<>> /\ pipe[s] = <<>>
    BY <1>1
  <2> QED BY <2>3, <2>4, Zenon
<1>4. TailsAreExact
  <2> SUFFICES ASSUME NEW s \in Streams
               PROVE  /\ tail[s].bytes = Last(Copied(s), Capacity[s])
                      /\ tail[s].truncated <=> Len(Copied(s)) > Capacity[s]
    BY DEF TailsAreExact
  <2>1. Capacity[s] \in Nat
    BY RunnerAssumption DEF Capacity, Streams
  <2> QED BY <1>1, <2>1 DEF Last
<1>5. Answered /\ Killed
  BY DEF Init, Answered, Killed, NoAnswer
<1> QED BY <1>2, <1>3, <1>4, <1>5 DEF RunnerInv

\* A byte more is in the pipe.
LEMMA WriteHolds ==
  ASSUME RunnerInv, NEW s \in Streams, NEW b \in Bytes, Write(s, b)
  PROVE  RunnerInv'
<1> USE DEF RunnerInv
<1>1. /\ written[s] \in Seq(Bytes) /\ pipe[s] \in Seq(Bytes)
      /\ written'[s] = Append(written[s], b) /\ pipe'[s] = Append(pipe[s], b)
      /\ \A r \in Streams \ {s} : written'[r] = written[r] /\ pipe'[r] = pipe[r]
  BY DEF Write, Streamed
<1>2. Streamed'
  BY <1>1 DEF Write, Streamed
<1>3. /\ Len(pipe'[s]) <= Len(written'[s])
      /\ pipe'[s] = SubSeq(written'[s], Len(written'[s]) - Len(pipe'[s]) + 1,
                           Len(written'[s]))
      /\ SubSeq(written'[s], 1, Len(written'[s]) - Len(pipe'[s]))
           = SubSeq(written[s], 1, Len(written[s]) - Len(pipe[s]))
  <2>1. /\ Len(pipe[s]) <= Len(written[s])
        /\ pipe[s] = SubSeq(written[s], Len(written[s]) - Len(pipe[s]) + 1,
                            Len(written[s]))
    BY DEF Split
  <2>2. PICK u \in Seq(Bytes) : u = written[s]
    BY <1>1
  <2>3. PICK p \in Seq(Bytes) : p = pipe[s]
    BY <1>1
  <2>4. Len(p) <= Len(u) /\ p = SubSeq(u, Len(u) - Len(p) + 1, Len(u))
    BY <2>1, <2>2, <2>3, Zenon
  <2>5. /\ Len(Append(p, b)) <= Len(Append(u, b))
        /\ Append(p, b) = SubSeq(Append(u, b), Len(Append(u, b)) - Len(Append(p, b)) + 1,
                                 Len(Append(u, b)))
        /\ SubSeq(Append(u, b), 1, Len(Append(u, b)) - Len(Append(p, b)))
             = SubSeq(u, 1, Len(u) - Len(p))
    BY <2>4, AppendBoth
  <2>6. written'[s] = Append(u, b) /\ pipe'[s] = Append(p, b)
    BY <1>1, <2>2, <2>3
  <2> QED BY <2>2, <2>3, <2>5, <2>6, Zenon
<1>4. /\ Split'
      /\ \A r \in Streams : Copied(r)' = Copied(r)
  BY <1>1, <1>3 DEF Split, Copied
<1>5. TailsAreExact'
  BY <1>4 DEF TailsAreExact, Write
<1>6. Answered' /\ Killed'
  <2>1. ~answer.ok
    BY DEF Write, Answered
  <2> QED BY <2>1 DEF Write, Answered, Killed, procs
<1> QED BY <1>2, <1>4, <1>5, <1>6

\* A chunk moves from the pipe to the tail.
LEMMA CopyHolds ==
  ASSUME RunnerInv, NEW s \in Streams, Copy(s)
  PROVE  RunnerInv'
<1> USE DEF RunnerInv
<1>1. PICK n \in 1..Len(pipe[s]) :
        /\ tail' = [tail EXCEPT ![s] = TailWrite(@, SubSeq(pipe[s], 1, n), Capacity[s])]
        /\ pipe' = [pipe EXCEPT ![s] = SubSeq(@, n + 1, Len(@))]
  BY DEF Copy
<1> DEFINE w == written[s]
           p == pipe[s]
           k == Len(w) - Len(p)
<1>2. /\ w \in Seq(Bytes) /\ p \in Seq(Bytes) /\ written' = written
      /\ Len(w) \in Nat /\ Len(p) \in Nat /\ Len(p) <= Len(w)
      /\ p = SubSeq(w, k + 1, Len(w)) /\ n \in Nat /\ 1 <= n /\ n <= Len(p)
  BY <1>1 DEF Copy, Streamed, Split
<1>3. /\ Copied(s) = SubSeq(w, 1, k) /\ Copied(s) \in Seq(Bytes)
      /\ SubSeq(p, 1, n) \in Seq(Bytes) /\ SubSeq(p, n + 1, Len(p)) \in Seq(Bytes)
      /\ Len(SubSeq(p, n + 1, Len(p))) = Len(p) - n
  BY <1>2 DEF Copied
<1>4. k \in Nat /\ k + n <= Len(w) /\ Len(w) - (Len(p) - n) = k + n
  BY <1>2
<1>5. SubSeq(p, 1, n) = SubSeq(w, k + 1, k + n)
  <2> HIDE DEF k, w, p
  <2> QED BY <1>2, <1>4, TakeFirst
<1>6. /\ SubSeq(p, n + 1, Len(p)) = SubSeq(w, k + n + 1, Len(w))
      /\ SubSeq(w, 1, k + n) = SubSeq(w, 1, k) \o SubSeq(w, k + 1, k + n)
  <2> HIDE DEF k, w, p
  <2> QED BY <1>2, <1>4, TakeFirst
<1>7. pipe'[s] = SubSeq(p, n + 1, Len(p)) /\ written'[s] = w
  BY <1>1, <1>2 DEF Streamed
<1>8. Copied(s)' = Copied(s) \o SubSeq(p, 1, n)
  <2>1. Copied(s)' = SubSeq(w, 1, Len(w) - Len(pipe'[s]))
    BY <1>2 DEF Copied
  <2>2. Len(w) - Len(pipe'[s]) = k + n
    <3>1. Len(pipe'[s]) = Len(p) - n
      BY <1>3, <1>7
    <3> HIDE DEF k, w, p
    <3> QED BY <1>4, <3>1
  <2> HIDE DEF k, w, p
  <2> QED BY <1>3, <1>5, <1>6, <2>1, <2>2
<1>9. \A r \in Streams \ {s} : /\ pipe'[r] = pipe[r] /\ tail'[r] = tail[r]
                               /\ Copied(r)' = Copied(r)
  BY <1>1, <1>2 DEF Streamed, Copied
<1>10. tail'[s] = TailWrite(tail[s], SubSeq(p, 1, n), Capacity[s])
  BY <1>1 DEF Streamed
<1>11. Capacity[s] \in Nat
  BY RunnerAssumption DEF Capacity, Streams
<1>12. /\ tail'[s].bytes = Last(Copied(s)', Capacity[s])
       /\ tail'[s].truncated <=> Len(Copied(s)') > Capacity[s]
  <2>1. tail[s].bytes = Last(Copied(s), Capacity[s])
    BY DEF TailsAreExact
  <2>2. tail[s].truncated = (Len(Copied(s)) > Capacity[s])
    BY DEF TailsAreExact, Streamed
  <2>3. /\ TailWrite(tail[s], SubSeq(p, 1, n), Capacity[s]).bytes
              = Last(Copied(s) \o SubSeq(p, 1, n), Capacity[s])
        /\ TailWrite(tail[s], SubSeq(p, 1, n), Capacity[s]).truncated
              <=> Len(Copied(s) \o SubSeq(p, 1, n)) > Capacity[s]
    <3> HIDE DEF p, w, k
    <3> QED BY <1>3, <1>11, <2>1, <2>2, TailWriteIsExact
  <2> HIDE DEF p
  <2> QED BY <1>8, <1>10, <2>3
<1>13. TailsAreExact'
  <2> SUFFICES ASSUME NEW r \in Streams
               PROVE  /\ tail'[r].bytes = Last(Copied(r)', Capacity[r])
                      /\ tail'[r].truncated <=> Len(Copied(r)') > Capacity[r]
    BY DEF TailsAreExact
  <2>1. CASE r = s
    BY <1>12, <2>1
  <2>2. CASE r # s
    BY <1>9, <2>2 DEF TailsAreExact
  <2> QED BY <2>1, <2>2
<1>14. Split'
  <2> SUFFICES ASSUME NEW r \in Streams
               PROVE  /\ Len(pipe'[r]) <= Len(written'[r])
                      /\ pipe'[r] = SubSeq(written'[r],
                              Len(written'[r]) - Len(pipe'[r]) + 1, Len(written'[r]))
    BY DEF Split
  <2>1. CASE r = s
    <3>1. Len(w) - Len(pipe'[s]) + 1 = k + n + 1 /\ Len(pipe'[s]) <= Len(w)
      <4>1. Len(pipe'[s]) = Len(p) - n
        BY <1>3, <1>7
      <4>2. /\ Len(w) - (Len(p) - n) = k + n /\ Len(p) \in Nat /\ Len(w) \in Nat
            /\ n \in Nat /\ Len(p) <= Len(w)
        BY <1>2, <1>4
      <4> HIDE DEF k, w, p
      <4> QED BY <4>1, <4>2
    <3> HIDE DEF k, w, p
    <3> QED BY <1>6, <1>7, <2>1, <3>1
  <2>2. CASE r # s
    BY <1>2, <1>9, <2>2 DEF Split
  <2> QED BY <2>1, <2>2
<1>15. Streamed'
  <2>1. tail'[s].bytes \in Seq(Bytes) /\ tail'[s].truncated \in BOOLEAN
    <3>1. Copied(s) \o SubSeq(p, 1, n) \in Seq(Bytes)
      <4> HIDE DEF k, w, p
      <4> QED BY <1>3, ConcatProperties
    <3>2. tail'[s].bytes \in Seq(Bytes)
      <4> HIDE DEF k, w, p
      <4>1. Last(Copied(s) \o SubSeq(p, 1, n), Capacity[s]) \in Seq(Bytes)
        BY <1>11, <3>1, LastBytes
      <4> QED BY <1>8, <1>12, <4>1
    <3>3. TailWrite(tail[s], SubSeq(p, 1, n), Capacity[s]).truncated \in BOOLEAN
      <4> HIDE DEF k, w, p
      <4> QED BY TailWriteFlag
    <3>4. tail'[s].truncated \in BOOLEAN
      BY <1>10, <3>3
    <3> QED BY <3>2, <3>4
  <2>2. tail'[s] = [bytes |-> tail'[s].bytes, truncated |-> tail'[s].truncated]
    BY <1>10 DEF TailWrite
  <2>3. tail' \in [Streams -> [bytes : Seq(Bytes), truncated : BOOLEAN]]
    <3>1. tail'[s] \in [bytes : Seq(Bytes), truncated : BOOLEAN]
      BY <2>1, <2>2
    <3> QED BY <1>1, <1>9, <3>1 DEF Streamed
  <2>4. pipe' \in [Streams -> Seq(Bytes)]
    BY <1>1, <1>3 DEF Streamed
  <2> QED BY <1>2, <2>3, <2>4 DEF Streamed, Copy
<1>16. Answered' /\ Killed'
  <2>1. ~answer.ok
    BY DEF Copy, Answered
  <2> QED BY <2>1 DEF Copy, Answered, Killed, procs
<1> QED BY <1>13, <1>14, <1>15, <1>16

\* The other steps leave the streams alone.
LEMMA OtherHolds ==
  ASSUME RunnerInv, UNCHANGED streams,
         Answered', Killed', answer'.ok \in BOOLEAN
  PROVE  RunnerInv'
BY DEF RunnerInv, streams, Streamed, Split, TailsAreExact, Copied

\* Run's answer after its last step.
LEMMA FinishHolds == RunnerInv /\ Finish => RunnerInv'
<1> SUFFICES ASSUME RunnerInv, Finish PROVE RunnerInv'
  OBVIOUS
<1> USE DEF RunnerInv
<1>1. timer' = timer /\ failed' = failed /\ UNCHANGED streams /\ pc' = "returned"
  BY DEF Finish, streams
<1>2. failed \in BOOLEAN \/ TRUE
  OBVIOUS
<1>3. answer'.ok \in BOOLEAN /\ (answer'.ok => ~failed /\ ~tail["stdout"].truncated)
  BY DEF Finish, Output, NoAnswer
<1>4. answer'.ok => \A s \in Streams : pipe[s] = <<>>
  BY <1>3 DEF Finish, EOF, Answered
<1>5. Answered'
  BY <1>1, <1>3, <1>4 DEF Answered, streams
<1>6. Killed'
  BY DEF Finish, Killed, procs
<1> QED BY <1>1, <1>3, <1>5, <1>6, OtherHolds

LEMMA NextHolds == RunnerInv /\ [Next]_vars => RunnerInv'
<1> SUFFICES ASSUME RunnerInv, [Next]_vars PROVE RunnerInv'
  OBVIOUS
<1>0. Answered /\ Killed /\ answer.ok \in BOOLEAN
  BY DEF RunnerInv, Streamed
<1>1. CASE \E s \in Streams, b \in Bytes : Write(s, b)
  BY <1>1, WriteHolds
<1>2. CASE \E s \in Streams : Copy(s)
  BY <1>2, CopyHolds
<1>3. CASE Fork \/ Detach \/ ChildEnds \/ Ends
  <2>1. UNCHANGED <<streams, answer, pc, timer, failed, killed>>
    BY <1>3 DEF Fork, Detach, ChildEnds, Ends
  <2>2. Answered'
    BY <1>0, <2>1 DEF Answered, streams
  <2>3. Killed'
    BY <1>0, <1>3 DEF Killed, Fork, Detach, ChildEnds, Ends
  <2> QED BY <1>0, <2>1, <2>2, <2>3, OtherHolds
<1>4. CASE Cancel
  <2>1. UNCHANGED <<streams, answer, pc, timer, failed, killed, procs>>
    BY <1>4 DEF Cancel
  <2> QED BY <1>0, <2>1, OtherHolds DEF Answered, Killed, streams, procs
<1>5. CASE Kill
  <2>1. UNCHANGED <<streams, answer, pc>> /\ timer' = "running" /\ (failed => failed')
    BY <1>5 DEF Kill
  <2>2. Answered'
    BY <1>0, <2>1 DEF Answered, streams
  <2>3. Killed'
    BY <1>5 DEF Killed, Kill, Signal
  <2> QED BY <1>0, <2>1, <2>2, <2>3, OtherHolds
<1>6. CASE Reap
  <2>1. /\ UNCHANGED <<streams, answer, timer, killed, procs>> /\ (failed => failed')
        /\ pc = "wait"
    BY <1>6 DEF Reap
  <2>2. Answered'
    BY <1>0, <2>1 DEF Answered, streams
  <2> QED BY <1>0, <2>1, <2>2, OtherHolds DEF Killed, procs
<1>7. CASE Await
  <2>1. /\ UNCHANGED <<streams, answer, failed, killed, procs>>
        /\ pc = "reaped" /\ (timer' = "expired" => timer = "expired")
    BY <1>7 DEF Await
  <2>2. Answered'
    BY <1>0, <2>1 DEF Answered, streams
  <2> QED BY <1>0, <2>1, <2>2, OtherHolds DEF Killed, procs
<1>8. CASE Expire
  <2>1. UNCHANGED <<streams, answer, pc, killed, procs>> /\ failed'
    BY <1>8 DEF Expire
  <2>2. Answered'
    BY <1>0, <2>1 DEF Answered, streams
  <2> QED BY <1>0, <2>1, <2>2, OtherHolds DEF Killed, procs
<1>9. CASE Finish
  BY <1>9, FinishHolds
<1>10. CASE UNCHANGED vars
  BY <1>0, <1>10, OtherHolds DEF vars, Answered, Killed, streams, procs
<1> QED BY <1>1, <1>2, <1>3, <1>4, <1>5, <1>6, <1>7, <1>8, <1>9, <1>10
        DEF Next, Command

\* The inductive invariant: streams, tails and the flags an answer rests on.
THEOREM RunnerInvariant == Spec => []RunnerInv
BY InitHolds, NextHolds, PTL DEF Spec

-----------------------------------------------------------------------------
(* What it gives *)

\* A tail is the end of what was copied and knows whether something is missing,
\* for every capacity and however the output is cut into chunks.
THEOREM TailsHold == Spec => []TailsAreExact
<1>1. RunnerInv => TailsAreExact
  BY DEF RunnerInv
<1> QED BY <1>1, RunnerInvariant, PTL

\* An output that Run returns without an error is all that was written.
THEOREM OutputIsWhole == Spec => []WholeOutput
<1>1. RunnerInv => WholeOutput
  <2> SUFFICES ASSUME RunnerInv, answer.ok
               PROVE  /\ tail["stdout"].bytes = written["stdout"]
                      /\ tail["stderr"].bytes = Last(written["stderr"], ErrCapacity)
    BY DEF WholeOutput
  <2>1. \A s \in Streams : Copied(s) = written[s]
    <3> SUFFICES ASSUME NEW s \in Streams PROVE Copied(s) = written[s]
      OBVIOUS
    <3>1. pipe[s] = <<>> /\ written[s] \in Seq(Bytes)
      BY DEF RunnerInv, Answered, Streamed
    <3>2. Len(pipe[s]) = 0 /\ Len(written[s]) \in Nat
      BY <3>1, LenProperties
    <3> QED BY <3>1, <3>2, SubSeqFull DEF Copied
  <2>2. /\ tail["stdout"].bytes = Last(written["stdout"], OutCapacity)
        /\ tail["stderr"].bytes = Last(written["stderr"], ErrCapacity)
        /\ tail["stdout"].truncated <=> Len(written["stdout"]) > OutCapacity
    BY <2>1 DEF RunnerInv, TailsAreExact, Capacity, Streams
  <2>3. ~(Len(written["stdout"]) > OutCapacity)
    BY <2>2 DEF RunnerInv, Answered
  <2>4. Len(written["stdout"]) \in Nat
    BY LenProperties DEF RunnerInv, Streamed, Streams
  <2>5. Last(written["stdout"], OutCapacity) = written["stdout"]
    BY <2>3, <2>4, RunnerAssumption DEF Last
  <2> QED BY <2>2, <2>5
<1> QED BY <1>1, RunnerInvariant, PTL

\* A command that was killed is stopped with its process group.
THEOREM GroupIsStopped == Spec => []GroupStops
<1>1. RunnerInv => GroupStops
  BY DEF RunnerInv, Killed, GroupStops
<1> QED BY <1>1, RunnerInvariant, PTL

-----------------------------------------------------------------------------
(* Numbers *)

\* A nonempty bounded set of numbers has a largest element.
LEMMA Largest ==
  ASSUME NEW n \in Nat, NEW s \in SUBSET (0..n), s # {}
  PROVE  \E i \in s : \A j \in s : j <= i
<1> DEFINE R == OpToRel(<, Nat)
           t == {n - i : i \in s}
<1>1. \A a, b \in Nat : a < b => <<a, b>> \in R
  BY DEF OpToRel
<1>2. IsWellFoundedOn(R, Nat)
  BY NatLessThanWellFounded
<1>3. \A j \in s : n - j \in t /\ n - j \in Nat
  OBVIOUS
<1>4. \A m \in t : m \in Nat /\ \E i \in s : m = n - i
  BY <1>3
<1> HIDE DEF R, t
<1>5. t \in SUBSET Nat /\ t # {}
  BY <1>3, <1>4
<1>6. PICK m \in t : \A k \in t : ~(<<k, m>> \in R)
  BY <1>2, <1>5, WFMin
<1>7. PICK i \in s : m = n - i
  BY <1>4
<1>8. ASSUME NEW j \in s PROVE j <= i
  <2>1. ~(n - j < m)
    BY <1>1, <1>3, <1>4, <1>6
  <2> QED BY <1>3, <1>7, <2>1
<1> QED BY <1>8

-----------------------------------------------------------------------------
(* What bytes decode to *)

\* Where the rune that starts at the i-th byte is over.
Behind(b, i) == i + Width[b[i]]

\* A first byte is no continuation, and its rune has one to four bytes.
LEMMA LeadWidth ==
  ASSUME NEW x \in Leads
  PROVE  Width[x] \in 1..4 /\ x # "cont" /\ x # "bad"
  BY RunnerAssumption DEF Width

\* A rune ends inside the bytes, and only continuations follow its first byte.
LEMMA RuneEnds ==
  ASSUME NEW b, Len(b) \in Nat, NEW i \in 1..Len(b), Rune(b, i)
  PROVE  /\ b[i] \in Leads /\ b[i] # "cont"
         /\ Behind(b, i) \in (i + 1)..(Len(b) + 1) /\ Behind(b, i) <= i + 4
         /\ \A k \in (i + 1)..(Behind(b, i) - 1) : b[k] = "cont"
<1>1. b[i] \in Leads
  BY DEF Rune
<1>2. PICK w \in 1..4 : w = Width[b[i]]
  BY <1>1, LeadWidth
<1>3. i + w <= Len(b) + 1 /\ Behind(b, i) = i + w
  BY <1>2 DEF Rune, Behind
<1>4. \A k \in (i + 1)..(i + w - 1) : b[k] = "cont"
  BY <1>2 DEF Rune
<1> QED BY <1>1, <1>3, <1>4, LeadWidth

\* One step of Decoded ...
DecodeAt(f, b, i) ==
  IF i > Len(b) THEN <<>>
  ELSE IF Rune(b, i) THEN <<b[i]>> \o f[Behind(b, i)]
  ELSE IF f[i + 1] # <<>> /\ Head(f[i + 1]) = "bad" THEN f[i + 1]
  ELSE <<"bad">> \o f[i + 1]

\* ... looks at nothing but what follows.
LEMMA DecodeLooksAhead ==
  ASSUME NEW f, NEW g, NEW b, NEW i,
         i > Len(b) \/ (f[i + 1] = g[i + 1] /\ (Rune(b, i) => f[Behind(b, i)] = g[Behind(b, i)]))
  PROVE  DecodeAt(f, b, i) = DecodeAt(g, b, i)
  BY Zenon DEF DecodeAt

\* There is a function with the equation of Decoded.
LEMMA DecodedExists ==
  ASSUME NEW b, Len(b) \in Nat
  PROVE  \E f : f = [i \in 1..(Len(b) + 1) |-> DecodeAt(f, b, i)]
<1> DEFINE n == Len(b)
           Is(f, m) == f = [i \in m..(n + 1) |-> DecodeAt(f, b, i)]
           missing == {m \in 1..n : ~ \E f : Is(f, m)}
<1>0. n \in Nat
  OBVIOUS
<1>1. ASSUME NEW m \in Nat, m > n PROVE \E f : Is(f, m)
  <2> DEFINE f == [i \in m..(n + 1) |-> <<>>]
  <2>1. \A i \in m..(n + 1) : DecodeAt(f, b, i) = <<>>
    BY <1>0, <1>1 DEF DecodeAt
  <2>2. Is(f, m)
    BY <2>1
  <2> QED BY <2>2
<1>2. ASSUME NEW m \in 1..n, NEW f, Is(f, m + 1) PROVE \E g : Is(g, m)
  <2> DEFINE g == [i \in m..(n + 1) |-> IF i = m THEN DecodeAt(f, b, m) ELSE f[i]]
  <2>1. \A i \in m..(n + 1) : i # m => g[i] = f[i] /\ i \in (m + 1)..(n + 1)
    BY <1>0
  <2>2. \A i \in (m + 1)..(n + 1) : f[i] = DecodeAt(f, b, i)
    BY <1>2
  <2>3. g[m] = DecodeAt(f, b, m)
    BY <1>0
  <2> HIDE DEF g
  <2>4. ASSUME NEW i \in m..(n + 1) PROVE g[i] = DecodeAt(g, b, i)
    <3>1. i > n \/ (f[i + 1] = g[i + 1] /\ (Rune(b, i) => f[Behind(b, i)] = g[Behind(b, i)]))
      <4> SUFFICES ASSUME i <= n
                   PROVE  f[i + 1] = g[i + 1] /\ (Rune(b, i) => f[Behind(b, i)] = g[Behind(b, i)])
        BY <1>0
      <4>1. i \in 1..n /\ i + 1 \in m..(n + 1) /\ i + 1 # m
        BY <1>0
      <4>2. Rune(b, i) => Behind(b, i) \in m..(n + 1) /\ Behind(b, i) # m
        <5> SUFFICES ASSUME Rune(b, i) PROVE Behind(b, i) \in m..(n + 1) /\ Behind(b, i) # m
          OBVIOUS
        <5>1. Behind(b, i) \in (i + 1)..(n + 1)
          BY <4>1, RuneEnds
        <5> QED BY <1>0, <5>1
      <4> HIDE DEF n
      <4> QED BY <2>1, <4>1, <4>2
    <3>2. DecodeAt(f, b, i) = DecodeAt(g, b, i)
      BY <3>1, DecodeLooksAhead
    <3>3. g[i] = DecodeAt(f, b, i)
      BY <2>1, <2>2, <2>3
    <3> QED BY <3>2, <3>3
  <2>5. g = [i \in m..(n + 1) |-> g[i]]
    BY DEF g
  <2>6. Is(g, m)
    BY <2>4, <2>5
  <2> QED BY <2>6
<1>3. missing = {}
  <2> SUFFICES ASSUME missing # {} PROVE FALSE
    OBVIOUS
  <2>1. missing \in SUBSET (0..n)
    BY <1>0
  <2>2. \A m \in missing : m \in 1..n /\ ~ \E f : Is(f, m)
    OBVIOUS
  <2>3. \A m \in 1..n : m \notin missing => \E f : Is(f, m)
    OBVIOUS
  <2> HIDE DEF missing, Is, n
  <2>4. PICK m \in missing : \A k \in missing : k <= m
    BY <1>0, <2>1, Largest
  <2>5. m \in 1..n /\ m + 1 \notin missing
    BY <1>0, <2>2, <2>4
  <2>6. \E f : Is(f, m + 1)
    BY <1>0, <1>1, <2>3, <2>5
  <2> QED BY <1>2, <2>2, <2>4, <2>5, <2>6
<1>4. \E f : Is(f, 1)
  <2>1. CASE n = 0
    <3>1. 1 \in Nat /\ 1 > n
      BY <2>1
    <3> HIDE DEF Is
    <3> QED BY <1>1, <3>1
  <2>2. CASE n # 0
    <3>1. \A m \in 1..n : m \notin missing => \E f : Is(f, m)
      OBVIOUS
    <3>2. 1 \in 1..n
      BY <1>0, <2>2
    <3> HIDE DEF Is, missing
    <3> QED BY <1>3, <3>1, <3>2
  <2> QED BY <2>1, <2>2
<1> QED BY <1>4

\* Decoded is such a function.
LEMMA DecodedIs ==
  ASSUME NEW b, Len(b) \in Nat
  PROVE  \A i \in 1..(Len(b) + 1) : Decoded(b)[i] = DecodeAt(Decoded(b), b, i)
<1> DEFINE Is(f) == f = [i \in 1..(Len(b) + 1) |-> DecodeAt(f, b, i)]
<1>1. Decoded(b) = CHOOSE f : Is(f)
  BY DEF Decoded, DecodeAt, Behind
<1>2. \E f : Is(f)
  BY DecodedExists
<1> HIDE DEF Is
<1>3. Is(CHOOSE f : Is(f))
  BY <1>2
<1>4. Decoded(b) = [i \in 1..(Len(b) + 1) |-> DecodeAt(Decoded(b), b, i)]
  BY <1>1, <1>3 DEF Is
<1> QED BY <1>4

\* What a text is made of.
Runes == Leads \cup {"bad"}

\* A rune in front of a text.
LEMMA Prefixed ==
  ASSUME NEW S, NEW x \in S, NEW q \in Seq(S)
  PROVE  /\ <<x>> \o q \in Seq(S) /\ Len(<<x>> \o q) = Len(q) + 1
         /\ (<<x>> \o q)[1] = x /\ Head(<<x>> \o q) = x /\ <<x>> \o q # <<>>
         /\ \A i \in 1..Len(q) : (<<x>> \o q)[i + 1] = q[i]
<1>1. <<x>> \in Seq(S) /\ Len(<<x>>) = 1 /\ <<x>>[1] = x
  OBVIOUS
<1>2. Len(q) \in Nat
  BY LenProperties
<1>3. /\ <<x>> \o q \in Seq(S) /\ Len(<<x>> \o q) = Len(<<x>>) + Len(q)
      /\ \A i \in 1..(Len(<<x>>) + Len(q)) :
           (<<x>> \o q)[i] = IF i <= Len(<<x>>) THEN <<x>>[i] ELSE q[i - Len(<<x>>)]
  BY <1>1, ConcatProperties
<1>4. PICK r : r = <<x>> \o q
  OBVIOUS
<1>5. /\ r \in Seq(S) /\ Len(r) = Len(q) + 1
      /\ \A i \in 1..(1 + Len(q)) : r[i] = IF i <= 1 THEN x ELSE q[i - 1]
  BY <1>1, <1>2, <1>3, <1>4
<1>6. r[1] = x /\ \A i \in 1..Len(q) : r[i + 1] = q[i]
  <2>1. \A i \in 1..Len(q) : i + 1 \in 1..(1 + Len(q)) /\ ~(i + 1 <= 1) /\ (i + 1) - 1 = i
    BY <1>2
  <2>2. 1 \in 1..(1 + Len(q))
    BY <1>2
  <2> QED BY <1>5, <2>1, <2>2
<1>7. r # <<>> /\ Head(r) = r[1]
  <2>1. r # <<>>
    BY <1>2, <1>5
  <2> QED BY <1>5, <2>1, HeadTailProperties
<1> QED BY <1>4, <1>5, <1>6, <1>7

\* What decodes from each byte on is a text.
LEMMA DecodedType ==
  ASSUME NEW b, Len(b) \in Nat
  PROVE  \A i \in 1..(Len(b) + 1) : Decoded(b)[i] \in Seq(Runes)
<1> DEFINE n == Len(b)
           D == Decoded(b)
           wrong == {i \in 1..(n + 1) : D[i] \notin Seq(Runes)}
<1>1. SUFFICES ASSUME wrong # {} PROVE FALSE
  OBVIOUS
<1>2. wrong \subseteq 1..(n + 1) /\ wrong \in SUBSET (0..(n + 1)) /\ n + 1 \in Nat
  OBVIOUS
<1>3. \A i \in 1..(n + 1) : i \in wrong <=> D[i] \notin Seq(Runes)
  OBVIOUS
<1>4. \A i \in 1..(n + 1) : D[i] = DecodeAt(D, b, i)
  BY DecodedIs
<1> HIDE DEF wrong, D
<1>5. PICK i \in wrong : \A j \in wrong : j <= i
  BY <1>1, <1>2, Largest
<1>6. i \in 1..(n + 1) /\ D[i] = DecodeAt(D, b, i) /\ D[i] \notin Seq(Runes)
  BY <1>2, <1>3, <1>4, <1>5
<1>7. <<>> \in Seq(Runes)
  OBVIOUS
<1>8. i <= n
  BY <1>6, <1>7 DEF DecodeAt
<1>9. D[i + 1] \in Seq(Runes) /\ (Rune(b, i) => b[i] \in Leads /\ D[Behind(b, i)] \in Seq(Runes))
  <2>1. i \in 1..n /\ i + 1 \in 1..(n + 1) /\ ~(i + 1 <= i)
    BY <1>6, <1>8
  <2>2. ASSUME Rune(b, i) PROVE b[i] \in Leads /\ D[Behind(b, i)] \in Seq(Runes)
    <3>1. PICK j \in (i + 1)..(n + 1) : j = Behind(b, i) /\ b[i] \in Leads
      BY <2>1, <2>2, RuneEnds
    <3>2. j \in 1..(n + 1) /\ ~(j <= i)
      BY <2>1
    <3> QED BY <1>3, <1>5, <3>1, <3>2
  <2> QED BY <1>3, <1>5, <2>1, <2>2
<1>10. \A x \in Runes, q \in Seq(Runes) : <<x>> \o q \in Seq(Runes)
  BY Prefixed
<1>11. "bad" \in Runes /\ \A x \in Leads : x \in Runes
  BY DEF Runes
<1>12. DecodeAt(D, b, i) \in Seq(Runes)
  BY <1>7, <1>9, <1>10, <1>11, Zenon DEF DecodeAt
<1> QED BY <1>6, <1>12

\* Decoded, case by case.
LEMMA DecodedCases ==
  ASSUME NEW b, Len(b) \in Nat, NEW i \in 1..Len(b)
  PROVE  /\ Rune(b, i) => Decoded(b)[i] = <<b[i]>> \o Decoded(b)[Behind(b, i)]
         /\ ~Rune(b, i) => Decoded(b)[i] # <<>> /\ Head(Decoded(b)[i]) = "bad"
<1>1. i \in 1..(Len(b) + 1) /\ ~(i > Len(b)) /\ i + 1 \in 1..(Len(b) + 1)
  OBVIOUS
<1> DEFINE D == Decoded(b)
<1>2. D[i] = DecodeAt(D, b, i)
  BY <1>1, DecodedIs
<1>3. D[i + 1] \in Seq(Runes)
  BY <1>1, DecodedType
<1>4. "bad" \in Runes
  BY DEF Runes
<1> HIDE DEF D
<1>5. <<"bad">> \o D[i + 1] # <<>> /\ Head(<<"bad">> \o D[i + 1]) = "bad"
  BY <1>3, <1>4, Prefixed
<1>6. /\ Rune(b, i) => D[i] = <<b[i]>> \o D[Behind(b, i)]
      /\ ~Rune(b, i) => D[i] # <<>> /\ Head(D[i]) = "bad"
  BY <1>1, <1>2, <1>5, Zenon DEF DecodeAt
<1> QED BY <1>6 DEF D

\* Behind the last byte there is no rune.
LEMMA DecodedEnd ==
  ASSUME NEW b, Len(b) \in Nat
  PROVE  Decoded(b)[Len(b) + 1] = <<>>
<1>1. Len(b) + 1 \in 1..(Len(b) + 1) /\ Len(b) + 1 > Len(b)
  OBVIOUS
<1> QED BY <1>1, DecodedIs DEF DecodeAt

\* The end of some bytes decodes to what it decodes to inside them.
LEMMA DecodedEnds ==
  ASSUME NEW b, Len(b) \in Nat, NEW c, Len(c) \in Nat, NEW k \in Nat,
         Len(b) = k + Len(c), \A i \in 1..Len(c) : c[i] = b[k + i]
  PROVE  Decoded(c)[1] = Decoded(b)[k + 1]
<1> DEFINE n == Len(c)
           D == Decoded(b)
           C == Decoded(c)
           wrong == {i \in 1..(n + 1) : C[i] # D[k + i]}
<1>1. SUFFICES ASSUME wrong # {} PROVE FALSE
  OBVIOUS
<1>2. wrong \subseteq 1..(n + 1) /\ wrong \in SUBSET (0..(n + 1)) /\ n + 1 \in Nat
  OBVIOUS
<1>3. \A i \in 1..(n + 1) : i \in wrong <=> C[i] # D[k + i]
  OBVIOUS
<1>4. \A i \in 1..(n + 1) : C[i] = DecodeAt(C, c, i)
  BY DecodedIs
<1>4a. \A i \in 1..(Len(b) + 1) : D[i] = DecodeAt(D, b, i)
  BY DecodedIs
<1> HIDE DEF wrong, D, C
<1>5. PICK i \in wrong : \A j \in wrong : j <= i
  BY <1>1, <1>2, Largest
<1>6. i \in 1..(n + 1) /\ k + i \in 1..(Len(b) + 1) /\ C[i] # D[k + i]
  BY <1>2, <1>3, <1>5
<1>7. C[i] = DecodeAt(C, c, i) /\ D[k + i] = DecodeAt(D, b, k + i)
  BY <1>4, <1>4a, <1>6
<1>8. CASE i > n
  <2>1. k + i > Len(b)
    BY <1>6, <1>8
  <2> QED BY <1>6, <1>7, <1>8, <2>1 DEF DecodeAt
<1>9. CASE i <= n
  <2>1. /\ i \in 1..n /\ i + 1 \in 1..(n + 1) /\ ~(i + 1 <= i)
        /\ k + (i + 1) = (k + i) + 1 /\ k + i \in 1..Len(b)
    BY <1>6, <1>9
  <2>2. C[i + 1] = D[(k + i) + 1]
    BY <1>3, <1>5, <2>1
  <2>3. ~(i > n) /\ ~(k + i > Len(b)) /\ c[i] = b[k + i]
    BY <1>6, <1>9
  <2>4. Rune(c, i) <=> Rune(b, k + i)
    <3>1. CASE c[i] \in Leads
      <4>1. PICK w \in 1..4 : w = Width[c[i]]
        BY <3>1, LeadWidth
      <4>2. i + w <= n + 1 <=> (k + i) + w <= Len(b) + 1
        BY <1>6
      <4>3. i + w <= n + 1 =>
              ((\A m \in (i + 1)..(i + w - 1) : c[m] = "cont")
                 <=> \A m \in (k + i + 1)..(k + i + w - 1) : b[m] = "cont")
        <5> SUFFICES ASSUME i + w <= n + 1
                     PROVE  (\A m \in (i + 1)..(i + w - 1) : c[m] = "cont")
                              <=> \A m \in (k + i + 1)..(k + i + w - 1) : b[m] = "cont"
          OBVIOUS
        <5>1. \A m \in (i + 1)..(i + w - 1) :
                c[m] = b[k + m] /\ k + m \in (k + i + 1)..(k + i + w - 1)
          BY <2>1
        <5>2. \A m \in (k + i + 1)..(k + i + w - 1) :
                m - k \in (i + 1)..(i + w - 1) /\ k + (m - k) = m
          BY <2>1
        <5> QED BY <5>1, <5>2
      <4> QED BY <2>3, <4>1, <4>2, <4>3 DEF Rune
    <3> QED BY <2>3, <3>1 DEF Rune
  <2>5. ASSUME Rune(c, i) PROVE C[Behind(c, i)] = D[Behind(b, k + i)]
    <3>1. PICK j \in (i + 1)..(n + 1) : j = Behind(c, i)
      BY <2>1, <2>5, RuneEnds
    <3>2. PICK w \in 1..4 : w = Width[c[i]] /\ w = Width[b[k + i]]
      BY <2>1, <2>3, <2>5, RuneEnds, LeadWidth
    <3>3. Behind(b, k + i) = k + j
      BY <1>6, <3>1, <3>2 DEF Behind
    <3>4. j \in 1..(n + 1) /\ ~(j <= i)
      BY <2>1
    <3> QED BY <1>3, <1>5, <3>1, <3>3, <3>4
  <2>6. DecodeAt(C, c, i) = DecodeAt(D, b, k + i)
    <3> HIDE DEF n
    <3> QED BY <2>2, <2>3, <2>4, <2>5, Zenon DEF DecodeAt, n
  <2> QED BY <1>6, <1>7, <2>6
<1> QED BY <1>6, <1>8, <1>9

-----------------------------------------------------------------------------
(* The bytes of a text *)

\* One step of Sizes.
SizeAt(f, text, i) ==
  IF i > Len(text) THEN 0 ELSE (IF text[i] = "bad" THEN 1 ELSE Width[text[i]]) + f[i + 1]

\* There is a function with the equation of Sizes.
LEMMA SizesExist ==
  ASSUME NEW text, Len(text) \in Nat
  PROVE  \E f : f = [i \in 1..(Len(text) + 1) |-> SizeAt(f, text, i)]
<1> DEFINE n == Len(text)
           Is(f, m) == f = [i \in m..(n + 1) |-> SizeAt(f, text, i)]
           missing == {m \in 1..(n + 1) : ~ \E f : Is(f, m)}
<1>0. n \in Nat
  OBVIOUS
<1>1. \E f : Is(f, n + 1)
  <2> DEFINE f == [i \in (n + 1)..(n + 1) |-> 0]
  <2>1. \A i \in (n + 1)..(n + 1) : SizeAt(f, text, i) = 0
    BY <1>0 DEF SizeAt
  <2>2. Is(f, n + 1)
    BY <2>1
  <2> QED BY <2>2
<1>2. ASSUME NEW m \in 1..n, NEW f, Is(f, m + 1) PROVE \E g : Is(g, m)
  <2> DEFINE g == [i \in m..(n + 1) |-> IF i = m THEN SizeAt(f, text, m) ELSE f[i]]
  <2>1. \A i \in m..(n + 1) : i # m => g[i] = f[i] /\ i \in (m + 1)..(n + 1)
    BY <1>0
  <2>2. \A i \in (m + 1)..(n + 1) : f[i] = SizeAt(f, text, i)
    BY <1>2
  <2>3. g[m] = SizeAt(f, text, m)
    BY <1>0
  <2> HIDE DEF g
  <2>4. ASSUME NEW i \in m..(n + 1) PROVE g[i] = SizeAt(g, text, i)
    <3>1. i > n \/ f[i + 1] = g[i + 1]
      <4> SUFFICES ASSUME i <= n PROVE f[i + 1] = g[i + 1]
        BY <1>0
      <4>1. i + 1 \in m..(n + 1) /\ i + 1 # m
        BY <1>0
      <4> HIDE DEF n
      <4> QED BY <2>1, <4>1
    <3>2. SizeAt(f, text, i) = SizeAt(g, text, i)
      BY <3>1 DEF SizeAt
    <3>3. g[i] = SizeAt(f, text, i)
      BY <2>1, <2>2, <2>3
    <3> QED BY <3>2, <3>3
  <2>5. g = [i \in m..(n + 1) |-> g[i]]
    BY DEF g
  <2>6. Is(g, m)
    BY <2>4, <2>5
  <2> QED BY <2>6
<1>3. missing = {}
  <2> SUFFICES ASSUME missing # {} PROVE FALSE
    OBVIOUS
  <2>1. missing \in SUBSET (0..(n + 1)) /\ n + 1 \in Nat
    BY <1>0
  <2>2. \A m \in missing : m \in 1..(n + 1) /\ ~ \E f : Is(f, m)
    OBVIOUS
  <2>3. \A m \in 1..(n + 1) : m \notin missing => \E f : Is(f, m)
    OBVIOUS
  <2> HIDE DEF missing, Is, n
  <2>4. PICK m \in missing : \A k \in missing : k <= m
    BY <1>0, <2>1, Largest
  <2>5. m \in 1..n /\ m + 1 \in 1..(n + 1) /\ m + 1 \notin missing
    <3>1. m # n + 1
      BY <1>1, <2>2
    <3> QED BY <1>0, <2>2, <2>4, <3>1
  <2>6. \E f : Is(f, m + 1)
    BY <2>3, <2>5
  <2> QED BY <1>2, <2>2, <2>4, <2>5, <2>6
<1>4. \E f : Is(f, 1)
  <2>1. \A m \in 1..(n + 1) : m \notin missing => \E f : Is(f, m)
    OBVIOUS
  <2>2. 1 \in 1..(n + 1)
    BY <1>0
  <2> HIDE DEF Is, missing
  <2> QED BY <1>3, <2>1, <2>2
<1> QED BY <1>4

\* Sizes is such a function.
LEMMA SizesAre ==
  ASSUME NEW text, Len(text) \in Nat
  PROVE  \A i \in 1..(Len(text) + 1) : Sizes(text)[i] = SizeAt(Sizes(text), text, i)
<1> DEFINE Is(f) == f = [i \in 1..(Len(text) + 1) |-> SizeAt(f, text, i)]
<1>1. Sizes(text) = CHOOSE f : Is(f)
  BY DEF Sizes, SizeAt
<1>2. \E f : Is(f)
  BY SizesExist
<1> HIDE DEF Is
<1>3. Is(CHOOSE f : Is(f))
  BY <1>2
<1>4. Sizes(text) = [i \in 1..(Len(text) + 1) |-> SizeAt(Sizes(text), text, i)]
  BY <1>1, <1>3 DEF Is
<1> QED BY <1>4

\* A rune in front adds its bytes.
LEMMA SizesPrefixed ==
  ASSUME NEW x \in Runes, NEW q \in Seq(Runes)
  PROVE  Sizes(<<x>> \o q)[1] = (IF x = "bad" THEN 1 ELSE Width[x]) + Sizes(q)[1]
<1> DEFINE r == <<x>> \o q
           n == Len(q)
           A == Sizes(r)
           B == Sizes(q)
           wrong == {i \in 1..(n + 1) : A[i + 1] # B[i]}
<1>1. /\ n \in Nat /\ Len(r) = n + 1 /\ r[1] = x
      /\ \A i \in 1..n : r[i + 1] = q[i]
  BY Prefixed, LenProperties
<1> HIDE DEF r
<1>2. /\ \A i \in 1..(n + 2) : A[i] = SizeAt(A, r, i)
      /\ \A i \in 1..(n + 1) : B[i] = SizeAt(B, q, i)
  BY <1>1, SizesAre
<1>3. wrong = {}
  <2> SUFFICES ASSUME wrong # {} PROVE FALSE
    OBVIOUS
  <2>1. wrong \subseteq 1..(n + 1) /\ wrong \in SUBSET (0..(n + 1)) /\ n + 1 \in Nat
    BY <1>1
  <2>2. \A i \in 1..(n + 1) : i \in wrong <=> A[i + 1] # B[i]
    OBVIOUS
  <2> HIDE DEF wrong, A, B
  <2>3. PICK i \in wrong : \A j \in wrong : j <= i
    BY <2>1, Largest
  <2>4. i \in 1..(n + 1) /\ i + 1 \in 1..(n + 2) /\ A[i + 1] # B[i]
    BY <1>1, <2>1, <2>2, <2>3
  <2>5. A[i + 1] = SizeAt(A, r, i + 1) /\ B[i] = SizeAt(B, q, i)
    BY <1>2, <2>4
  <2>6. CASE i > n
    BY <1>1, <2>4, <2>5, <2>6 DEF SizeAt
  <2>7. CASE i <= n
    <3>1. i + 1 \in 1..(n + 1) /\ ~(i + 1 <= i) /\ ~(i + 1 > n + 1) /\ ~(i > n) /\ i \in 1..n
      BY <1>1, <2>4, <2>7
    <3>2. A[(i + 1) + 1] = B[i + 1] /\ r[i + 1] = q[i]
      BY <1>1, <2>2, <2>3, <3>1
    <3>3. SizeAt(A, r, i + 1) = SizeAt(B, q, i)
      <4> HIDE DEF n
      <4> QED BY <1>1, <3>1, <3>2 DEF SizeAt, n
    <3> QED BY <2>4, <2>5, <3>3
  <2> QED BY <1>1, <2>4, <2>6, <2>7
<1>4. A[2] = B[1]
  <2>1. 1 \in 1..(n + 1) /\ 1 + 1 = 2
    BY <1>1
  <2>2. \A i \in 1..(n + 1) : i \notin wrong => A[i + 1] = B[i]
    OBVIOUS
  <2> HIDE DEF wrong, A, B
  <2> QED BY <1>3, <2>1, <2>2
<1>5. A[1] = (IF x = "bad" THEN 1 ELSE Width[x]) + A[2]
  <2>1. 1 \in 1..(n + 2) /\ ~(1 > n + 1) /\ 1 + 1 = 2
    BY <1>1
  <2> HIDE DEF A, n
  <2>2. A[1] = SizeAt(A, r, 1)
    BY <1>2, <2>1
  <2> QED BY <1>1, <2>1, <2>2 DEF SizeAt
<1> QED BY <1>4, <1>5 DEF r

\* No rune has no byte.
LEMMA SizesEmpty == Sizes(<<>>)[1] = 0
<1>1. Len(<<>>) = 0 /\ 1 \in 1..(0 + 1) /\ 1 > 0
  OBVIOUS
<1> QED BY <1>1, SizesAre DEF SizeAt

-----------------------------------------------------------------------------
(* The text of a tail *)

\* The bytes form whole runes only.
Clean(b) == \A k \in 1..Len(Decoded(b)[1]) : Decoded(b)[1][k] # "bad"

\* What the bytes from i on decode to is the end of the text.
Aligned(b, i) ==
  LET text == Decoded(b)[1]
      rest == Decoded(b)[i]
  IN  /\ Len(rest) <= Len(text)
      /\ \A k \in 1..Len(rest) : rest[k] = text[Len(text) - Len(rest) + k]

\* The next rune of a text without damage leads from an aligned byte to another.
LEMMA AlignedNext ==
  ASSUME NEW b, Len(b) \in Nat, Clean(b), NEW i \in 1..Len(b), Aligned(b, i)
  PROVE  Rune(b, i) /\ Aligned(b, Behind(b, i))
<1> DEFINE D == Decoded(b)
<1>1. i \in 1..(Len(b) + 1) /\ 1 \in 1..(Len(b) + 1)
  OBVIOUS
<1>2. D[1] \in Seq(Runes) /\ D[i] \in Seq(Runes)
  BY <1>1, DecodedType
<1>3. /\ Len(D[i]) <= Len(D[1])
      /\ \A k \in 1..Len(D[i]) : D[i][k] = D[1][Len(D[1]) - Len(D[i]) + k]
  BY DEF Aligned
<1>4. \A k \in 1..Len(D[1]) : D[1][k] # "bad"
  BY DEF Clean
<1>5. /\ Rune(b, i) => D[i] = <<b[i]>> \o D[Behind(b, i)]
      /\ ~Rune(b, i) => D[i] # <<>> /\ Head(D[i]) = "bad"
  BY DecodedCases
<1>6. \A j \in 1..(Len(b) + 1) :
        /\ Len(D[j]) <= Len(D[1])
        /\ \A k \in 1..Len(D[j]) : D[j][k] = D[1][Len(D[1]) - Len(D[j]) + k]
        => Aligned(b, j)
  BY DEF Aligned
<1>7. Rune(b, i) => b[i] \in Runes /\ Behind(b, i) \in 1..(Len(b) + 1)
  <2> SUFFICES ASSUME Rune(b, i) PROVE b[i] \in Runes /\ Behind(b, i) \in 1..(Len(b) + 1)
    OBVIOUS
  <2>1. b[i] \in Leads /\ Behind(b, i) \in (i + 1)..(Len(b) + 1)
    BY RuneEnds
  <2> QED BY <2>1 DEF Runes
<1>8. \A j \in 1..(Len(b) + 1) : D[j] \in Seq(Runes)
  BY DecodedType
<1> HIDE DEF D
<1>9. ASSUME NEW x \in Runes, NEW j \in 1..(Len(b) + 1), D[i] = <<x>> \o D[j]
      PROVE  Aligned(b, j)
  <2>1. D[j] \in Seq(Runes)
    BY <1>8
  <2>2. Len(D[i]) = Len(D[j]) + 1 /\ \A k \in 1..Len(D[j]) : D[i][k + 1] = D[j][k]
    BY <1>9, <2>1, Prefixed
  <2>3. Len(D[j]) \in Nat /\ Len(D[i]) \in Nat /\ Len(D[1]) \in Nat
    BY <1>2, <2>1, LenProperties
  <2>4. PICK big, own, rest \in Nat :
             big = Len(D[1]) /\ own = Len(D[i]) /\ rest = Len(D[j])
    BY <2>3
  <2>5. own = rest + 1 /\ own <= big /\ rest <= big
    BY <1>3, <2>2, <2>4
  <2>6. ASSUME NEW k \in 1..rest
        PROVE  D[j][k] = D[1][big - rest + k]
    <3>1. k + 1 \in 1..own /\ big - own + (k + 1) = big - rest + k
      BY <2>5
    <3>2. D[i][k + 1] = D[1][big - own + (k + 1)]
      BY <1>3, <2>4, <3>1
    <3> QED BY <2>2, <2>4, <3>1, <3>2
  <2> QED BY <1>6, <2>4, <2>5, <2>6
<1>10. Rune(b, i)
  <2> SUFFICES ASSUME ~Rune(b, i) PROVE FALSE
    OBVIOUS
  <2>1. D[i] # <<>> /\ Head(D[i]) = "bad"
    BY <1>5
  <2>2. Len(D[i]) \in Nat /\ Len(D[1]) \in Nat /\ Len(D[i]) # 0 /\ D[i][1] = "bad"
    BY <1>2, <2>1, LenProperties, EmptySeq, HeadTailProperties
  <2>3. PICK big, own \in Nat : big = Len(D[1]) /\ own = Len(D[i])
    BY <2>2
  <2>4. 1 \in 1..own /\ big - own + 1 \in 1..big
    <3>1. own <= big
      BY <1>3, <2>3
    <3>2. own # 0
      BY <2>2, <2>3
    <3> QED BY <3>1, <3>2
  <2>5. D[i][1] = D[1][big - own + 1]
    BY <1>3, <2>3, <2>4
  <2> QED BY <1>4, <2>2, <2>3, <2>4, <2>5
<1> QED BY <1>5, <1>7, <1>9, <1>10

\* The text from an aligned byte on has as many bytes as follow it.
LEMMA AlignedSize ==
  ASSUME NEW b, Len(b) \in Nat, Clean(b)
  PROVE  \A i \in 1..(Len(b) + 1) : Aligned(b, i) => Sizes(Decoded(b)[i])[1] = Len(b) - i + 1
<1> DEFINE n == Len(b)
           Size(i) == Sizes(Decoded(b)[i])[1]
           wrong == {i \in 1..(n + 1) : Aligned(b, i) /\ Size(i) # n - i + 1}
<1>1. SUFFICES ASSUME wrong # {} PROVE FALSE
  OBVIOUS
<1>2. wrong \subseteq 1..(n + 1) /\ wrong \in SUBSET (0..(n + 1)) /\ n + 1 \in Nat
  OBVIOUS
<1>3. \A i \in 1..(n + 1) : i \in wrong <=> Aligned(b, i) /\ Size(i) # n - i + 1
  OBVIOUS
<1>4. Size(n + 1) = 0
  BY DecodedEnd, SizesEmpty
<1>5. \A i \in 1..n, j \in 1..(n + 1), x \in Leads :
        Decoded(b)[i] = <<x>> \o Decoded(b)[j] => Size(i) = Width[x] + Size(j)
  <2> TAKE i \in 1..n, j \in 1..(n + 1), x \in Leads
  <2>1. Decoded(b)[j] \in Seq(Runes)
    BY DecodedType
  <2>2. x \in Runes /\ x # "bad"
    BY LeadWidth DEF Runes
  <2> QED BY <2>1, <2>2, SizesPrefixed
<1>6. ASSUME NEW i \in 1..n, Aligned(b, i)
      PROVE  \E j \in (i + 1)..(n + 1) : Aligned(b, j) /\ Size(i) = (j - i) + Size(j)
  <2>1. Rune(b, i) /\ Aligned(b, Behind(b, i))
    BY <1>6, AlignedNext
  <2>2. /\ b[i] \in Leads /\ Behind(b, i) \in (i + 1)..(n + 1)
        /\ Decoded(b)[i] = <<b[i]>> \o Decoded(b)[Behind(b, i)]
    BY <2>1, RuneEnds, DecodedCases
  <2>3. PICK w \in 1..4 : w = Width[b[i]] /\ Behind(b, i) = i + w
    BY <2>2, LeadWidth DEF Behind
  <2> HIDE DEF Size, Aligned
  <2>4. PICK j \in (i + 1)..(n + 1) : j = Behind(b, i)
    BY <2>2
  <2>5. j \in 1..(n + 1) /\ w = j - i
    BY <2>3, <2>4
  <2>6. Size(i) = w + Size(j)
    BY <1>5, <2>2, <2>3, <2>4, <2>5
  <2>7. Aligned(b, j) /\ Size(i) = (j - i) + Size(j)
    BY <2>1, <2>4, <2>5, <2>6
  <2> QED BY <2>7
<1> HIDE DEF wrong, Size, Aligned
<1>7. PICK i \in wrong : \A j \in wrong : j <= i
  BY <1>1, <1>2, Largest
<1>8. i \in 1..(n + 1) /\ Aligned(b, i) /\ Size(i) # n - i + 1
  BY <1>2, <1>3, <1>7
<1>9. i \in 1..n
  BY <1>4, <1>8
<1>10. PICK j \in (i + 1)..(n + 1) : Aligned(b, j) /\ Size(i) = (j - i) + Size(j)
  BY <1>6, <1>8, <1>9
<1>11. j \in 1..(n + 1) /\ ~(j <= i)
  BY <1>9
<1>12. Size(j) = n - j + 1
  BY <1>3, <1>7, <1>10, <1>11
<1> QED BY <1>8, <1>9, <1>10, <1>11, <1>12

\* Each byte of a text without damage is aligned or inside a rune.
LEMMA AlignedBefore ==
  ASSUME NEW b, Len(b) \in Nat, Clean(b), NEW p \in 1..(Len(b) + 1)
  PROVE  \/ Aligned(b, p)
         \/ \E i \in 1..Len(b) : /\ Rune(b, i) /\ Aligned(b, Behind(b, i))
                                 /\ p \in (i + 1)..(Behind(b, i) - 1)
<1> DEFINE before == {i \in 1..p : Aligned(b, i)}
<1>1. before \in SUBSET (0..p) /\ p \in Nat /\ 1 \in 1..p
  OBVIOUS
<1>2. \A i \in before : i \in 1..p /\ Aligned(b, i)
  OBVIOUS
<1>3. Aligned(b, 1)
  <2>1. Decoded(b)[1] \in Seq(Runes)
    <3>1. 1 \in 1..(Len(b) + 1)
      OBVIOUS
    <3> QED BY <3>1, DecodedType
  <2>2. Len(Decoded(b)[1]) \in Nat
    BY <2>1, LenProperties
  <2> QED BY <2>2 DEF Aligned
<1>4. \A i \in 1..p : Aligned(b, i) => i \in before
  OBVIOUS
<1> HIDE DEF before, Aligned, Rune
<1>5. before # {}
  BY <1>1, <1>3, <1>4
<1>6. PICK i \in before : \A j \in before : j <= i
  BY <1>1, <1>5, Largest
<1>7. CASE i = p
  BY <1>2, <1>7
<1>8. CASE i # p
  <2>1. i \in 1..Len(b) /\ i < p /\ Aligned(b, i)
    BY <1>2, <1>8
  <2>2. Rune(b, i) /\ Aligned(b, Behind(b, i))
    BY <2>1, AlignedNext
  <2>3. PICK j \in (i + 1)..(Len(b) + 1) : j = Behind(b, i)
    BY <2>1, <2>2, RuneEnds
  <2>4. ~(j <= p)
    <3> SUFFICES ASSUME j <= p PROVE FALSE
      OBVIOUS
    <3>1. j \in 1..p /\ ~(j <= i)
      BY <2>1
    <3> QED BY <1>4, <1>6, <2>2, <2>3, <3>1
  <2>5. p \in (i + 1)..(j - 1)
    BY <2>1, <2>4
  <2> QED BY <2>1, <2>2, <2>3, <2>5
<1> QED BY <1>7, <1>8

\* Behind the continuations at a cut comes an aligned byte, at most three further.
LEMMA CutAligns ==
  ASSUME NEW b, Len(b) \in Nat, Clean(b),
         NEW p \in 1..(Len(b) + 1), NEW j \in p..(Len(b) + 1),
         \A k \in p..(j - 1) : b[k] = "cont",
         j <= Len(b) => b[j] # "cont"
  PROVE  Aligned(b, j) /\ j <= p + 3
<1>1. CASE Aligned(b, p)
  <2>1. p = j
    <3> SUFFICES ASSUME p # j PROVE FALSE
      OBVIOUS
    <3>1. p \in 1..Len(b) /\ p \in p..(j - 1)
      OBVIOUS
    <3>2. b[p] # "cont"
      BY <1>1, <3>1, AlignedNext, RuneEnds
    <3> QED BY <3>1, <3>2
  <2> QED BY <1>1, <2>1
<1>2. CASE \E i \in 1..Len(b) : /\ Rune(b, i) /\ Aligned(b, Behind(b, i))
                                /\ p \in (i + 1)..(Behind(b, i) - 1)
  <2>1. PICK i \in 1..Len(b) : /\ Rune(b, i) /\ Aligned(b, Behind(b, i))
                               /\ p \in (i + 1)..(Behind(b, i) - 1)
    BY <1>2
  <2>2. PICK e \in (i + 1)..(Len(b) + 1) :
          /\ e = Behind(b, i) /\ e <= i + 4
          /\ \A k \in (i + 1)..(e - 1) : b[k] = "cont"
    BY <2>1, RuneEnds
  <2>3. Aligned(b, e) /\ p \in (i + 1)..(e - 1)
    BY <2>1, <2>2
  <2>4. ~(j < e)
    <3> SUFFICES ASSUME j < e PROVE FALSE
      OBVIOUS
    <3>1. j \in (i + 1)..(e - 1) /\ j <= Len(b)
      BY <2>3
    <3> QED BY <2>2, <3>1
  <2>5. ~(j > e)
    <3> SUFFICES ASSUME j > e PROVE FALSE
      OBVIOUS
    <3>1. e \in 1..Len(b) /\ e \in p..(j - 1)
      BY <2>3
    <3>2. b[e] # "cont"
      BY <2>3, <3>1, AlignedNext, RuneEnds
    <3> QED BY <3>1, <3>2
  <2>6. j = e /\ e <= p + 3
    BY <2>2, <2>3, <2>4, <2>5
  <2> QED BY <2>3, <2>6
<1> QED BY <1>1, <1>2, AlignedBefore

\* There is a first byte that may start a rune, or the end.
LEMMA FirstStartIs ==
  ASSUME NEW b, Len(b) \in Nat
  PROVE  /\ FirstStart(b) \in 1..(Len(b) + 1)
         /\ \A k \in 1..(FirstStart(b) - 1) : b[k] = "cont"
         /\ FirstStart(b) <= Len(b) => b[FirstStart(b)] # "cont"
<1> DEFINE n == Len(b)
           starts == {i \in 1..(n + 1) : i <= n => b[i] # "cont"}
           R == OpToRel(<, Nat)
           Is(i) == /\ \A k \in 1..(i - 1) : b[k] = "cont"
                    /\ i <= n => b[i] # "cont"
<1>1. \A i, j \in Nat : i < j => <<i, j>> \in R
  BY DEF OpToRel
<1>2. IsWellFoundedOn(R, Nat)
  BY NatLessThanWellFounded
<1>3. starts \in SUBSET Nat /\ n + 1 \in starts
  OBVIOUS
<1>4. \A i \in 1..(n + 1) : i \in starts <=> (i <= n => b[i] # "cont")
  OBVIOUS
<1>5. starts \subseteq 1..(n + 1)
  OBVIOUS
<1> HIDE DEF starts, R
<1>6. PICK i \in starts : \A j \in starts : ~(<<j, i>> \in R)
  BY <1>2, <1>3, WFMin
<1>7. i \in 1..(n + 1) /\ Is(i)
  <2>1. i \in 1..(n + 1) /\ (i <= n => b[i] # "cont")
    BY <1>4, <1>5, <1>6
  <2>2. ASSUME NEW k \in 1..(i - 1) PROVE b[k] = "cont"
    <3>1. k \in 1..(n + 1) /\ k \in Nat /\ i \in Nat /\ k < i /\ k <= n
      BY <2>1
    <3>2. k \notin starts
      BY <1>1, <1>6, <3>1
    <3> QED BY <1>4, <3>1, <3>2
  <2> QED BY <2>1, <2>2
<1>8. FirstStart(b) = CHOOSE k \in 1..(n + 1) : Is(k)
  BY DEF FirstStart
<1> HIDE DEF Is
<1>9. FirstStart(b) \in 1..(n + 1) /\ Is(FirstStart(b))
  BY <1>7, <1>8
<1> QED BY <1>9 DEF Is

\* The text of a tail that holds the last bytes of b.
LEMMA TextOfEnd ==
  ASSUME NEW S, NEW b \in Seq(S), Clean(b), NEW n \in Nat,
         NEW t, t.bytes = Last(b, n)
  PROVE  /\ TextOf(t) = Last(ValidUTF8(b), Len(TextOf(t)))
         /\ Len(t.bytes) <= Sizes(TextOf(t))[1] + 3
<1> DEFINE cut == t.bytes
           first == FirstStart(cut)
           c == SubSeq(cut, first, Len(cut))
           p == Len(b) - Len(cut) + 1
           j == p - 1 + first
<1>1. /\ cut \in Seq(S) /\ Len(cut) <= Len(b)
      /\ Len(b) \in Nat /\ Len(cut) \in Nat
      /\ \A i \in 1..Len(cut) : cut[i] = b[Len(b) - Len(cut) + i]
      /\ \A i \in 1..Len(cut) : cut[i] \in S
  <2>1. Len(b) \in Nat
    BY LenProperties
  <2>2. /\ Last(b, n) \in Seq(S)
        /\ Len(Last(b, n)) = IF Len(b) <= n THEN Len(b) ELSE n
        /\ \A i \in 1..Len(Last(b, n)) :
             Last(b, n)[i] = b[Len(b) - Len(Last(b, n)) + i]
    BY LastBytes
  <2>3. Len(cut) = IF Len(b) <= n THEN Len(b) ELSE n
    BY <2>2
  <2>4. \A i \in 1..Len(cut) : cut[i] \in S
    BY <2>2, ElementOfSeq
  <2>5. Len(cut) <= Len(b) /\ Len(cut) \in Nat
    BY <2>1, <2>3
  <2> QED BY <2>1, <2>2, <2>4, <2>5
<1>2. /\ first \in 1..(Len(cut) + 1)
      /\ \A k \in 1..(first - 1) : cut[k] = "cont"
      /\ first <= Len(cut) => cut[first] # "cont"
  BY <1>1, FirstStartIs
<1> HIDE DEF cut, first
<1>3. p \in 1..(Len(b) + 1) /\ j \in p..(Len(b) + 1) /\ j \in 1..(Len(b) + 1)
  BY <1>1, <1>2
<1>4. \A k \in p..(j - 1) : b[k] = "cont"
  <2> TAKE k \in p..(j - 1)
  <2>1. k - p + 1 \in 1..(first - 1) /\ k - p + 1 \in 1..Len(cut)
        /\ Len(b) - Len(cut) + (k - p + 1) = k
    BY <1>1, <1>2
  <2> QED BY <1>1, <1>2, <2>1
<1>5. j <= Len(b) => b[j] # "cont"
  <2> SUFFICES ASSUME j <= Len(b) PROVE b[j] # "cont"
    OBVIOUS
  <2>1. first \in 1..Len(cut) /\ Len(b) - Len(cut) + first = j
    BY <1>1, <1>2
  <2> QED BY <1>1, <1>2, <2>1
<1>6. Aligned(b, j) /\ j <= p + 3
  <2> HIDE DEF p, j
  <2> QED BY <1>1, <1>3, <1>4, <1>5, CutAligns
<1>7. /\ Len(c) = Len(b) - (j - 1)
      /\ \A i \in 1..Len(c) : c[i] = b[(j - 1) + i]
  <2>1. /\ first \in Int /\ Len(cut) \in Int
        /\ \A i \in first..Len(cut) : cut[i] \in S
    BY <1>1, <1>2
  <2>2. /\ Len(c) = IF first <= Len(cut) THEN Len(cut) - first + 1 ELSE 0
        /\ \A i \in 1..(Len(cut) - first + 1) : c[i] = cut[first + i - 1]
    BY <2>1, SubSeqProperties
  <2> HIDE DEF c
  <2>3. Len(c) = Len(cut) - first + 1
    BY <1>1, <1>2, <2>2
  <2>4. ASSUME NEW i \in 1..Len(c) PROVE c[i] = b[(j - 1) + i]
    <3>1. first + i - 1 \in 1..Len(cut) /\ Len(b) - Len(cut) + (first + i - 1) = (j - 1) + i
      BY <1>1, <1>2, <2>3
    <3> QED BY <1>1, <2>2, <2>3, <3>1
  <2>5. Len(c) = Len(b) - (j - 1)
    BY <1>1, <1>2, <2>3
  <2> QED BY <2>4, <2>5
<1>8. TextOf(t) = Decoded(b)[j]
  <2> HIDE DEF c, p, j
  <2>1. Len(c) \in Nat /\ j - 1 \in Nat /\ Len(b) = (j - 1) + Len(c) /\ (j - 1) + 1 = j
    BY <1>1, <1>3, <1>7
  <2>2. PICK k \in Nat : k = j - 1
    BY <2>1
  <2>3. /\ Len(b) \in Nat /\ Len(c) \in Nat /\ Len(b) = k + Len(c) /\ k + 1 = j
        /\ \A i \in 1..Len(c) : c[i] = b[k + i]
    BY <1>1, <1>7, <2>1, <2>2
  <2>4. Decoded(c)[1] = Decoded(b)[j]
    <3>1. PICK d, a : d = c /\ a = b
      OBVIOUS
    <3>2. /\ Len(a) \in Nat /\ Len(d) \in Nat /\ Len(a) = k + Len(d)
          /\ \A i \in 1..Len(d) : d[i] = a[k + i]
      BY <2>3, <3>1
    <3>3. Decoded(d)[1] = Decoded(a)[k + 1]
      BY <3>2, DecodedEnds
    <3> QED BY <2>3, <3>1, <3>3
  <2> QED BY <2>4 DEF TextOf, ValidUTF8, c, first, cut
<1>9. ValidUTF8(b) = Decoded(b)[1]
  BY DEF ValidUTF8
<1>10. Decoded(b)[j] = Last(Decoded(b)[1], Len(Decoded(b)[j]))
  <2>1. 1 \in 1..(Len(b) + 1)
    BY <1>1
  <2>2. PICK text, rest \in Seq(Runes) : text = Decoded(b)[1] /\ rest = Decoded(b)[j]
    <3> HIDE DEF p, j
    <3> QED BY <1>1, <1>3, <2>1, DecodedType
  <2>3. /\ Len(rest) <= Len(text)
        /\ \A k \in 1..Len(rest) : rest[k] = text[Len(text) - Len(rest) + k]
    BY <1>6, <2>2 DEF Aligned
  <2>4. Len(text) \in Nat /\ Len(rest) \in Nat
    BY LenProperties
  <2>5. /\ Last(text, Len(rest)) \in Seq(Runes)
        /\ Len(Last(text, Len(rest))) = IF Len(text) <= Len(rest) THEN Len(text) ELSE Len(rest)
        /\ \A i \in 1..Len(Last(text, Len(rest))) :
             Last(text, Len(rest))[i] = text[Len(text) - Len(Last(text, Len(rest))) + i]
    BY <2>4, LastBytes
  <2>6. Len(Last(text, Len(rest))) = Len(rest)
    BY <2>3, <2>4, <2>5
  <2>7. rest = Last(text, Len(rest))
    <3>1. PICK l \in Seq(Runes) : l = Last(text, Len(rest))
      BY <2>5
    <3>2. Len(l) = Len(rest) /\ \A i \in 1..Len(rest) : l[i] = rest[i]
      BY <2>3, <2>5, <2>6, <3>1
    <3>3. l = rest
      BY <3>2, SeqEqual
    <3> QED BY <3>1, <3>3
  <2> QED BY <2>2, <2>7
<1>11. Sizes(Decoded(b)[j])[1] = Len(b) - j + 1
  <2>1. j \in 1..(Len(b) + 1)
    BY <1>1, <1>3
  <2> HIDE DEF p, j
  <2> QED BY <1>1, <1>6, <2>1, AlignedSize
<1>12. Len(cut) <= Sizes(Decoded(b)[j])[1] + 3
  BY <1>1, <1>2, <1>6, <1>11
<1> HIDE DEF p, j
<1> QED BY <1>8, <1>9, <1>10, <1>12 DEF cut

-----------------------------------------------------------------------------
(* The text and the types *)

\* What was copied are bytes.
LEMMA CopiedBytes == RunnerInv => \A s \in Streams : Copied(s) \in Seq(Bytes)
<1> SUFFICES ASSUME RunnerInv, NEW s \in Streams PROVE Copied(s) \in Seq(Bytes)
  OBVIOUS
<1>1. written[s] \in Seq(Bytes) /\ pipe[s] \in Seq(Bytes) /\ Len(pipe[s]) <= Len(written[s])
  BY DEF RunnerInv, Streamed, Split
<1>2. Len(written[s]) \in Nat /\ Len(pipe[s]) \in Nat
  BY <1>1, LenProperties
<1>3. \A i \in 1..(Len(written[s]) - Len(pipe[s])) : written[s][i] \in Bytes
  <2> TAKE i \in 1..(Len(written[s]) - Len(pipe[s]))
  <2>1. i \in 1..Len(written[s])
    BY <1>1, <1>2
  <2> QED BY <1>1, <2>1, ElementOfSeq
<1>4. Len(written[s]) - Len(pipe[s]) \in Int
  BY <1>2
<1> QED BY <1>3, <1>4, SubSeqProperties DEF Copied

\* Text, for every output and every capacity: a cut damages no rune, and costs
\* at most the three bytes of one that it went through.
THEOREM TextHolds == Spec => []TextIsWhole
<1>1. RunnerInv => TextIsWhole
  <2> SUFFICES ASSUME RunnerInv, NEW s \in Streams, Clean(Copied(s))
               PROVE  /\ TextOf(tail[s]) = Last(ValidUTF8(Copied(s)), Len(TextOf(tail[s])))
                      /\ Len(tail[s].bytes) <= Sizes(TextOf(tail[s]))[1] + 3
    BY DEF TextIsWhole, ValidUTF8, Clean
  <2>1. Copied(s) \in Seq(Bytes)
    BY CopiedBytes
  <2>2. tail[s].bytes = Last(Copied(s), Capacity[s]) /\ Capacity[s] \in Nat
    BY RunnerAssumption DEF RunnerInv, TailsAreExact, Capacity, Streams
  <2> QED BY <2>1, <2>2, TextOfEnd
<1> QED BY <1>1, RunnerInvariant, PTL

\* The flags have their types ...
Flags ==
  /\ pc \in {"wait", "reaped", "copying", "returned"}
  /\ leader \in {"running", "succeeded", "failed"}
  /\ child \in {"none", "running", "detached", "gone"}
  /\ canceled \in BOOLEAN
  /\ killed \in BOOLEAN
  /\ timer \in {"off", "running", "expired"}
  /\ failed \in BOOLEAN

\* ... whatever the streams do.
LEMMA FlagsHold == Flags /\ [Next]_vars => Flags'
<1> SUFFICES ASSUME Flags, [Next]_vars PROVE Flags'
  OBVIOUS
<1> USE DEF Flags
<1>1. ASSUME Command PROVE Flags'
  BY <1>1 DEF Command, Write, Fork, Detach, ChildEnds, Ends, procs, streams
<1>2. ASSUME NEW s \in Streams, Copy(s) PROVE Flags'
  BY <1>2 DEF Copy, procs
<1>3. ASSUME Cancel \/ Kill \/ Reap \/ Await \/ Expire PROVE Flags'
  BY <1>3 DEF Cancel, Kill, Signal, Reap, Await, Expire, procs, streams
<1>4. ASSUME Finish PROVE Flags'
  BY <1>4 DEF Finish, procs
<1>5. CASE UNCHANGED vars
  BY <1>5 DEF vars, procs
<1> QED BY <1>1, <1>2, <1>3, <1>4, <1>5 DEF Next

\* The types, and that a tail stays within its capacity.
THEOREM TypeCorrect == Spec => []TypeOK
<1>1. Init => Flags
  BY DEF Init, Flags
<1>2. RunnerInv /\ Flags => TypeOK
  <2> SUFFICES ASSUME RunnerInv, Flags PROVE TypeOK
    OBVIOUS
  <2>1. ASSUME NEW s \in Streams PROVE Len(tail[s].bytes) <= Capacity[s]
    <3>1. Copied(s) \in Seq(Bytes)
      BY CopiedBytes
    <3>2. tail[s].bytes = Last(Copied(s), Capacity[s]) /\ Capacity[s] \in Nat
      BY RunnerAssumption DEF RunnerInv, TailsAreExact, Capacity, Streams
    <3>3. Len(tail[s].bytes) = IF Len(Copied(s)) <= Capacity[s] THEN Len(Copied(s)) ELSE Capacity[s]
      BY <3>1, <3>2, LastBytes
    <3>4. Len(Copied(s)) \in Nat
      BY <3>1, LenProperties
    <3> QED BY <3>2, <3>3, <3>4
  <2> QED BY <2>1 DEF TypeOK, Flags, RunnerInv, Streamed
<1> QED BY <1>1, <1>2, FlagsHold, RunnerInvariant, PTL DEF Spec
=============================================================================
