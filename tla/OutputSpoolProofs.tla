-------------------------- MODULE OutputSpoolProofs --------------------------
(***************************************************************************)
(* Theorems about OutputSpool, for every text, quota and page size.        *)
(***************************************************************************)
EXTENDS OutputSpool, SequenceTheorems, TLAPS

(* The worker's counters describe the files and account for every byte, as *)
(* long as no append failed; a byte is dropped only when the quota is full.*)
WorkerInv ==
    /\ QuotaHeld
    /\ NoGap
    /\ \A s \in Streams : read[s] <= Len(text[s])
    /\ ~failed =>
          /\ \A s \in Streams : bytes[s] = Len(spool[s])
          /\ bytes["stdout"] + bytes["stderr"] + dropped = read["stdout"] + read["stderr"]
          /\ dropped > 0 => bytes["stdout"] + bytes["stderr"] = MaxBytes
    /\ manifest # NoManifest =>
          /\ worker = "gone" /\ ~failed
          /\ manifest = [stdout |-> bytes["stdout"], stderr |-> bytes["stderr"],
                         dropped |-> dropped]

(* What the reader saw still holds: files only grow, a manifest stays.     *)
ReaderInv ==
    /\ view.bytes <= Len(spool[view.stream])
    /\ view.finalized => manifest # NoManifest
    /\ step = "opened" /\ view.finalized => view.dropped = manifest.dropped
    /\ \A s \in Streams : page[s].complete =>
          /\ manifest # NoManifest
          /\ page[s].truncated <=> manifest.dropped > 0

SpoolInv == WorkerInv /\ ReaderInv /\ CursorAdvances /\ PagesWhole

-----------------------------------------------------------------------------
(* A character is one to four bytes wide.                                  *)
LEMMA WidthBound == \A b : Width(b) \in 1 .. 4
BY DEF Width

(* What Write does to the file of its stream and to the other.             *)
LEMMA WriteExtends ==
    ASSUME TypeOK, SpoolAssumption, NoGap,
           NEW s \in Streams, NEW k \in Nat, Write(s, k),
           read[s] + k <= Len(text[s]), k > 0 => Len(spool[s]) = read[s]
    PROVE  /\ spool' \in [Streams -> Seq(Bytes)]
           /\ \A r \in Streams :
                 /\ Len(spool[r]) \in Nat
                 /\ r = s => Len(spool'[r]) = Len(spool[r]) + k
                 /\ r # s => Len(spool'[r]) = Len(spool[r])
                 /\ \A i \in 1 .. Len(spool'[r]) : spool'[r][i] = text[r][i]
<1> DEFINE new == SubSeq(text[s], read[s] + 1, read[s] + k)
<1>1. text[s] \in Seq(Bytes) /\ spool[s] \in Seq(Bytes) /\ read[s] \in Nat
  BY DEF TypeOK, SpoolAssumption
<1>2. \A i \in read[s] + 1 .. read[s] + k : i \in 1 .. Len(text[s])
  BY <1>1
<1>3. /\ new \in Seq(Bytes) /\ Len(new) = k
      /\ \A i \in 1 .. k : new[i] = text[s][read[s] + i]
  <2> DEFINE m == read[s] + 1
             n == read[s] + k
  <2>1. m \in 1 .. Len(text[s]) + 1 /\ n \in m - 1 .. Len(text[s])
    BY <1>1, SMTT(30)
  <2>2. /\ n - m + 1 = k /\ (m <= n => n - m + 1 = k) /\ (~(m <= n) => k = 0)
        /\ \A i \in 1 .. k : m + i - 1 = read[s] + i
    BY <1>1, SMTT(30)
  <2> HIDE DEF m, n
  <2>3. /\ SubSeq(text[s], m, n) \in Seq(Bytes)
        /\ Len(SubSeq(text[s], m, n)) = IF m <= n THEN n - m + 1 ELSE 0
        /\ \A i \in 1 .. n - m + 1 : SubSeq(text[s], m, n)[i] = text[s][m + i - 1]
    BY <1>1, <2>1, SubSeqProperties
  <2>4. new = SubSeq(text[s], m, n)
    BY DEF m, n
  <2> HIDE DEF new
  <2> QED BY <2>2, <2>3, <2>4
<1> HIDE DEF new
<1>4. /\ spool[s] \o new \in Seq(Bytes)
      /\ Len(spool[s] \o new) = Len(spool[s]) + k
      /\ \A i \in 1 .. Len(spool[s]) + k :
            (spool[s] \o new)[i] = IF i <= Len(spool[s]) THEN spool[s][i]
                                   ELSE new[i - Len(spool[s])]
  <2>1. /\ spool[s] \o new \in Seq(Bytes)
        /\ Len(spool[s] \o new) = Len(spool[s]) + Len(new)
        /\ \A i \in 1 .. Len(spool[s]) + Len(new) :
              (spool[s] \o new)[i] = IF i <= Len(spool[s]) THEN spool[s][i]
                                     ELSE new[i - Len(spool[s])]
    BY <1>1, <1>3, ConcatProperties, ZenonT(30)
  <2> QED BY <2>1, <1>3
<1>5. spool' = [spool EXCEPT ![s] = spool[s] \o new]
  BY DEF Write, new
<1>6. spool'[s] = spool[s] \o new /\ \A r \in Streams \ {s} : spool'[r] = spool[r]
  BY <1>5 DEF TypeOK
<1>7. spool' \in [Streams -> Seq(Bytes)]
  BY <1>4, <1>5 DEF TypeOK
<1>8. ASSUME NEW i \in 1 .. Len(spool'[s])  PROVE spool'[s][i] = text[s][i]
  <2>1. i \in 1 .. Len(spool[s]) + k /\ Len(spool[s]) \in Nat
    BY <1>1, <1>4, <1>6, LenProperties
  <2>2. CASE i <= Len(spool[s])
    BY <2>1, <2>2, <1>4, <1>6 DEF NoGap
  <2>3. CASE i > Len(spool[s])
    <3>1. k > 0 /\ i - Len(spool[s]) \in 1 .. k
      BY <2>1, <2>3
    <3>2. new[i - Len(spool[s])] = text[s][read[s] + (i - Len(spool[s]))]
      BY <3>1, <1>3
    <3>3. read[s] + (i - Len(spool[s])) = i
      BY <3>1, <2>1, <1>1
    <3> QED BY <3>2, <3>3, <2>1, <2>3, <1>4, <1>6
  <2> QED BY <2>1, <2>2, <2>3
<1>9. ASSUME NEW r \in Streams, NEW i \in 1 .. Len(spool'[r])
      PROVE  spool'[r][i] = text[r][i]
  BY <1>6, <1>8, ZenonT(30) DEF NoGap
<1>10. \A r \in Streams : Len(spool[r]) \in Nat
  BY LenProperties DEF TypeOK
<1>11. ASSUME NEW r \in Streams
       PROVE  /\ r = s => Len(spool'[r]) = Len(spool[r]) + k
              /\ r # s => Len(spool'[r]) = Len(spool[r])
  BY <1>4, <1>6
<1> QED BY <1>7, <1>9, <1>10, <1>11

(* A page of at least four bytes ends after its cursor unless no bytes are *)
(* left; before the end it stops at a byte that starts a character, or is  *)
(* full and its last character is not cut.                                 *)
LEMMA PageEnd ==
    ASSUME NEW file \in Seq(Bytes), NEW cursor \in Nat, NEW size \in Nat, NEW max \in Nat,
           cursor <= size, size <= Len(file), max >= 4
    PROVE  LET next == pageEnd(file, cursor, size, max) IN
           /\ next \in cursor .. size
           /\ cursor < size => cursor < next
           /\ next < size =>
                 \/ file[next + 1] # "cont"
                 \/ /\ next = cursor + max
                    /\ \A first \in cursor + 1 .. next :
                          ~ /\ first + Width(file[first]) > next + 1
                            /\ \A i \in first .. next : file[i] = "cont" <=> i > first
<1> DEFINE length == Least(max, size - cursor)
           buffer == SubSeq(file, cursor + 1, cursor + length)
           next == pageEnd(file, cursor, size, max)
<1>1. length \in Nat /\ cursor + length <= size /\ (cursor + length < size => length = max)
  BY DEF Least
<1>2. Len(file) \in Nat
  BY LenProperties
<1>3. \A i \in cursor + 1 .. cursor + length : i \in 1 .. Len(file)
  BY <1>1, <1>2
<1>4. /\ buffer \in Seq(Bytes) /\ Len(buffer) = length
      /\ \A i \in 1 .. length : buffer[i] = file[cursor + i]
  BY <1>1, <1>3, SubSeqProperties, SMT
<1>5. next = cursor + (IF cursor + length < size THEN safeLength(buffer) ELSE length)
  BY DEF pageEnd
<1> HIDE DEF buffer, length, next
<1>6. CASE ~(cursor + length < size)
  BY <1>1, <1>5, <1>6 DEF next
<1>7. ASSUME cursor + length < size, NEW lead \in 0 .. length - 1, CutOff(buffer, lead),
             safeLength(buffer) = lead
      PROVE  next \in cursor .. size /\ cursor < next /\ next < size /\ file[next + 1] # "cont"
  <2>1. next = cursor + lead /\ length >= 4
    BY <1>1, <1>5, <1>7
  <2>2. lead + 4 > length
    BY <1>1, <1>4, <1>7, WidthBound, SMTT(30) DEF CutOff
  <2>3. buffer[lead + 1] = file[cursor + (lead + 1)] /\ buffer[lead + 1] # "cont"
    BY <1>1, <1>4, <1>7 DEF CutOff
  <2>4. cursor + (lead + 1) = next + 1
    BY <2>1
  <2> QED BY <1>1, <2>1, <2>2, <2>3, <2>4
<1>8. ASSUME cursor + length < size, \A lead \in 0 .. length - 1 : ~CutOff(buffer, lead)
      PROVE  /\ next = cursor + max /\ next \in cursor .. size /\ cursor < next
             /\ \A first \in cursor + 1 .. next :
                   ~ /\ first + Width(file[first]) > next + 1
                     /\ \A i \in first .. next : file[i] = "cont" <=> i > first
  <2>1. safeLength(buffer) = length /\ length = max /\ next = cursor + max
    BY <1>1, <1>4, <1>5, <1>8 DEF safeLength
  <2>2. ASSUME NEW first \in cursor + 1 .. next, first + Width(file[first]) > next + 1,
               \A i \in first .. next : file[i] = "cont" <=> i > first
        PROVE  FALSE
    <3>1. PICK lead \in 0 .. length - 1 : first = cursor + (lead + 1)
      <4>1. first - cursor - 1 \in 0 .. length - 1 /\ first = cursor + ((first - cursor - 1) + 1)
        BY <1>1, <2>1
      <4> QED BY <4>1
    <3>2. buffer[lead + 1] = file[first] /\ file[first] # "cont"
      BY <1>1, <1>4, <2>1, <2>2, <3>1
    <3>3. lead + Width(buffer[lead + 1]) > Len(buffer)
      <4>1. Width(file[first]) \in 1 .. 4
        BY WidthBound
      <4> DEFINE w == Width(file[first])
      <4>2. w \in 1 .. 4 /\ first + w > next + 1 /\ Len(buffer) = length
        BY <4>1, <1>4, <2>2
      <4> HIDE DEF w
      <4>3. lead + w > Len(buffer)
        BY <1>1, <2>1, <3>1, <4>2
      <4> QED BY <3>2, <4>3 DEF w
    <3>4. ASSUME NEW i \in lead + 2 .. Len(buffer)  PROVE buffer[i] = "cont"
      <4>1. i \in 1 .. length /\ cursor + i \in first .. next /\ cursor + i > first
        BY <1>1, <1>4, <2>1, <3>1
      <4> QED BY <4>1, <1>4, <2>2
    <3>5. CutOff(buffer, lead)
      BY <3>2, <3>3, <3>4 DEF CutOff
    <3> QED BY <3>5, <1>8
  <2> QED BY <1>1, <2>1, <2>2
<1>9. CASE cursor + length < size
  <2>1. CASE \E lead \in 0 .. length - 1 : CutOff(buffer, lead)
    <3>1. PICK lead \in 0 .. length - 1 : CutOff(buffer, lead) /\ safeLength(buffer) = lead
      BY <1>4, <2>1 DEF safeLength
    <3> QED BY <1>7, <1>9, <3>1 DEF next
  <2>2. CASE \A lead \in 0 .. length - 1 : ~CutOff(buffer, lead)
    BY <1>8, <1>9, <2>2 DEF next
  <2> QED BY <2>1, <2>2
<1> QED BY <1>6, <1>9

(* A page that stops before the bytes it knew of stops between characters. *)
LEMMA PageWhole ==
    ASSUME NEW t \in Seq(Bytes), WellFormed(t),
           NEW file \in Seq(Bytes), Len(file) <= Len(t),
           \A i \in 1 .. Len(file) : file[i] = t[i],
           NEW cursor \in Nat, NEW size \in Nat, NEW max \in Nat,
           cursor <= size, size <= Len(file), max >= 4,
           pageEnd(file, cursor, size, max) < size
    PROVE  Boundary(t, pageEnd(file, cursor, size, max))
<1> DEFINE next == pageEnd(file, cursor, size, max)
<1>1. /\ next \in cursor .. size /\ cursor < next
      /\ \/ file[next + 1] # "cont"
         \/ /\ next = cursor + max
            /\ \A first \in cursor + 1 .. next :
                  ~ /\ first + Width(file[first]) > next + 1
                    /\ \A i \in first .. next : file[i] = "cont" <=> i > first
  BY PageEnd
<1> HIDE DEF next
<1>2. next < size
  BY DEF next
<1>3. Len(t) \in Nat /\ Len(file) \in Nat
  BY LenProperties
<1>4. next \in 1 .. Len(t) /\ next + 1 \in 1 .. Len(file)
  BY <1>1, <1>2, <1>3
<1>5. t[next + 1] # "cont"
  <2>1. SUFFICES ASSUME t[next + 1] = "cont"  PROVE FALSE
    OBVIOUS
  <2>2. next + 1 \in 1 .. Len(t)
    BY <1>3, <1>4
  <2>3. PICK first \in 1 .. next :
            t[first] # "cont" /\ Width(t[first]) > next + 1 - first
    <3> DEFINE at == next + 1
    <3>1. at \in 1 .. Len(t) /\ t[at] = "cont"
      BY <2>1, <2>2
    <3> HIDE DEF at
    <3>2. \A i \in 1 .. Len(t) : t[i] = "cont" =>
             \E l \in 1 .. i - 1 : t[l] # "cont" /\ Width(t[l]) > i - l
      BY Zenon DEF WellFormed
    <3>3. \E l \in 1 .. at - 1 : t[l] # "cont" /\ Width(t[l]) > at - l
      BY <3>1, <3>2, Zenon
    <3>4. at - 1 = next /\ at = next + 1
      BY <1>4 DEF at
    <3>5. PICK l \in 1 .. next : t[l] # "cont" /\ Width(t[l]) > at - l
      BY <3>3, <3>4
    <3> QED BY <3>4, <3>5
  <2>4. Width(t[first]) \in 1 .. 4
    BY WidthBound
  <2> DEFINE w == Width(t[first])
  <2>5. w \in 1 .. 4 /\ w > next + 1 - first
    BY <2>3, <2>4
  <2>6. file[next + 1] = "cont"
    BY <1>4, <2>1
  <2> HIDE DEF w
  <2>7. first \in cursor + 1 .. next
    BY <1>1, <1>4, <2>3, <2>5, <2>6
  <2>8. ASSUME NEW i \in first .. next  PROVE file[i] = "cont" <=> i > first
    <3>1. i \in 1 .. Len(t) /\ i \in 1 .. Len(file) /\ file[i] = t[i]
      BY <1>3, <1>4, <2>3
    <3>2. CASE i = first
      BY <2>3, <3>1, <3>2
    <3>3. CASE i > first
      <4>1. first \in 1 .. i - 1 /\ w > i - first
        BY <1>4, <2>3, <2>5, <3>3
      <4>2. t[i] = "cont"
        BY <2>3, <3>1, <4>1 DEF WellFormed, w
      <4> QED BY <3>1, <3>3, <4>2
    <3> QED BY <3>2, <3>3, <1>4, <2>3
  <2>9. first + Width(file[first]) > next + 1
    <3>1. first \in 1 .. Len(file)
      BY <1>3, <1>4, <2>3
    <3>2. Width(file[first]) = w
      BY <3>1 DEF w
    <3> QED BY <1>4, <2>3, <2>5, <3>2
  <2> QED BY <1>1, <2>6, <2>7, <2>8, <2>9
<1> QED BY <1>4, <1>3, <1>5 DEF Boundary, next

-----------------------------------------------------------------------------
LEMMA SpoolInit == ASSUME SpoolAssumption, Init  PROVE TypeOK /\ SpoolInv
<1>1. NoManifest \notin Manifests
  BY DEF SpoolAssumption, Manifests
<1>2. \A s \in Streams : text[s] \in Seq(Bytes) /\ Len(text[s]) \in Nat
  BY LenProperties DEF SpoolAssumption, Init
<1>3. << >> \in Seq(Bytes) /\ Len(<< >>) = 0
  BY EmptySeq
<1>4. TypeOK
  BY <1>1, <1>3 DEF Init, TypeOK, Streams, Views, Pages, EmptyView
<1>5. WorkerInv
  BY <1>1, <1>2, <1>3 DEF Init, WorkerInv, QuotaHeld, NoGap, Streams, SpoolAssumption
<1>6. ReaderInv /\ CursorAdvances /\ PagesWhole
  BY <1>1, <1>3 DEF Init, ReaderInv, CursorAdvances, PagesWhole, EmptyView, Streams
<1> QED BY <1>4, <1>5, <1>6 DEF SpoolInv

(* append writes no more than the chunk.                                   *)
LEMMA WrittenBound ==
    ASSUME TypeOK, SpoolAssumption, NEW n \in Nat
    PROVE  available \in Nat /\ Least(n, available) \in 0 .. n
<1>1. bytes["stdout"] \in Nat /\ bytes["stderr"] \in Nat /\ MaxBytes \in Nat
  BY DEF TypeOK, SpoolAssumption, Streams
<1>2. available \in Nat
  BY <1>1 DEF available
<1> HIDE DEF available
<1> QED BY <1>2 DEF Least

(* While no append failed, a stream with room for k more bytes has nothing *)
(* missing, and its next k bytes may be written.                           *)
LEMMA RoomMeansNoGap ==
    ASSUME TypeOK, SpoolAssumption, WorkerInv, ~failed,
           NEW s \in Streams, NEW n \in Nat, NEW k \in Nat, k <= Least(n, available),
           n \in 1 .. Len(text[s]) - read[s]
    PROVE  /\ read[s] + k <= Len(text[s])
           /\ k > 0 => Len(spool[s]) = read[s]
           /\ available \in Nat
           /\ k <= n
           /\ k > 0 => bytes["stdout"] + bytes["stderr"] + k <= MaxBytes
           /\ Least(n, available) < n =>
                 bytes["stdout"] + bytes["stderr"] + Least(n, available) = MaxBytes
           /\ Least(n, available) \in 0 .. n
<1>1. /\ bytes["stdout"] \in Nat /\ bytes["stderr"] \in Nat /\ dropped \in Nat
      /\ read["stdout"] \in Nat /\ read["stderr"] \in Nat /\ MaxBytes \in Nat
  BY DEF TypeOK, SpoolAssumption, Streams
<1>2. /\ Len(spool["stdout"]) = bytes["stdout"] /\ Len(spool["stderr"]) = bytes["stderr"]
      /\ Len(spool["stdout"]) <= read["stdout"] /\ Len(spool["stderr"]) <= read["stderr"]
      /\ bytes["stdout"] + bytes["stderr"] + dropped = read["stdout"] + read["stderr"]
      /\ dropped > 0 => bytes["stdout"] + bytes["stderr"] = MaxBytes
      /\ bytes["stdout"] + bytes["stderr"] <= MaxBytes
  BY DEF WorkerInv, NoGap, QuotaHeld, Streams
<1>3. text[s] \in Seq(Bytes) /\ Len(text[s]) \in Nat /\ read[s] \in Nat
  BY LenProperties DEF TypeOK, SpoolAssumption
<1>4. available \in Nat /\ bytes["stdout"] + bytes["stderr"] + available = MaxBytes
  <2>1. bytes["stdout"] + bytes["stderr"] <= MaxBytes
    BY <1>2
  <2> QED BY <1>1, <2>1, SMTT(30) DEF available
<1> HIDE DEF available
<1>5. k <= n /\ k <= available /\ read[s] + k <= Len(text[s])
  BY <1>3, <1>4, SMTT(30) DEF Least
<1>6. ASSUME k > 0  PROVE Len(spool[s]) = read[s]
  <2>1. bytes["stdout"] + bytes["stderr"] < MaxBytes
    BY <1>1, <1>4, <1>5, <1>6
  <2>2. dropped = 0
    BY <1>1, <1>2, <2>1
  <2>3. bytes["stdout"] = read["stdout"] /\ bytes["stderr"] = read["stderr"]
    BY <1>1, <1>2, <2>2, SMTT(30)
  <2> QED BY <1>2, <2>3 DEF Streams
<1> QED BY <1>1, <1>4, <1>5, <1>6, SMTT(30) DEF Least

(* What the reader knows survives a step that only lets files grow and     *)
(* keeps a committed manifest.                                             *)
LEMMA ReaderKept ==
    ASSUME SpoolInv, TypeOK, UNCHANGED <<text, step, view, page>>,
           \A s \in Streams : Len(spool'[s]) >= Len(spool[s]),
           \A s \in Streams : Len(spool'[s]) \in Nat,
           manifest # NoManifest => manifest' = manifest
    PROVE  ReaderInv' /\ CursorAdvances' /\ PagesWhole'
<1>1. view.stream \in Streams /\ view.bytes \in Nat /\ Len(spool[view.stream]) \in Nat
  BY LenProperties DEF TypeOK, Views
<1>2. (view.bytes <= Len(spool[view.stream]))'
  BY <1>1 DEF SpoolInv, ReaderInv
<1>3. ReaderInv'
  BY <1>2 DEF SpoolInv, ReaderInv
<1>4. CursorAdvances' /\ PagesWhole'
  BY DEF SpoolInv, CursorAdvances, PagesWhole
<1> QED BY <1>3, <1>4

LEMMA CollectStep ==
    ASSUME TypeOK, SpoolAssumption, SpoolInv,
           NEW s \in Streams, NEW n \in Nat, Collect(s, n)
    PROVE  TypeOK' /\ SpoolInv'
<1> DEFINE written == Least(n, available)
<1>1. /\ n \in 1 .. Len(text[s]) - read[s] /\ ~failed /\ worker = "collecting"
      /\ Write(s, written)
      /\ bytes' = [bytes EXCEPT ![s] = @ + written]
      /\ dropped' = dropped + (n - written)
      /\ read' = [read EXCEPT ![s] = @ + n]
      /\ UNCHANGED <<text, failed, worker, manifest, step, view, page>>
  BY DEF Collect, Arrives, append
<1>2. WorkerInv
  BY DEF SpoolInv
<1>3. /\ written \in 0 .. n
      /\ read[s] + written <= Len(text[s])
      /\ written > 0 => Len(spool[s]) = read[s]
      /\ written > 0 => bytes["stdout"] + bytes["stderr"] + written <= MaxBytes
      /\ written < n => bytes["stdout"] + bytes["stderr"] + written = MaxBytes
  <2>1. written \in 0 .. n
    BY WrittenBound
  <2>2. written \in Nat /\ written <= Least(n, available)
    BY <2>1
  <2> QED BY <1>1, <1>2, <2>1, <2>2, RoomMeansNoGap
<1> HIDE DEF written
<1>4. /\ spool' \in [Streams -> Seq(Bytes)]
      /\ \A r \in Streams :
            /\ Len(spool[r]) \in Nat
            /\ r = s => Len(spool'[r]) = Len(spool[r]) + written
            /\ r # s => Len(spool'[r]) = Len(spool[r])
            /\ \A i \in 1 .. Len(spool'[r]) : spool'[r][i] = text[r][i]
  BY <1>1, <1>2, <1>3, WriteExtends DEF WorkerInv
<1>5. /\ \A r \in Streams : Len(text[r]) \in Nat
      /\ read \in [Streams -> Nat] /\ bytes \in [Streams -> Nat]
      /\ dropped \in Nat /\ MaxBytes \in Nat
  BY LenProperties DEF TypeOK, SpoolAssumption
<1>6. TypeOK'
  <2>1. n \in Nat /\ written \in Nat /\ n - written \in Nat
    BY <1>3
  <2>2. read' \in [Streams -> Nat]
    <3>1. read' = [read EXCEPT ![s] = @ + n]
      BY <1>1
    <3> QED BY <2>1, <3>1, <1>5
  <2>3. bytes' \in [Streams -> Nat]
    <3>1. bytes' = [bytes EXCEPT ![s] = @ + written]
      BY <1>1
    <3> QED BY <2>1, <3>1, <1>5
  <2>4. dropped' \in Nat
    <3>1. dropped' = dropped + (n - written)
      BY <1>1
    <3> QED BY <2>1, <3>1, <1>5
  <2> QED BY <1>1, <1>4, <2>2, <2>3, <2>4 DEF TypeOK
<1>7. \A r \in Streams :
          /\ read'[r] = IF r = s THEN read[r] + n ELSE read[r]
          /\ bytes'[r] = IF r = s THEN bytes[r] + written ELSE bytes[r]
  BY <1>1, <1>5
<1>8. QuotaHeld'
  <2> DEFINE out == Len(spool["stdout"])
             err == Len(spool["stderr"])
             newOut == Len(spool'["stdout"])
             newErr == Len(spool'["stderr"])
  <2>1. out \in Nat /\ err \in Nat /\ written \in Nat
    BY <1>3, <1>4 DEF Streams
  <2>2. \/ newOut = out + written /\ newErr = err
        \/ newOut = out /\ newErr = err + written
    BY <1>4 DEF Streams
  <2>3. out + err <= MaxBytes /\ out = bytes["stdout"] /\ err = bytes["stderr"]
    BY <1>1, <1>2 DEF WorkerInv, QuotaHeld, Streams
  <2> HIDE DEF out, err, newOut, newErr
  <2>4. newOut + newErr <= MaxBytes
    <3>1. CASE written = 0
      BY <2>1, <2>2, <2>3, <3>1
    <3>2. CASE written > 0
      <4>1. out + err + written <= MaxBytes
        BY <1>3, <2>3, <3>2
      <4> QED BY <2>1, <2>2, <4>1, <1>5
    <3> QED BY <2>1, <3>1, <3>2
  <2> QED BY <2>4 DEF newOut, newErr, QuotaHeld
<1>9. NoGap'
  <2>1. \A r \in Streams : Len(spool[r]) <= read[r]
    BY <1>2 DEF WorkerInv, NoGap
  <2>2. \A r \in Streams : read[r] \in Nat /\ Len(spool[r]) \in Nat /\ written \in Nat /\ written <= n
    BY <1>3, <1>4, <1>5
  <2>3. read'[s] = read[s] + n /\ Len(spool'[s]) = Len(spool[s]) + written
    BY <1>4, <1>7
  <2>4. Len(spool'[s]) <= read'[s]
    BY <2>1, <2>2, <2>3, <1>3
  <2>5. \A r \in Streams : Len(spool'[r]) <= read'[r]
    BY <2>1, <2>4, <1>4, <1>7
  <2> QED BY <2>5, <1>1, <1>4 DEF NoGap
<1>10. \A r \in Streams : read'[r] <= Len(text'[r])
  BY <1>1, <1>2, <1>5, <1>7, SMTT(30) DEF WorkerInv
<1>11. \A r \in Streams : bytes'[r] = Len(spool'[r])
  BY <1>1, <1>2, <1>4, <1>5, <1>7 DEF WorkerInv
<1>12. /\ bytes'["stdout"] + bytes'["stderr"] + dropped' = read'["stdout"] + read'["stderr"]
       /\ dropped' > 0 => bytes'["stdout"] + bytes'["stderr"] = MaxBytes
  <2>1. /\ bytes["stdout"] + bytes["stderr"] + dropped = read["stdout"] + read["stderr"]
        /\ dropped > 0 => bytes["stdout"] + bytes["stderr"] = MaxBytes
    BY <1>1, <1>2 DEF WorkerInv
  <2>2. /\ bytes'["stdout"] + bytes'["stderr"] = bytes["stdout"] + bytes["stderr"] + written
        /\ read'["stdout"] + read'["stderr"] = read["stdout"] + read["stderr"] + n
    BY <1>3, <1>5, <1>7, SMTT(30) DEF Streams
  <2>3. dropped' = dropped + (n - written) /\ bytes["stdout"] + bytes["stderr"] \in Nat
    BY <1>1, <1>5 DEF Streams
  <2> QED BY <2>1, <2>2, <2>3, <1>3, <1>5
<1>13. manifest' = NoManifest
  BY <1>1, <1>2 DEF WorkerInv
<1>14. WorkerInv'
  BY <1>8, <1>9, <1>10, <1>11, <1>12, <1>13 DEF WorkerInv
<1>15. \A r \in Streams : Len(spool'[r]) >= Len(spool[r]) /\ Len(spool'[r]) \in Nat
  BY <1>3, <1>4, <1>5, SMTT(30)
<1> QED BY <1>1, <1>6, <1>14, <1>15, ReaderKept DEF SpoolInv

LEMMA AppendFailsStep ==
    ASSUME TypeOK, SpoolAssumption, SpoolInv,
           NEW s \in Streams, NEW n \in Nat, NEW k \in Nat, AppendFails(s, n, k)
    PROVE  TypeOK' /\ SpoolInv'
<1>1. /\ n \in 1 .. Len(text[s]) - read[s] /\ ~failed /\ worker = "collecting"
      /\ k <= Least(n, available)
      /\ Write(s, k)
      /\ failed' = TRUE
      /\ read' = [read EXCEPT ![s] = @ + n]
      /\ UNCHANGED <<text, bytes, dropped, worker, manifest, step, view, page>>
  BY DEF AppendFails, Arrives
<1>2. WorkerInv
  BY DEF SpoolInv
<1>3. /\ k <= n
      /\ read[s] + k <= Len(text[s])
      /\ k > 0 => Len(spool[s]) = read[s]
      /\ k > 0 => bytes["stdout"] + bytes["stderr"] + k <= MaxBytes
  BY <1>1, <1>2, RoomMeansNoGap
<1>4. /\ spool' \in [Streams -> Seq(Bytes)]
      /\ \A r \in Streams :
            /\ Len(spool[r]) \in Nat
            /\ r = s => Len(spool'[r]) = Len(spool[r]) + k
            /\ r # s => Len(spool'[r]) = Len(spool[r])
            /\ \A i \in 1 .. Len(spool'[r]) : spool'[r][i] = text[r][i]
  BY <1>1, <1>2, <1>3, WriteExtends DEF WorkerInv
<1>5. /\ \A r \in Streams : Len(text[r]) \in Nat
      /\ read \in [Streams -> Nat] /\ bytes \in [Streams -> Nat] /\ MaxBytes \in Nat
  BY LenProperties DEF TypeOK, SpoolAssumption
<1>6. TypeOK'
  BY <1>1, <1>4, <1>5 DEF TypeOK
<1>7. \A r \in Streams : read'[r] = IF r = s THEN read[r] + n ELSE read[r]
  BY <1>1, <1>5
<1>8. QuotaHeld'
  <2> DEFINE out == Len(spool["stdout"])
             err == Len(spool["stderr"])
             newOut == Len(spool'["stdout"])
             newErr == Len(spool'["stderr"])
  <2>1. out \in Nat /\ err \in Nat /\ k \in Nat
    BY <1>3, <1>4 DEF Streams
  <2>2. \/ newOut = out + k /\ newErr = err
        \/ newOut = out /\ newErr = err + k
    BY <1>4 DEF Streams
  <2>3. out + err <= MaxBytes /\ out = bytes["stdout"] /\ err = bytes["stderr"]
    BY <1>1, <1>2 DEF WorkerInv, QuotaHeld, Streams
  <2> HIDE DEF out, err, newOut, newErr
  <2>4. newOut + newErr <= MaxBytes
    <3>1. CASE k = 0
      BY <2>1, <2>2, <2>3, <3>1
    <3>2. CASE k > 0
      <4>1. out + err + k <= MaxBytes
        BY <1>3, <2>3, <3>2
      <4> QED BY <2>1, <2>2, <4>1, <1>5
    <3> QED BY <2>1, <3>1, <3>2
  <2> QED BY <2>4 DEF newOut, newErr, QuotaHeld
<1>9. NoGap'
  <2>1. \A r \in Streams : Len(spool[r]) <= read[r]
    BY <1>2 DEF WorkerInv, NoGap
  <2>2. \A r \in Streams : read[r] \in Nat /\ Len(spool[r]) \in Nat /\ k \in Nat /\ k <= n
    BY <1>3, <1>4, <1>5
  <2>3. read'[s] = read[s] + n /\ Len(spool'[s]) = Len(spool[s]) + k
    BY <1>4, <1>7
  <2>4. Len(spool'[s]) <= read'[s]
    BY <2>1, <2>2, <2>3, <1>3
  <2>5. \A r \in Streams : Len(spool'[r]) <= read'[r]
    BY <2>1, <2>4, <1>4, <1>7
  <2> QED BY <2>5, <1>1, <1>4 DEF NoGap
<1>10. \A r \in Streams : read'[r] <= Len(text'[r])
  BY <1>1, <1>2, <1>5, <1>7, SMTT(30) DEF WorkerInv
<1>11. manifest' = NoManifest
  BY <1>1, <1>2 DEF WorkerInv
<1>12. WorkerInv'
  BY <1>1, <1>8, <1>9, <1>10, <1>11 DEF WorkerInv
<1>13. \A r \in Streams : Len(spool'[r]) >= Len(spool[r]) /\ Len(spool'[r]) \in Nat
  BY <1>4, <1>5
<1> QED BY <1>1, <1>6, <1>12, <1>13, ReaderKept DEF SpoolInv

LEMMA DrainStep ==
    ASSUME TypeOK, SpoolAssumption, SpoolInv,
           NEW s \in Streams, NEW n \in Nat, Drain(s, n)
    PROVE  TypeOK' /\ SpoolInv'
<1>1. /\ n \in 1 .. Len(text[s]) - read[s] /\ failed
      /\ read' = [read EXCEPT ![s] = @ + n]
      /\ UNCHANGED <<text, spool, bytes, dropped, failed, worker, manifest, step, view, page>>
  BY DEF Drain, Arrives
<1>2. /\ \A r \in Streams : Len(spool[r]) \in Nat /\ Len(text[r]) \in Nat
      /\ read \in [Streams -> Nat]
  BY LenProperties DEF TypeOK, SpoolAssumption
<1>3. TypeOK'
  BY <1>1, <1>2 DEF TypeOK
<1>4. \A r \in Streams : read'[r] = IF r = s THEN read[r] + n ELSE read[r]
  BY <1>1, <1>2
<1>5. WorkerInv'
  <2>1. QuotaHeld'
    BY <1>1 DEF SpoolInv, WorkerInv, QuotaHeld
  <2>2. \A r \in Streams : Len(spool[r]) <= read[r] /\ read[r] \in Nat
    BY <1>2 DEF SpoolInv, WorkerInv, NoGap
  <2>3. \A r \in Streams : Len(spool[r]) <= read'[r]
    BY <2>2, <1>1, <1>2, <1>4
  <2>4. NoGap'
    BY <2>3, <1>1 DEF SpoolInv, WorkerInv, NoGap
  <2>5. \A r \in Streams : read'[r] <= Len(text'[r])
    BY <1>1, <1>2, <1>4 DEF SpoolInv, WorkerInv
  <2> QED BY <1>1, <2>1, <2>4, <2>5 DEF SpoolInv, WorkerInv
<1> QED BY <1>1, <1>2, <1>3, <1>5, ReaderKept DEF SpoolInv

LEMMA FinalizeStep ==
    ASSUME TypeOK, SpoolAssumption, SpoolInv, Finalize
    PROVE  TypeOK' /\ SpoolInv'
<1>1. /\ worker = "collecting" /\ ~failed /\ worker' = "gone"
      /\ manifest' = [stdout |-> bytes["stdout"], stderr |-> bytes["stderr"],
                      dropped |-> dropped]
      /\ UNCHANGED <<text, read, spool, bytes, dropped, failed, step, view, page>>
  BY DEF Finalize
<1>2. manifest = NoManifest
  BY <1>1 DEF SpoolInv, WorkerInv
<1>3. TypeOK'
  BY <1>1 DEF TypeOK, Manifests, Streams
<1>4. WorkerInv'
  BY <1>1 DEF SpoolInv, WorkerInv, QuotaHeld, NoGap
<1>5. \A s \in Streams : Len(spool'[s]) >= Len(spool[s]) /\ Len(spool'[s]) \in Nat
  BY <1>1, LenProperties DEF TypeOK
<1> QED BY <1>1, <1>2, <1>3, <1>4, <1>5, ReaderKept DEF SpoolInv

LEMMA WorkerLostStep ==
    ASSUME TypeOK, SpoolAssumption, SpoolInv, WorkerLost
    PROVE  TypeOK' /\ SpoolInv'
<1>1. /\ worker' = "gone"
      /\ UNCHANGED <<text, read, spool, bytes, dropped, failed, manifest, step, view, page>>
  BY DEF WorkerLost
<1>2. TypeOK'
  BY <1>1 DEF TypeOK
<1>3. WorkerInv'
  BY <1>1 DEF SpoolInv, WorkerInv, QuotaHeld, NoGap
<1>4. \A s \in Streams : Len(spool'[s]) >= Len(spool[s]) /\ Len(spool'[s]) \in Nat
  BY <1>1, LenProperties DEF TypeOK
<1> QED BY <1>1, <1>2, <1>3, <1>4, ReaderKept DEF SpoolInv

LEMMA OpenSpoolStep ==
    ASSUME TypeOK, SpoolAssumption, SpoolInv, NEW s \in Streams, OpenSpool(s)
    PROVE  TypeOK' /\ SpoolInv'
<1>1. /\ step' = "sized"
      /\ view' = [stream |-> s, bytes |-> Len(spool[s]), finalized |-> FALSE, dropped |-> 0]
      /\ UNCHANGED <<text, read, spool, bytes, dropped, failed, worker, manifest, page>>
  BY DEF OpenSpool, EmptyView, workerVars
<1>2. Len(spool[s]) \in Nat
  BY LenProperties DEF TypeOK
<1>3. TypeOK'
  BY <1>1, <1>2 DEF TypeOK, Views
<1>4. WorkerInv'
  BY <1>1 DEF SpoolInv, WorkerInv, QuotaHeld, NoGap
<1>5. view'.bytes <= Len(spool'[view'.stream])
  BY <1>1, <1>2
<1>6. ReaderInv'
  BY <1>1, <1>5 DEF SpoolInv, ReaderInv
<1>7. CursorAdvances' /\ PagesWhole'
  BY <1>1 DEF SpoolInv, CursorAdvances, PagesWhole
<1> QED BY <1>3, <1>4, <1>6, <1>7 DEF SpoolInv

LEMMA LoadManifestStep ==
    ASSUME TypeOK, SpoolAssumption, SpoolInv, LoadManifest
    PROVE  TypeOK' /\ SpoolInv'
<1>1. /\ step' = "opened"
      /\ view' = IF manifest = NoManifest THEN view
                 ELSE [view EXCEPT !.dropped = manifest.dropped, !.finalized = TRUE]
      /\ UNCHANGED <<text, read, spool, bytes, dropped, failed, worker, manifest, page>>
  BY DEF LoadManifest, workerVars
<1>2. manifest # NoManifest => manifest.dropped \in Nat
  BY DEF TypeOK, Manifests
<1>3. /\ view' \in Views /\ view'.stream = view.stream /\ view'.bytes = view.bytes
      /\ view'.finalized => manifest # NoManifest /\ view'.dropped = manifest.dropped
  BY <1>1, <1>2 DEF TypeOK, Views, SpoolInv, ReaderInv
<1>4. TypeOK'
  BY <1>1, <1>3 DEF TypeOK
<1>5. WorkerInv'
  BY <1>1 DEF SpoolInv, WorkerInv, QuotaHeld, NoGap
<1>6. ReaderInv'
  BY <1>1, <1>3 DEF SpoolInv, ReaderInv
<1>7. CursorAdvances' /\ PagesWhole'
  BY <1>1 DEF SpoolInv, CursorAdvances, PagesWhole
<1> QED BY <1>4, <1>5, <1>6, <1>7 DEF SpoolInv

LEMMA PageStep ==
    ASSUME TypeOK, SpoolAssumption, SpoolInv, NEW max \in PageSizes, Page(max)
    PROVE  TypeOK' /\ SpoolInv'
<1> DEFINE s == view.stream
           cursor == page[s].nextCursor
           next == pageEnd(spool[s], cursor, view.bytes, max)
           new == [cursor |-> cursor, nextCursor |-> next, size |-> view.bytes,
                   complete |-> view.finalized /\ next = view.bytes,
                   truncated |-> view.dropped > 0]
<1>1. /\ step = "opened" /\ max >= 4 /\ max \in Nat /\ step' = "idle"
      /\ view' = [stream |-> "stdout", bytes |-> 0, finalized |-> FALSE, dropped |-> 0]
      /\ cursor <= view.bytes
      /\ page' = [page EXCEPT ![s] = new]
      /\ UNCHANGED <<text, read, spool, bytes, dropped, failed, worker, manifest>>
  BY DEF Page, Answer, EmptyView, workerVars, SpoolAssumption
<1>2. /\ s \in Streams /\ view.bytes \in Nat /\ view.dropped \in Nat /\ cursor \in Nat
      /\ spool[s] \in Seq(Bytes) /\ text[s] \in Seq(Bytes)
      /\ view.bytes <= Len(spool[s])
  BY DEF TypeOK, Views, Pages, SpoolInv, ReaderInv, SpoolAssumption
<1>3. next \in cursor .. view.bytes /\ (cursor < view.bytes => cursor < next)
  BY <1>1, <1>2, PageEnd
<1>4. WellFormed(text[s]) /\ next < view.bytes => Boundary(text[s], next)
  <2>1. Len(spool[s]) <= Len(text[s])
    <3>1. Len(spool[s]) \in Nat /\ Len(text[s]) \in Nat /\ read[s] \in Nat
      BY <1>2, LenProperties DEF TypeOK
    <3>2. Len(spool[s]) <= read[s] /\ read[s] <= Len(text[s])
      BY <1>2 DEF SpoolInv, WorkerInv, NoGap
    <3> QED BY <3>1, <3>2
  <2>2. \A i \in 1 .. Len(spool[s]) : spool[s][i] = text[s][i]
    BY <1>2 DEF SpoolInv, WorkerInv, NoGap
  <2> QED BY <1>1, <1>2, <2>1, <2>2, PageWhole
<1>5. view.finalized => manifest # NoManifest /\ view.dropped = manifest.dropped
  BY <1>1 DEF SpoolInv, ReaderInv
<1> HIDE DEF s, cursor, next
<1>6. new \in Pages /\ page'[s] = new /\ \A r \in Streams \ {s} : page'[r] = page[r]
  BY <1>1, <1>2, <1>3 DEF Pages, TypeOK
<1>7. TypeOK'
  <2>1. page' \in [Streams -> Pages]
    BY <1>1, <1>6 DEF TypeOK
  <2>2. view' \in Views
    BY <1>1 DEF Views, Streams
  <2> QED BY <1>1, <2>1, <2>2 DEF TypeOK
<1>8. WorkerInv'
  BY <1>1 DEF SpoolInv, WorkerInv, QuotaHeld, NoGap
<1>9. ReaderInv'
  <2>1. view'.bytes = 0 /\ view'.stream \in Streams /\ ~view'.finalized
    BY <1>1 DEF Streams
  <2>2. view'.bytes <= Len(spool'[view'.stream])
    BY <1>1, <2>1, LenProperties DEF TypeOK
  <2>3. new.complete => manifest # NoManifest /\ (new.truncated <=> manifest.dropped > 0)
    BY <1>5
  <2>4. \A r \in Streams : page'[r].complete =>
           /\ manifest # NoManifest
           /\ page'[r].truncated <=> manifest.dropped > 0
    BY <1>6, <2>3 DEF SpoolInv, ReaderInv
  <2> QED BY <1>1, <2>1, <2>2, <2>4 DEF ReaderInv
<1>10. CursorAdvances' /\ PagesWhole'
  <2>1. new.cursor < new.size => new.cursor < new.nextCursor
    BY <1>3
  <2>2. WellFormed(text[s]) /\ new.nextCursor < new.size => Boundary(text[s], new.nextCursor)
    BY <1>4
  <2> HIDE DEF new
  <2>3. CursorAdvances'
    BY <1>6, <2>1 DEF SpoolInv, CursorAdvances
  <2>4. PagesWhole'
    BY <1>1, <1>6, <2>2 DEF SpoolInv, PagesWhole
  <2> QED BY <2>3, <2>4
<1> QED BY <1>7, <1>8, <1>9, <1>10 DEF SpoolInv

LEMMA SpoolStep ==
    ASSUME TypeOK, SpoolAssumption, SpoolInv, [Next]_vars
    PROVE  TypeOK' /\ SpoolInv'
<1>1. ASSUME NEW s \in Streams, NEW n \in Printed(s), Collect(s, n)
      PROVE  TypeOK' /\ SpoolInv'
  BY <1>1, CollectStep DEF Printed
<1>2. ASSUME NEW s \in Streams, NEW n \in Printed(s), NEW k \in 0 .. n, AppendFails(s, n, k)
      PROVE  TypeOK' /\ SpoolInv'
  BY <1>2, AppendFailsStep DEF Printed
<1>3. ASSUME NEW s \in Streams, NEW n \in Printed(s), Drain(s, n)
      PROVE  TypeOK' /\ SpoolInv'
  BY <1>3, DrainStep DEF Printed
<1>4. CASE Finalize
  BY <1>4, FinalizeStep
<1>5. CASE WorkerLost
  BY <1>5, WorkerLostStep
<1>6. ASSUME NEW s \in Streams, OpenSpool(s)  PROVE TypeOK' /\ SpoolInv'
  BY <1>6, OpenSpoolStep
<1>7. CASE LoadManifest
  BY <1>7, LoadManifestStep
<1>8. ASSUME NEW max \in PageSizes, Page(max)  PROVE TypeOK' /\ SpoolInv'
  BY <1>8, PageStep
<1>9. CASE UNCHANGED vars
  BY <1>9 DEF vars, workerVars, TypeOK, SpoolInv, WorkerInv, ReaderInv, QuotaHeld, NoGap,
              CursorAdvances, PagesWhole
<1> QED BY <1>1, <1>2, <1>3, <1>4, <1>5, <1>6, <1>7, <1>8, <1>9 DEF Next, WorkerStep

-----------------------------------------------------------------------------
(* The types and the inductive invariant hold in every state.              *)
THEOREM SpoolInvariance == Spec => [](TypeOK /\ SpoolInv)
<1>1. Init => TypeOK /\ SpoolInv
  BY SpoolInit, SpoolAssumption
<1>2. TypeOK /\ SpoolInv /\ [Next]_vars => (TypeOK /\ SpoolInv)'
  BY SpoolStep, SpoolAssumption
<1> QED BY <1>1, <1>2, PTL DEF Spec

(* The files of OutputSpool.append stay within maxBytes, for every quota.  *)
THEOREM Quota == Spec => []QuotaHeld
<1>1. SpoolInv => QuotaHeld
  BY DEF SpoolInv, WorkerInv
<1> QED BY <1>1, SpoolInvariance, PTL

(* What append retains of a stream has no gap.                             *)
THEOREM Gapless == Spec => []NoGap
<1>1. SpoolInv => NoGap
  BY DEF SpoolInv, WorkerInv
<1> QED BY <1>1, SpoolInvariance, PTL

(* The manifest of finalize describes the files that the import hashes.    *)
THEOREM Attested == Spec => []ManifestAttests
<1>1. TypeOK /\ SpoolInv => ManifestAttests
  BY DEF TypeOK, SpoolInv, WorkerInv, ManifestAttests, Streams
<1> QED BY <1>1, SpoolInvariance, PTL

(* OutputSpool.page makes progress on every text, malformed ones included. *)
THEOREM Progress == Spec => []CursorAdvances
<1>1. SpoolInv => CursorAdvances
  BY DEF SpoolInv
<1> QED BY <1>1, SpoolInvariance, PTL

(* OutputSpool.page cuts no character before the end of what it knew of.   *)
THEOREM WholeCharacters == Spec => []PagesWhole
<1>1. SpoolInv => PagesWhole
  BY DEF SpoolInv
<1> QED BY <1>1, SpoolInvariance, PTL

(* The truncated flag of a complete page is the truth about the attempt.   *)
THEOREM Truncation == Spec => []TruncationTold
<1>1. ASSUME TypeOK, SpoolInv  PROVE TruncationTold
  <2>1. ASSUME NEW s \in Streams, page[s].complete
        PROVE  page[s].truncated <=> Len(spool["stdout"]) + Len(spool["stderr"])
                                         < read["stdout"] + read["stderr"]
    <3>1. manifest # NoManifest /\ (page[s].truncated <=> manifest.dropped > 0)
      BY <1>1, <2>1 DEF SpoolInv, ReaderInv
    <3>2. /\ ~failed /\ manifest.dropped = dropped
          /\ Len(spool["stdout"]) = bytes["stdout"] /\ Len(spool["stderr"]) = bytes["stderr"]
          /\ bytes["stdout"] + bytes["stderr"] + dropped = read["stdout"] + read["stderr"]
      BY <1>1, <3>1 DEF SpoolInv, WorkerInv, Streams
    <3>3. /\ bytes["stdout"] \in Nat /\ bytes["stderr"] \in Nat /\ dropped \in Nat
          /\ read["stdout"] \in Nat /\ read["stderr"] \in Nat
      BY <1>1 DEF TypeOK, Streams
    <3>4. bytes["stdout"] + bytes["stderr"] < read["stdout"] + read["stderr"] <=> dropped > 0
      BY <3>2, <3>3, SMTT(30)
    <3> QED BY <3>1, <3>2, <3>4
  <2> QED BY <2>1 DEF TruncationTold
<1> QED BY <1>1, SpoolInvariance, PTL
=============================================================================
