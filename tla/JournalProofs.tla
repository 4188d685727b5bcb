---------------------------- MODULE JournalProofs ----------------------------
(***************************************************************************)
(* Theorems about the store with its journal, for every set of faults and   *)
(* every bound: what a start rebuilds after crashes, torn lines and failed  *)
(* writes, what is left of what was answered, and that the file, read up to *)
(* its first damaged line, is a store that never stops.                    *)
(***************************************************************************)
EXTENDS JournaledStore, RegistryStoreProofs

-----------------------------------------------------------------------------
(* RecordsIn, the fold of Keep: what a start reads from the lines of a file. *)

IsReading(f, texts, m) ==
    f = [n \in 0 .. m |-> IF n = 0 THEN << >> ELSE Keep(f[n - 1], texts[n])]

(* A reading of m lines, and one more line. *)
LEMMA ReadingExtends ==
    ASSUME NEW texts, NEW m \in Nat, NEW f, IsReading(f, texts, m)
    PROVE  IsReading([n \in 0 .. m + 1 |-> IF n <= m THEN f[n]
                                          ELSE Keep(f[m], texts[m + 1])], texts, m + 1)
<1> DEFINE next == Keep(f[m], texts[m + 1])
           g == [n \in 0 .. m + 1 |-> IF n <= m THEN f[n] ELSE next]
<1>1. \A n \in 0 .. m : f[n] = IF n = 0 THEN << >> ELSE Keep(f[n - 1], texts[n])
  BY DEF IsReading
<1>2. \A n \in 0 .. m : g[n] = f[n]
  OBVIOUS
<1>3. g[m + 1] = next
  OBVIOUS
<1>4. \A n \in 0 .. m + 1 :
          g[n] = IF n = 0 THEN << >> ELSE Keep(g[n - 1], texts[n])
  <2> SUFFICES ASSUME NEW n \in 0 .. m + 1
               PROVE  g[n] = IF n = 0 THEN << >> ELSE Keep(g[n - 1], texts[n])
    OBVIOUS
  <2>1. CASE n = m + 1
    <3>1. m \in 0 .. m /\ n # 0 /\ n - 1 = m
      BY <2>1
    <3> HIDE DEF g
    <3> QED
      BY <1>2, <1>3, <2>1, <3>1
  <2>2. CASE n = 0
    <3>1. n \in 0 .. m
      BY <2>2
    <3> HIDE DEF g
    <3> QED
      BY <1>1, <1>2, <2>2, <3>1
  <2>3. CASE n \in 1 .. m
    <3>1. n \in 0 .. m /\ n - 1 \in 0 .. m /\ n # 0
      BY <2>3
    <3> HIDE DEF g
    <3> QED
      BY <1>1, <1>2, <3>1
  <2> QED
    BY <2>1, <2>2, <2>3
<1>5. g = [n \in 0 .. m + 1 |-> g[n]]
  OBVIOUS
<1> HIDE DEF g
<1>6. IsReading(g, texts, m + 1)
  BY <1>4, <1>5, Zenon DEF IsReading
<1> QED
  BY <1>6 DEF g

(* Every number of lines has a reading. *)
LEMMA ReadingExists ==
    ASSUME NEW texts, NEW m \in Nat
    PROVE  \E f : IsReading(f, texts, m)
<1> DEFINE T == {n \in Nat : ~ \E f : IsReading(f, texts, n)}
<1> SUFFICES ASSUME T # {}
             PROVE  FALSE
  OBVIOUS
<1>1. PICK n \in T : \A k \in T : n <= k
  BY LeastElement
<1>2. n # 0
  <2> DEFINE f == [k \in 0 .. 0 |-> << >>]
  <2>1. f = [k \in 0 .. 0 |-> IF k = 0 THEN << >> ELSE Keep(f[k - 1], texts[k])]
    OBVIOUS
  <2> HIDE DEF f
  <2>2. \E g : IsReading(g, texts, 0)
    BY <2>1 DEF IsReading
  <2> QED
    BY <2>2
<1>3. n - 1 \in Nat /\ n - 1 \notin T /\ (n - 1) + 1 = n
  BY <1>1, <1>2
<1>4. PICK f : IsReading(f, texts, n - 1)
  BY <1>3
<1>5. \E g : IsReading(g, texts, (n - 1) + 1)
  BY <1>3, <1>4, ReadingExtends
<1> QED
  BY <1>3, <1>5

(* And only one, as far as both go. *)
LEMMA ReadingUnique ==
    ASSUME NEW texts, NEW m \in Nat, NEW k \in Nat, NEW f, NEW g,
           IsReading(f, texts, m), IsReading(g, texts, k), NEW n \in Nat, n <= m, n <= k
    PROVE  f[n] = g[n]
<1> DEFINE T == {i \in Nat : i <= m /\ i <= k /\ f[i] # g[i]}
<1> SUFFICES ASSUME T # {}
             PROVE  FALSE
  OBVIOUS
<1>1. PICK i \in T : \A j \in T : i <= j
  BY LeastElement
<1>2. \A j \in 0 .. m : f[j] = IF j = 0 THEN << >> ELSE Keep(f[j - 1], texts[j])
  BY DEF IsReading
<1>3. \A j \in 0 .. k : g[j] = IF j = 0 THEN << >> ELSE Keep(g[j - 1], texts[j])
  BY DEF IsReading
<1>4. i \in 0 .. m /\ i \in 0 .. k /\ i # 0 /\ f[i] # g[i]
  BY <1>2, <1>3, <1>1
<1>5. i - 1 \in Nat /\ i - 1 \notin T /\ i - 1 <= m /\ i - 1 <= k
  BY <1>1, <1>4
<1>6. f[i - 1] = g[i - 1]
  BY <1>5
<1> QED
  BY <1>2, <1>3, <1>4, <1>6

(* What RecordsIn is: the last value of any function that folds Keep.       *)
LEMMA ReadingValue ==
    ASSUME NEW texts, Len(texts) \in Nat, NEW m \in Nat, Len(texts) <= m,
           NEW f, IsReading(f, texts, m)
    PROVE  RecordsIn(texts) = f[Len(texts)]
<1> DEFINE read == CHOOSE g : g = [n \in 0 .. Len(texts) |->
                        IF n = 0 THEN << >> ELSE Keep(g[n - 1], texts[n])]
<1>1. \E g : g = [n \in 0 .. Len(texts) |->
                 IF n = 0 THEN << >> ELSE Keep(g[n - 1], texts[n])]
  BY ReadingExists DEF IsReading
<1>2. read = [n \in 0 .. Len(texts) |->
                 IF n = 0 THEN << >> ELSE Keep(read[n - 1], texts[n])]
  BY <1>1
<1>3. RecordsIn(texts) = read[Len(texts)]
  BY DEF RecordsIn
<1> HIDE DEF read
<1>4. IsReading(read, texts, Len(texts))
  BY <1>2 DEF IsReading
<1> QED
  BY <1>3, <1>4, ReadingUnique

(* Readinging nothing, and replaying one record more.                        *)
LEMMA ReadingEmpty == RecordsIn(<< >>) = << >>
<1>1. Len(<< >>) = 0
  OBVIOUS
<1>2. PICK f : IsReading(f, << >>, 0)
  BY ReadingExists
<1>3. f[0] = << >>
  BY <1>2 DEF IsReading
<1> QED
  BY <1>1, <1>2, <1>3, ReadingValue

(* Readings of two files agree as far as the files do. *)
LEMMA ReadingAgrees ==
    ASSUME NEW texts, NEW more, Len(texts) \in Nat, NEW m \in Nat, m <= Len(texts),
           \A n \in 1 .. m : more[n] = texts[n], NEW f, IsReading(f, texts, Len(texts)),
           NEW g, IsReading(g, more, m)
    PROVE  f[m] = g[m]
<1>1. \A n \in 0 .. m : g[n] = IF n = 0 THEN << >> ELSE Keep(g[n - 1], more[n])
  BY DEF IsReading
<1>2. \A n \in 0 .. m : g[n] = IF n = 0 THEN << >> ELSE Keep(g[n - 1], texts[n])
  BY <1>1
<1>3. g = [n \in 0 .. m |-> g[n]]
  BY DEF IsReading
<1>4. IsReading(g, texts, m)
  BY <1>2, <1>3, Zenon DEF IsReading
<1> QED
  BY <1>4, ReadingUnique

(* A file that is longer by one line reads as before, and then that line. *)
LEMMA ReadingStep ==
    ASSUME NEW texts, NEW more, Len(texts) \in Nat, Len(more) = Len(texts) + 1,
           \A n \in 1 .. Len(texts) : more[n] = texts[n]
    PROVE  RecordsIn(more) = Keep(RecordsIn(texts), more[Len(more)])
<1>1. PICK f : IsReading(f, texts, Len(texts))
  BY ReadingExists
<1>2. PICK g : IsReading(g, more, Len(texts) + 1)
  BY ReadingExists
<1>3. PICK h : IsReading(h, more, Len(texts))
  BY ReadingExists
<1>4. Len(texts) <= Len(texts) /\ Len(texts) <= Len(texts) + 1 /\ Len(texts) + 1 \in Nat
  OBVIOUS
<1>5. f[Len(texts)] = h[Len(texts)]
  BY <1>1, <1>3, <1>4, ReadingAgrees
<1>6. g[Len(texts)] = h[Len(texts)]
  BY <1>2, <1>3, <1>4, ReadingUnique
<1>7. g[Len(texts) + 1] = Keep(g[Len(texts)], more[Len(texts) + 1])
  <2>1. \A n \in 0 .. Len(texts) + 1 :
            g[n] = IF n = 0 THEN << >> ELSE Keep(g[n - 1], more[n])
    BY <1>2 DEF IsReading
  <2> QED
    BY <2>1
<1>8. RecordsIn(texts) = f[Len(texts)] /\ RecordsIn(more) = g[Len(texts) + 1]
  BY <1>1, <1>2, ReadingValue
<1> QED
  BY <1>5, <1>6, <1>7, <1>8

(* The same of a line that is appended. *)
LEMMA ReadLine ==
    ASSUME NEW S, NEW texts \in Seq(S), NEW text
    PROVE  RecordsIn(Append(texts, text)) = Keep(RecordsIn(texts), text)
<1> DEFINE n == Len(texts)
           more == Append(texts, text)
<1>1. n \in Nat
  BY LenProperties
<1>2. Len(more) = n + 1 /\ more[n + 1] = text /\ \A i \in 1 .. n : more[i] = texts[i]
  <2>1. texts \in Seq(S \cup {text}) /\ text \in S \cup {text}
    BY SeqMonotonic
  <2> QED
    BY <2>1, AppendProperties
<1> HIDE DEF more
<1>3. RecordsIn(more) = Keep(RecordsIn(texts), more[Len(more)])
  BY <1>1, <1>2, ReadingStep
<1> QED
  BY <1>2, <1>3 DEF more

-----------------------------------------------------------------------------
(* Lines and tails.                                                        *)

(* A record is neither junk nor nothing. *)
LEMMA RecordsAreReadable ==
    ASSUME NEW n, NEW o
    PROVE  /\ Readable([seq |-> n, op |-> o])
           /\ [seq |-> n, op |-> o] # Empty
<1> DEFINE rec == [seq |-> n, op |-> o]
<1>1. DOMAIN rec = {"seq", "op"}
  OBVIOUS
<1>2. \A x : DOMAIN [text |-> x] = {"text"}
  OBVIOUS
<1>3. "text" \notin {"seq", "op"}
  OBVIOUS
<1> HIDE DEF rec
<1>4. \A x : rec # [text |-> x]
  BY <1>1, <1>2, <1>3
<1> QED
  BY <1>4 DEF Readable, Junk, Undecodable, Empty, rec

(* The texts that are no records are told apart. *)
LEMMA TextsDiffer ==
    /\ ~Readable(Junk) /\ ~Readable(Undecodable) /\ Readable(Empty)
    /\ Junk # Empty /\ Undecodable # Empty
<1>1. /\ Junk.text = "junk" /\ Empty.text = "empty" /\ Undecodable.text = "undecodable"
  BY DEF Junk, Empty, Undecodable
<1>2. Junk # Empty /\ Undecodable # Empty
  BY <1>1
<1> QED
  BY <1>2 DEF Readable

(* What a write makes of the line it lands on. *)
LEMMA JoinedLine ==
    ASSUME NEW text
    PROVE  /\ tail = Empty => Joined(text) = text
           /\ tail # Empty => ~Readable(Joined(text)) /\ Joined(text) # Empty
BY TextsDiffer DEF Joined

(* A sequence, whatever its elements are. *)
IsSeq(s) == s \in Seq({s[i] : i \in DOMAIN s})

(* What Append does to a sequence whose elements have no type. *)
LEMMA AppendSeq ==
    ASSUME NEW s, IsSeq(s), NEW x
    PROVE  /\ Len(s) \in Nat /\ DOMAIN s = 1 .. Len(s)
           /\ IsSeq(Append(s, x))
           /\ Len(Append(s, x)) = Len(s) + 1
           /\ DOMAIN Append(s, x) = 1 .. Len(s) + 1
           /\ \A i \in 1 .. Len(s) : Append(s, x)[i] = s[i]
           /\ Append(s, x)[Len(s) + 1] = x
<1> DEFINE S == {s[i] : i \in DOMAIN s} \cup {x}
           new == Append(s, x)
<1>1. s \in Seq(S) /\ x \in S
  BY DEF IsSeq
<1> HIDE DEF S
<1>2. /\ new \in Seq(S)
      /\ Len(new) = Len(s) + 1
      /\ DOMAIN new = 1 .. Len(new)
      /\ \A i \in 1 .. Len(s) : new[i] = s[i]
      /\ new[Len(s) + 1] = x
  BY <1>1, AppendProperties
<1>3. Len(s) \in Nat /\ DOMAIN s = 1 .. Len(s)
  BY <1>1, LenProperties
<1>4. IsSeq(new)
  <2> DEFINE T == {new[i] : i \in DOMAIN new}
  <2>1. \A i \in 1 .. Len(new) : new[i] \in T
    BY <1>2
  <2> HIDE DEF T, new
  <2>2. new \in Seq(T)
    BY <1>2, <2>1, SeqDef, LenProperties
  <2> QED
    BY <2>2 DEF T, IsSeq
<1> HIDE DEF new
<1>5. /\ Len(s) \in Nat /\ DOMAIN s = 1 .. Len(s)
      /\ IsSeq(new)
      /\ Len(new) = Len(s) + 1
      /\ DOMAIN new = 1 .. Len(s) + 1
      /\ \A i \in 1 .. Len(s) : new[i] = s[i]
      /\ new[Len(s) + 1] = x
  BY <1>2, <1>3, <1>4
<1> QED
  BY <1>5 DEF new

-----------------------------------------------------------------------------
(* What a start reads: from the complete lines, and from them and the tail. *)

Kept == RecordsIn(lines)

(* A start reads the complete lines, then the tail if there is one. *)
LEMMA ReplayedOfTail ==
    ASSUME IsSeq(lines)
    PROVE  /\ tail = Empty => Replayed = Kept
           /\ tail # Empty => Replayed = Keep(Kept, tail)
<1>1. CASE tail = Empty
  BY <1>1 DEF Replayed, Contents, Kept
<1>2. CASE tail # Empty
  <2>1. RecordsIn(Append(lines, tail)) = Keep(RecordsIn(lines), tail)
    BY ReadLine DEF IsSeq
  <2> QED
    BY <1>2, <2>1 DEF Replayed, Contents, Kept
<1> QED
  BY <1>1, <1>2

(* Writing a whole line, or part of one. *)
LEMMA LineWritten ==
    ASSUME IsSeq(lines), NEW n, NEW o, WriteLine([seq |-> n, op |-> o])
    PROVE  /\ Replayed' = Kept'
           /\ tail = Empty => Kept' = Append(Kept, [seq |-> n, op |-> o])
           /\ tail # Empty => Kept' = Kept
<1> DEFINE rec == [seq |-> n, op |-> o]
<1>1. lines' = Append(lines, Joined(rec)) /\ tail' = Empty
  BY DEF WriteLine
<1>2. Readable(rec)
  BY RecordsAreReadable
<1> HIDE DEF rec
<1>3. Replayed' = Kept'
  BY <1>1 DEF Replayed, Contents, Kept
<1>4. Kept' = Keep(Kept, Joined(rec))
  <2>1. RecordsIn(Append(lines, Joined(rec))) = Keep(RecordsIn(lines), Joined(rec))
    BY ReadLine DEF IsSeq
  <2> QED
    BY <1>1, <2>1 DEF Kept
<1>5. /\ tail = Empty => Kept' = Append(Kept, rec)
      /\ tail # Empty => Kept' = Kept
  BY <1>2, <1>4, JoinedLine DEF Keep
<1> QED
  BY <1>3, <1>5 DEF rec

(* A write that is cut leaves what a start reads as it was, or drops a     *)
(* record that lay in the tail, or adds the new one: and that only onto an *)
(* empty tail.                                                             *)
LEMMA PrefixWritten ==
    ASSUME IsSeq(lines), NEW n, NEW o, WritePrefix([seq |-> n, op |-> o])
    PROVE  /\ Kept' = Kept
           /\ \/ Replayed' = Replayed
              \/ Replayed' = Kept
              \/ tail = Empty /\ Replayed' = Append(Kept, [seq |-> n, op |-> o])
<1> DEFINE rec == [seq |-> n, op |-> o]
<1>1. PICK text \in Prefixes(rec) :
          /\ tail' = IF text = Empty THEN tail ELSE Joined(text)
          /\ lines' = lines
  BY DEF WritePrefix
<1>2. Readable(rec) /\ rec # Empty
  BY RecordsAreReadable
<1>3. text \in {Empty, Junk, Undecodable, rec}
  BY DEF Prefixes
<1> HIDE DEF rec
<1>4. Kept' = Kept
  BY <1>1 DEF Kept
<1>5. CASE text = Empty
  BY <1>1, <1>4, <1>5 DEF Replayed, Contents
<1>6. CASE text # Empty
  <2>1. tail' = Joined(text) /\ tail' # Empty
    BY <1>1, <1>6, JoinedLine
  <2>2. Replayed' = Keep(Kept, tail')
    <3>1. RecordsIn(Append(lines, tail')) = Keep(RecordsIn(lines), tail')
      BY ReadLine DEF IsSeq
    <3> QED
      BY <1>1, <2>1, <3>1 DEF Replayed, Contents, Kept
  <2>3. CASE tail # Empty \/ text # rec
    <3>1. ~Readable(tail')
      BY <1>3, <1>6, <2>1, <2>3, JoinedLine, TextsDiffer
    <3> QED
      BY <1>4, <2>2, <3>1 DEF Keep, rec
  <2>4. CASE tail = Empty /\ text = rec
    BY <1>2, <1>4, <2>1, <2>2, <2>4, JoinedLine DEF Keep, rec
  <2> QED
    BY <2>3, <2>4
<1> QED
  BY <1>4, <1>5, <1>6 DEF rec

-----------------------------------------------------------------------------
(* What a file of records rebuilds.                                        *)

Rebuilt(records) == Replay(Ops(records))

IsRecords(records) == /\ IsSeq(records)
                      /\ \A i \in DOMAIN records : records[i].seq \in 1 .. MaxLog

Legible(records) == /\ IsRecords(records)
                    /\ IsStore(Rebuilt(records))
                    /\ BindingIdsFresh(Rebuilt(records))

(* One more record is applied last. *)
LEMMA RecordsAppend ==
    ASSUME NEW records, IsRecords(records), NEW n \in 1 .. MaxLog, NEW o
    PROVE  /\ IsRecords(Append(records, [seq |-> n, op |-> o]))
           /\ Rebuilt(Append(records, [seq |-> n, op |-> o])) = Apply(Rebuilt(records), o)
<1> DEFINE rec == [seq |-> n, op |-> o]
           more == Append(records, rec)
<1>1. /\ Len(records) \in Nat /\ DOMAIN records = 1 .. Len(records)
      /\ IsSeq(more)
      /\ DOMAIN more = 1 .. Len(records) + 1
      /\ \A i \in 1 .. Len(records) : more[i] = records[i]
      /\ more[Len(records) + 1] = rec
  BY AppendSeq DEF IsRecords
<1>2. rec.seq = n /\ rec.op = o
  OBVIOUS
<1>3. Rebuilt(more) = Apply(Rebuilt(records), o)
  <2> HIDE DEF rec
  <2>1. Replay(Ops(Append(records, rec))) = Apply(Replay(Ops(records)), rec.op)
    BY ReplayRecorded DEF IsRecords, IsSeq
  <2> QED
    BY <1>2, <2>1 DEF Rebuilt
<1> HIDE DEF more, rec
<1>4. IsRecords(more)
  <2> SUFFICES ASSUME NEW i \in 1 .. Len(records) + 1
               PROVE  more[i].seq \in 1 .. MaxLog
    BY <1>1 DEF IsRecords
  <2>1. CASE i = Len(records) + 1
    BY <1>1, <1>2, <2>1
  <2>2. CASE i \in 1 .. Len(records)
    BY <1>1, <2>2 DEF IsRecords
  <2> QED
    BY <1>1, <2>1, <2>2
<1> QED
  BY <1>3, <1>4 DEF more, rec

(* A new record keeps the rebuilt binding ids distinct if its own id is    *)
(* not below the counter, which it sets.                                   *)
LEMMA LegibleAppend ==
    ASSUME NEW records, Legible(records), NEW n \in 1 .. MaxLog, NEW o, IsOp(o),
           o.op = "bind-applicability" =>
               o.binding.id >= Rebuilt(records).nextBindingId
    PROVE  LET more == Append(records, [seq |-> n, op |-> o])
           IN  /\ Legible(more)
               /\ Rebuilt(more).nextBindingId =
                      IF o.op = "bind-applicability" THEN o.binding.id + 1
                      ELSE Rebuilt(records).nextBindingId
<1> DEFINE more == Append(records, [seq |-> n, op |-> o])
           st == Rebuilt(records)
<1>1. IsRecords(more) /\ Rebuilt(more) = Apply(st, o)
  BY RecordsAppend DEF Legible
<1>2. IsStore(st) /\ BindingIdsFresh(st)
  BY DEF Legible
<1> HIDE DEF more, st
<1>3. IsStore(Apply(st, o))
  BY <1>2, ApplyType
<1>4. /\ BindingIdsFresh(Apply(st, o))
      /\ Apply(st, o).nextBindingId =
             IF o.op = "bind-applicability" THEN o.binding.id + 1 ELSE st.nextBindingId
  <2>1. o.op = "bind-applicability" => o.binding.id >= st.nextBindingId
    BY DEF st
  <2> QED
    BY <1>2, <2>1, ApplyKeepsIdsFresh
<1> QED
  BY <1>1, <1>3, <1>4 DEF Legible, more, st

-----------------------------------------------------------------------------
(* The inductive invariant.                                                *)

(* The parts of the state are well-formed; a running process holds what its *)
(* log rebuilds.                                                           *)
MemoryInv == /\ IsStore(mem)
             /\ IsRecords(log)
             /\ up \in BOOLEAN
             /\ crashes \in 0 .. MaxCrash
             /\ failed \in BOOLEAN
             /\ IsSeq(lines)
             /\ \A i \in DOMAIN lines : lines[i] # Empty
             /\ up => mem = Rebuilt(log) /\ BindingIdsFresh(mem)

(* Whatever a start would read, now or after the tail is damaged, rebuilds  *)
(* a store with distinct binding ids, none of them past the counter of a    *)
(* running process.                                                        *)
FileInv == /\ Legible(Kept)
           /\ Legible(Replayed)
           /\ Rebuilt(Kept).nextBindingId <= Rebuilt(Replayed).nextBindingId
           /\ up => Rebuilt(Replayed).nextBindingId <= mem.nextBindingId

(* A step of the store under a running process.                            *)
WroteOp(o) == RecordedOp(o) /\ LastRecord(log') = [seq |-> Len(log) + 1, op |-> o]

(* The record every operation writes is the one it appends to the log. *)
LEMMA OperationWrites ==
    ASSUME MemoryInv, Next
    PROVE  \E o : WroteOp(o)
<1>1. PICK o : RecordedOp(o)
  BY OperationStep DEF MemoryInv
<1> DEFINE rec == [seq |-> Len(log) + 1, op |-> o]
<1>2. log' = Append(log, rec)
  BY <1>1 DEF RecordedOp, Record
<1> HIDE DEF rec
<1>3. Len(log') = Len(log) + 1 /\ log'[Len(log) + 1] = rec
  BY <1>2, AppendSeq DEF MemoryInv, IsRecords
<1>4. WroteOp(o)
  BY <1>1, <1>3 DEF LastRecord, WroteOp, rec
<1> QED
  BY <1>4

(* What it does to the memory.                                             *)
LEMMA OperationMemory ==
    ASSUME MemoryInv, up, NEW o, WroteOp(o)
    PROVE  /\ Len(log) + 1 \in 1 .. MaxLog
           /\ IsOp(o)
           /\ IsStore(mem')
           /\ IsRecords(log')
           /\ mem' = Rebuilt(log)'
           /\ BindingIdsFresh(mem')
           /\ IF o.op = "bind-applicability"
              THEN o.binding.id = mem.nextBindingId /\ mem'.nextBindingId = o.binding.id + 1
              ELSE mem'.nextBindingId = mem.nextBindingId
<1> DEFINE n == Len(log) + 1
<1>1. /\ IsOp(o) /\ Len(log) < MaxLog
      /\ log' = Append(log, [seq |-> n, op |-> o])
      /\ mem' = Apply(mem, o)
      /\ o.op = "bind-applicability" => o.binding.id = mem.nextBindingId
  BY DEF WroteOp, RecordedOp, Record
<1>2. n \in 1 .. MaxLog
  BY <1>1, AppendSeq, MaxLogAssumption DEF MemoryInv, IsRecords
<1> HIDE DEF n
<1>3. IsRecords(log') /\ Rebuilt(log') = Apply(Rebuilt(log), o)
  BY <1>1, <1>2, RecordsAppend DEF MemoryInv
<1>4. IsStore(mem')
  BY <1>1, ApplyType DEF MemoryInv
<1>5. mem.nextBindingId \in Nat
  BY DEF MemoryInv, IsStore
<1>6. /\ BindingIdsFresh(mem')
      /\ IF o.op = "bind-applicability" THEN mem'.nextBindingId = o.binding.id + 1
         ELSE mem'.nextBindingId = mem.nextBindingId
  <2>1. o.op = "bind-applicability" => o.binding.id >= mem.nextBindingId
    BY <1>1, <1>5
  <2> QED
    BY <1>1, <2>1, ApplyKeepsIdsFresh DEF MemoryInv
<1>7. mem' = Rebuilt(log)'
  BY <1>1, <1>3 DEF MemoryInv
<1> QED
  BY <1>1, <1>2, <1>3, <1>4, <1>6, <1>7 DEF n

(* What the record it writes does to the file: every reading of the file is *)
(* an old one, or the complete lines and the record.                        *)
Readings(rec) == \/ Kept' = Kept /\ Replayed' = Replayed
                 \/ Kept' = Kept /\ Replayed' = Kept
                 \/ /\ tail = Empty
                    /\ Replayed' = Append(Kept, rec)
                    /\ Kept' \in {Kept, Append(Kept, rec)}

(* What a record that is written, whole or in part, does to the readings. *)
LEMMA RecordWritten ==
    ASSUME MemoryInv, NEW o, WroteOp(o),
           WriteLine(LastRecord(log')) \/ WritePrefix(LastRecord(log'))
    PROVE  Readings([seq |-> Len(log) + 1, op |-> o])
<1> DEFINE n == Len(log) + 1
<1>1. LastRecord(log') = [seq |-> n, op |-> o] /\ IsSeq(lines)
  BY DEF WroteOp, MemoryInv
<1> HIDE DEF n
<1>2. CASE WriteLine([seq |-> n, op |-> o])
  BY <1>1, <1>2, LineWritten DEF Readings, n
<1>3. CASE WritePrefix([seq |-> n, op |-> o])
  BY <1>1, <1>3, PrefixWritten DEF Readings, n
<1> QED
  BY <1>1, <1>2, <1>3

(* A written record keeps what is on file good for a start. *)
LEMMA WriteKeepsFile ==
    ASSUME MemoryInv, FileInv, up, NEW o, WroteOp(o),
           Readings([seq |-> Len(log) + 1, op |-> o])
    PROVE  FileInv'
<1> DEFINE n == Len(log) + 1
           more == Append(Kept, [seq |-> n, op |-> o])
           old == Rebuilt(Kept).nextBindingId
           now == mem.nextBindingId
<1>1. /\ n \in 1 .. MaxLog /\ IsOp(o)
      /\ IF o.op = "bind-applicability"
         THEN o.binding.id = now /\ mem'.nextBindingId = o.binding.id + 1
         ELSE mem'.nextBindingId = now
  BY OperationMemory
<1>2. old \in Nat /\ Rebuilt(Replayed).nextBindingId \in Nat /\ now \in Nat
  BY DEF FileInv, Legible, MemoryInv, IsStore
<1>3. old <= Rebuilt(Replayed).nextBindingId /\ Rebuilt(Replayed).nextBindingId <= now
  BY DEF FileInv
<1>4. now <= mem'.nextBindingId /\ mem'.nextBindingId \in Nat
  BY <1>1, <1>2
<1>5. /\ Legible(more)
      /\ Rebuilt(more).nextBindingId =
             IF o.op = "bind-applicability" THEN o.binding.id + 1 ELSE old
  <2>1. o.op = "bind-applicability" => o.binding.id >= old
    BY <1>1, <1>2, <1>3
  <2> HIDE DEF n
  <2> QED
    BY <1>1, <2>1, LegibleAppend DEF FileInv
<1>6. /\ old <= Rebuilt(more).nextBindingId
      /\ Rebuilt(more).nextBindingId <= mem'.nextBindingId
  BY <1>1, <1>2, <1>3, <1>5
<1>7. /\ Kept' \in {Kept, more}
      /\ Replayed' \in {Replayed, Kept, more}
      /\ Kept' = more => Replayed' = more
  BY DEF Readings
<1> HIDE DEF n, more
<1>8. Legible(Kept') /\ Legible(Replayed')
  BY <1>5, <1>7 DEF FileInv
<1>9. Rebuilt(Kept').nextBindingId <= Rebuilt(Replayed').nextBindingId
  <2>1. CASE Kept' = more
    BY <1>2, <1>4, <1>5, <1>6, <1>7, <1>8, <2>1 DEF Legible, IsStore
  <2>2. CASE Kept' = Kept
    BY <1>2, <1>3, <1>6, <1>7, <2>2
  <2> QED
    BY <1>7, <2>1, <2>2
<1>10. Rebuilt(Replayed').nextBindingId <= mem'.nextBindingId
  BY <1>2, <1>3, <1>4, <1>6, <1>7
<1> QED
  BY <1>8, <1>9, <1>10 DEF FileInv

(* A recorded operation leaves the memory the fold of its log. *)
LEMMA WriteKeepsMemory ==
    ASSUME MemoryInv, up, NEW o, WroteOp(o),
           WriteLine(LastRecord(log')) \/ WritePrefix(LastRecord(log')),
           up' \in BOOLEAN, crashes' \in 0 .. MaxCrash, failed' \in BOOLEAN
    PROVE  MemoryInv'
<1> DEFINE rec == [seq |-> Len(log) + 1, op |-> o]
<1>1. /\ IsStore(mem') /\ IsRecords(log')
      /\ mem' = Rebuilt(log)' /\ BindingIdsFresh(mem')
  BY OperationMemory
<1>2. LastRecord(log') = rec
  BY DEF WroteOp
<1>3. rec # Empty
  BY RecordsAreReadable
<1> HIDE DEF rec
<1>4. IsSeq(lines') /\ \A i \in DOMAIN lines' : lines'[i] # Empty
  <2>1. CASE WritePrefix(LastRecord(log'))
    BY <2>1 DEF WritePrefix, MemoryInv
  <2>2. CASE WriteLine(LastRecord(log'))
    <3> DEFINE text == Joined(rec)
    <3>1. lines' = Append(lines, text)
      BY <1>2, <2>2 DEF WriteLine
    <3>2. text # Empty
      BY <1>3, JoinedLine
    <3> HIDE DEF text
    <3>3. /\ Len(lines) \in Nat /\ DOMAIN lines = 1 .. Len(lines)
          /\ IsSeq(lines')
          /\ DOMAIN lines' = 1 .. Len(lines) + 1
          /\ \A i \in 1 .. Len(lines) : lines'[i] = lines[i]
          /\ lines'[Len(lines) + 1] = text
      BY <3>1, AppendSeq DEF MemoryInv
    <3>4. ASSUME NEW i \in 1 .. Len(lines) + 1
          PROVE  lines'[i] # Empty
      <4>1. CASE i = Len(lines) + 1
        BY <3>2, <3>3, <4>1
      <4>2. CASE i \in 1 .. Len(lines)
        BY <3>3, <4>2 DEF MemoryInv
      <4> QED
        BY <3>3, <4>1, <4>2
    <3> QED
      BY <3>3, <3>4
  <2> QED
    BY <2>1, <2>2
<1> QED
  BY <1>1, <1>4 DEF MemoryInv, Rebuilt

(* Both together, for every operation and every way to write it. *)
LEMMA WriteKeepsInvariant ==
    ASSUME MemoryInv, FileInv, up, Next,
           WriteLine(LastRecord(log')) \/ WritePrefix(LastRecord(log')),
           up' \in BOOLEAN, crashes' \in 0 .. MaxCrash, failed' \in BOOLEAN
    PROVE  MemoryInv' /\ FileInv'
<1>1. PICK o : WroteOp(o)
  BY OperationWrites
<1> QED
  BY <1>1, RecordWritten, WriteKeepsMemory, WriteKeepsFile

(* What the death of the process changes. *)
LEMMA DieType ==
    ASSUME MemoryInv, Die
    PROVE  up /\ up' = FALSE /\ crashes' \in 0 .. MaxCrash /\ failed' = failed
                 /\ failed \in BOOLEAN
BY BoundsAssumption DEF MemoryInv, Die

(* A start leaves a memory that is the fold of what it read. *)
LEMMA RestartRebuilds ==
    ASSUME MemoryInv, FileInv, Restart
    PROVE  MemoryInv' /\ FileInv'
<1>1. /\ up' = TRUE /\ log' = Replayed
      /\ mem' = Rebuilt(Replayed)
      /\ lines' = lines /\ tail' = tail /\ crashes' = crashes /\ failed' = failed
  BY DEF Restart, journal, Rebuilt, Ops
<1>2. Kept' = Kept /\ Replayed' = Replayed
  BY <1>1 DEF Kept, Replayed, Contents
<1>3. MemoryInv'
  <2>1. IsStore(mem') /\ IsRecords(log') /\ BindingIdsFresh(mem') /\ mem' = Rebuilt(log)'
    BY <1>1 DEF FileInv, Legible, Rebuilt
  <2> QED
    BY <1>1, <2>1 DEF MemoryInv
<1>4. FileInv'
  <2>1. Rebuilt(Replayed').nextBindingId <= mem'.nextBindingId
    <3>1. Rebuilt(Replayed).nextBindingId \in Nat
      BY DEF FileInv, Legible, IsStore
    <3> QED
      BY <1>1, <1>2, <3>1
  <2>2. /\ Legible(Kept') /\ Legible(Replayed')
        /\ Rebuilt(Kept').nextBindingId <= Rebuilt(Replayed').nextBindingId
    BY <1>2 DEF FileInv
  <2> QED
    BY <2>1, <2>2 DEF FileInv
<1> QED
  BY <1>3, <1>4

(* The empty journal satisfies the invariant. *)
LEMMA JournalInitInvariant == JournalInit => MemoryInv /\ FileInv
<1> SUFFICES ASSUME JournalInit
             PROVE  MemoryInv /\ FileInv
  OBVIOUS
<1>1. /\ mem = EmptyStore /\ log = << >> /\ lines = << >> /\ tail = Empty
      /\ up = TRUE /\ crashes = 0 /\ failed = FALSE
  BY DEF JournalInit, Init
<1>2. IsStore(EmptyStore) /\ BindingIdsFresh(EmptyStore)
  BY InitType DEF JournalInit, Init, TypeOK, EmptyStore, BindingIdsFresh
<1>3. IsSeq(<< >>) /\ IsRecords(<< >>) /\ DOMAIN << >> = {}
  BY EmptySeq DEF IsSeq, IsRecords
<1>4. Rebuilt(<< >>) = EmptyStore
  <2>1. Ops(<< >>) = << >>
    BY DEF Ops
  <2> QED
    BY <2>1, ReplayEmpty DEF Rebuilt
<1>5. Kept = << >> /\ Replayed = << >>
  BY <1>1, ReadingEmpty DEF Kept, Replayed, Contents
<1>6. MemoryInv
  <2>1. mem = Rebuilt(log) /\ 0 \in 0 .. MaxCrash
    BY <1>1, <1>4, BoundsAssumption
  <2>2. IsSeq(lines) /\ \A i \in DOMAIN lines : lines[i] # Empty
    BY <1>1, <1>3
  <2> QED
    BY <1>1, <1>2, <1>3, <2>1, <2>2 DEF MemoryInv
<1>7. FileInv
  BY <1>1, <1>2, <1>3, <1>4, <1>5 DEF FileInv, Legible, IsStore
<1> QED
  BY <1>6, <1>7

(* Every step of the journal keeps it. *)
LEMMA JournalInductive ==
    MemoryInv /\ FileInv /\ [JournalNext]_jvars => MemoryInv' /\ FileInv'
<1> SUFFICES ASSUME MemoryInv, FileInv, [JournalNext]_jvars
             PROVE  MemoryInv' /\ FileInv'
  OBVIOUS
<1>1. CASE Serve \/ ServeUnwritten
  <2>1. /\ up /\ Next /\ up' = up /\ crashes' = crashes
        /\ WriteLine(LastRecord(log')) \/ WritePrefix(LastRecord(log'))
        /\ failed' \in BOOLEAN
    BY <1>1 DEF Serve, ServeUnwritten, Answer, MemoryInv
  <2>2. up' \in BOOLEAN /\ crashes' \in 0 .. MaxCrash
    BY <2>1 DEF MemoryInv
  <2> QED
    BY <2>1, <2>2, WriteKeepsInvariant
<1>2. CASE CrashUnanswered \/ CrashMidWrite
  <2>1. /\ Die /\ Next
        /\ WriteLine(LastRecord(log')) \/ WritePrefix(LastRecord(log'))
    BY <1>2 DEF CrashUnanswered, CrashMidWrite
  <2>2. up /\ up' \in BOOLEAN /\ crashes' \in 0 .. MaxCrash /\ failed' \in BOOLEAN
    BY <2>1, DieType
  <2> QED
    BY <2>1, <2>2, WriteKeepsInvariant
<1>3. CASE Crash
  <2>1. /\ mem' = mem /\ log' = log /\ lines' = lines /\ tail' = tail
        /\ up' = FALSE /\ crashes' \in 0 .. MaxCrash /\ failed' = failed
    BY <1>3, DieType DEF Crash, journal
  <2>2. Kept' = Kept /\ Replayed' = Replayed
    BY <2>1 DEF Kept, Replayed, Contents
  <2> QED
    BY <2>1, <2>2 DEF MemoryInv, FileInv
<1>4. CASE Restart
  BY <1>4, RestartRebuilds
<1>5. CASE UNCHANGED jvars
  <2>1. /\ mem' = mem /\ log' = log /\ lines' = lines /\ tail' = tail
        /\ up' = up /\ crashes' = crashes /\ failed' = failed
    BY <1>5 DEF jvars
  <2>2. Kept' = Kept /\ Replayed' = Replayed
    BY <2>1 DEF Kept, Replayed, Contents
  <2> QED
    BY <2>1, <2>2 DEF MemoryInv, FileInv, Rebuilt
<1> QED
  BY <1>1, <1>2, <1>3, <1>4, <1>5 DEF JournalNext

(* The invariant holds in every reachable state. *)
LEMMA JournalInvariant == JournalSpec => [](MemoryInv /\ FileInv)
BY JournalInitInvariant, JournalInductive, PTL DEF JournalSpec

(* The type invariant of the store with its journal: after any mix of       *)
(* crashes, torn lines and failed writes the memory is a well-formed store, *)
(* and every record it holds is numbered within the bound (Store::open,     *)
(* Store::replay, Store::record).                                          *)
THEOREM JournalTypes == JournalSpec => []JournalTypeOK
<1>1. MemoryInv => JournalTypeOK
  BY DEF MemoryInv, JournalTypeOK, IsRecords
<1> QED
  BY <1>1, JournalInvariant, PTL

(* The memory of a running process is what the records of its own audit log *)
(* rebuild, whatever lines were lost before it started (Store::replay       *)
(* pushes what it applies, Store::record applies what it pushes).           *)
THEOREM MemoryFollowsLog == JournalSpec => []MemoryIsLog
<1>1. MemoryInv => MemoryIsLog
  BY DEF MemoryInv, MemoryIsLog, Rebuilt, Ops
<1> QED
  BY <1>1, JournalInvariant, PTL

(* No two bindings of a running process share an id, although lines with    *)
(* bindings may be lost, skipped or replayed unanswered: the counter a      *)
(* start derives is past every id on file (the arm of Store::apply for a    *)
(* binding, Store::bind).                                                  *)
THEOREM BindingIdsSurvive == JournalSpec => []BindingIdsUniqueWhenUp
<1>1. MemoryInv => BindingIdsUniqueWhenUp
  BY DEF MemoryInv, BindingIdsUniqueWhenUp
<1> QED
  BY <1>1, JournalInvariant, PTL

-----------------------------------------------------------------------------
(* A torn tail costs nothing.                                              *)

Clean == \A i \in DOMAIN lines : Readable(lines[i])

Sane(records) == IsLog(records) /\ ItemHistoriesLinear(Rebuilt(records))

(* While no complete line is damaged a start reads all of them, and while   *)
(* no write has failed either, the log of a running process is what the     *)
(* file reads as.                                                          *)
WholeInv == /\ Clean => Kept = lines
            /\ Whole => Sane(Kept) /\ Sane(Replayed) /\ (up => log = Replayed)

(* A line written onto a torn tail is damaged. *)
LEMMA CleanWrite ==
    ASSUME MemoryInv, NEW n, NEW o, WriteLine([seq |-> n, op |-> o]), Clean'
    PROVE  Clean /\ tail = Empty /\ lines' = Append(lines, [seq |-> n, op |-> o])
<1> DEFINE rec == [seq |-> n, op |-> o]
           text == Joined(rec)
<1>1. lines' = Append(lines, text)
  BY DEF WriteLine
<1> HIDE DEF rec, text
<1>2. /\ Len(lines) \in Nat /\ DOMAIN lines = 1 .. Len(lines)
      /\ DOMAIN lines' = 1 .. Len(lines) + 1
      /\ \A i \in 1 .. Len(lines) : lines'[i] = lines[i]
      /\ lines'[Len(lines) + 1] = text
  BY <1>1, AppendSeq DEF MemoryInv
<1>3. /\ \A i \in 1 .. Len(lines) : Readable(lines'[i])
      /\ Readable(text)
  BY <1>2 DEF Clean
<1>4. Clean
  BY <1>2, <1>3 DEF Clean
<1>5. tail = Empty /\ text = rec
  BY <1>3, JoinedLine DEF text
<1> QED
  BY <1>1, <1>4, <1>5 DEF rec

(* A step from a log that rebuilds linear histories leaves such a log. *)
LEMMA StepStaysSane ==
    ASSUME MemoryInv, up, Sane(log), NEW o, WroteOp(o), Next
    PROVE  Sane(log')
<1>1. TypeOK /\ HistoriesLinear
  BY DEF MemoryInv, Sane, TypeOK, HistoriesLinear
<1>2. TypeOK' /\ HistoriesLinear'
  BY <1>1, TypeInductive, HistoriesInductive
<1>3. mem' = Rebuilt(log')
  <2>1. mem' = Rebuilt(log)'
    BY OperationMemory
  <2> QED
    BY <2>1
<1> QED
  BY <1>2, <1>3 DEF Sane, TypeOK, HistoriesLinear

(* A record that is written whole keeps a whole file the log. *)
LEMMA LineKeepsWhole ==
    ASSUME MemoryInv, WholeInv, up, NEW o, WroteOp(o), Next,
           WriteLine(LastRecord(log')), failed' = failed
    PROVE  WholeInv'
<1> DEFINE n == Len(log) + 1
           rec == [seq |-> n, op |-> o]
<1>1. WriteLine(rec)
  BY DEF WroteOp
<1>2. log' = Append(log, rec)
  BY DEF WroteOp, RecordedOp, Record
<1> HIDE DEF n
<1>3. ASSUME Clean'
      PROVE  Clean /\ tail = Empty /\ lines' = Append(lines, rec)
  BY <1>1, <1>3, CleanWrite
<1>4. /\ Replayed' = Kept'
      /\ tail = Empty => Kept' = Append(Kept, rec) /\ Replayed = Kept
  BY <1>1, LineWritten, ReplayedOfTail DEF MemoryInv
<1> HIDE DEF rec
<1>5. ASSUME Clean'
      PROVE  Kept' = lines'
  BY <1>3, <1>4, <1>5 DEF WholeInv
<1>6. ASSUME Whole'
      PROVE  Sane(Kept') /\ Sane(Replayed') /\ log' = Replayed'
  <2>1. Clean' /\ ~failed
    BY <1>6 DEF Whole, Clean
  <2>2. Whole /\ tail = Empty
    BY <1>3, <2>1 DEF Whole, Clean
  <2>3. log = Kept /\ Sane(log)
    BY <1>4, <2>2 DEF WholeInv
  <2>4. Sane(log')
    BY <2>3, StepStaysSane
  <2> QED
    BY <1>2, <1>4, <2>2, <2>3, <2>4
<1> QED
  BY <1>5, <1>6 DEF WholeInv

(* So does one that is cut, by death or by a write that failed. *)
LEMMA PrefixKeepsWhole ==
    ASSUME MemoryInv, WholeInv, up, NEW o, WroteOp(o), Next,
           WritePrefix(LastRecord(log')), failed' = TRUE \/ (failed' = failed /\ ~up')
    PROVE  WholeInv'
<1> DEFINE n == Len(log) + 1
           rec == [seq |-> n, op |-> o]
<1>1. WritePrefix(rec)
  BY DEF WroteOp
<1>2. log' = Append(log, rec) /\ lines' = lines
  BY <1>1 DEF WroteOp, RecordedOp, Record, WritePrefix
<1>3. /\ Kept' = Kept
      /\ \/ Replayed' = Replayed
         \/ Replayed' = Kept
         \/ tail = Empty /\ Replayed' = Append(Kept, rec)
      /\ tail = Empty => Replayed = Kept
  <2> HIDE DEF n
  <2> QED
    BY <1>1, PrefixWritten, ReplayedOfTail DEF MemoryInv
<1> HIDE DEF n, rec
<1>4. ASSUME Clean'
      PROVE  Kept' = lines'
  BY <1>2, <1>3, <1>4 DEF WholeInv, Clean
<1>5. ASSUME Whole'
      PROVE  Sane(Kept') /\ Sane(Replayed') /\ ~up'
  <2>1. Whole /\ ~up'
    BY <1>2, <1>5 DEF Whole
  <2>2. Sane(Kept) /\ Sane(Replayed) /\ log = Replayed
    BY <2>1 DEF WholeInv
  <2>3. Sane(log')
    BY <2>2, StepStaysSane
  <2> QED
    BY <1>2, <1>3, <2>1, <2>2, <2>3
<1> QED
  BY <1>4, <1>5 DEF WholeInv

(* The empty journal is whole. *)
LEMMA WholeInit == JournalInit => WholeInv
<1> SUFFICES ASSUME JournalInit
             PROVE  WholeInv
  OBVIOUS
<1>1. log = << >> /\ lines = << >> /\ tail = Empty
  BY DEF JournalInit, Init
<1>2. Kept = << >> /\ Replayed = << >>
  BY <1>1, ReadingEmpty DEF Kept, Replayed, Contents
<1>3. Rebuilt(<< >>) = EmptyStore
  <2>1. Ops(<< >>) = << >>
    BY DEF Ops
  <2> QED
    BY <2>1, ReplayEmpty DEF Rebuilt
<1>4. Sane(<< >>)
  <2>1. IsLog(<< >>)
    BY EmptySeq DEF IsLog
  <2>2. ItemHistoriesLinear(EmptyStore)
    BY DEF ItemHistoriesLinear, EmptyStore
  <2> QED
    BY <1>3, <2>1, <2>2 DEF Sane
<1> QED
  BY <1>1, <1>2, <1>4 DEF WholeInv

(* Every step keeps WholeInv. *)
LEMMA WholeInductive ==
    MemoryInv /\ FileInv /\ WholeInv /\ [JournalNext]_jvars => WholeInv'
<1> SUFFICES ASSUME MemoryInv, WholeInv, [JournalNext]_jvars
             PROVE  WholeInv'
  OBVIOUS
<1>1. CASE Serve \/ CrashUnanswered
  <2>1. up /\ Next /\ WriteLine(LastRecord(log')) /\ failed' = failed
    BY <1>1 DEF Serve, Answer, CrashUnanswered, Die
  <2>2. PICK o : WroteOp(o)
    BY <2>1, OperationWrites
  <2> QED
    BY <2>1, <2>2, LineKeepsWhole
<1>2. CASE ServeUnwritten \/ CrashMidWrite
  <2>1. /\ up /\ Next /\ WritePrefix(LastRecord(log'))
        /\ failed' = TRUE \/ (failed' = failed /\ ~up')
    BY <1>2 DEF ServeUnwritten, Answer, CrashMidWrite, Die
  <2>2. PICK o : WroteOp(o)
    BY <2>1, OperationWrites
  <2> QED
    BY <2>1, <2>2, PrefixKeepsWhole
<1>3. CASE Crash \/ Restart \/ UNCHANGED jvars
  <2>1. /\ lines' = lines /\ tail' = tail /\ failed' = failed
        /\ \/ ~up'
           \/ log' = Replayed
           \/ up' = up /\ log' = log
    BY <1>3 DEF Crash, Die, Restart, journal, jvars
  <2>2. Kept' = Kept /\ Replayed' = Replayed /\ Clean' = Clean /\ Whole' = Whole
    BY <2>1 DEF Kept, Replayed, Contents, Clean, Whole
  <2> QED
    BY <2>1, <2>2 DEF WholeInv
<1> QED
  BY <1>1, <1>2, <1>3 DEF JournalNext

(* As long as only the last line is torn, every start and every step leaves *)
(* each item one valid version at the end of one chain, whether the record  *)
(* in the torn line was replayed or skipped (Store::replay, "a torn final   *)
(* line (crash mid-write) is tolerated").                                  *)
THEOREM HistoriesSurvive == JournalSpec => []HistoriesSurviveTornTail
<1>1. MemoryInv /\ WholeInv => HistoriesSurviveTornTail
  BY DEF MemoryInv, WholeInv, Sane, HistoriesSurviveTornTail
<1> QED
  BY <1>1, WholeInit, WholeInductive, JournalInvariant, PTL DEF JournalSpec

-----------------------------------------------------------------------------
(* Answered operations stay in the file, in the order of the answers.       *)

Embeds(ops, records) ==
    \E at \in [DOMAIN ops -> DOMAIN records] :
        /\ \A i \in DOMAIN ops : records[at[i]].op = ops[i]
        /\ \A i, j \in DOMAIN ops : i < j => at[i] < at[j]

AckedInv == IsSeq(acked) /\ (Whole => Embeds(acked, lines))

(* A file that grows still holds what it held. *)
LEMMA EmbedsInLonger ==
    ASSUME NEW ops, NEW records, IsSeq(records), Embeds(ops, records), NEW x
    PROVE  Embeds(ops, Append(records, x))
<1> DEFINE more == Append(records, x)
<1>1. /\ DOMAIN records = 1 .. Len(records) /\ Len(records) \in Nat
      /\ DOMAIN more = 1 .. Len(records) + 1
      /\ \A i \in 1 .. Len(records) : more[i] = records[i]
  BY AppendSeq
<1> HIDE DEF more
<1>2. PICK at \in [DOMAIN ops -> DOMAIN records] :
          /\ \A i \in DOMAIN ops : records[at[i]].op = ops[i]
          /\ \A i, j \in DOMAIN ops : i < j => at[i] < at[j]
  BY DEF Embeds
<1>3. at \in [DOMAIN ops -> DOMAIN more]
  <2>1. DOMAIN records \subseteq DOMAIN more
    BY <1>1
  <2> QED
    BY <2>1
<1>4. \A i \in DOMAIN ops : more[at[i]].op = ops[i]
  BY <1>1, <1>2
<1>5. Embeds(ops, more)
  BY <1>2, <1>3, <1>4 DEF Embeds
<1> QED
  BY <1>5 DEF more

(* A record that is written and answered is the last of both. *)
LEMMA EmbedsAnswered ==
    ASSUME NEW ops, IsSeq(ops), NEW records, IsSeq(records), Embeds(ops, records),
           NEW rec
    PROVE  Embeds(Append(ops, rec.op), Append(records, rec))
<1> DEFINE m == Len(ops)
           n == Len(records)
           more == Append(records, rec)
           answered == Append(ops, rec.op)
<1>1. /\ DOMAIN records = 1 .. n /\ n \in Nat
      /\ DOMAIN more = 1 .. n + 1
      /\ \A i \in 1 .. n : more[i] = records[i]
      /\ more[n + 1] = rec
  BY AppendSeq
<1>2. /\ DOMAIN ops = 1 .. m /\ m \in Nat
      /\ DOMAIN answered = 1 .. m + 1
      /\ \A i \in 1 .. m : answered[i] = ops[i]
      /\ answered[m + 1] = rec.op
  BY AppendSeq
<1> HIDE DEF m, n, more, answered
<1>3. PICK at \in [1 .. m -> 1 .. n] :
          /\ \A i \in 1 .. m : records[at[i]].op = ops[i]
          /\ \A i, j \in 1 .. m : i < j => at[i] < at[j]
  BY <1>1, <1>2 DEF Embeds
<1> DEFINE longer == [i \in 1 .. m + 1 |-> IF i = m + 1 THEN n + 1 ELSE at[i]]
<1>4. /\ longer[m + 1] = n + 1
      /\ \A i \in 1 .. m : longer[i] = at[i] /\ at[i] \in 1 .. n
  BY <1>2
<1>5. longer \in [1 .. m + 1 -> 1 .. n + 1]
  BY <1>1, <1>2
<1> HIDE DEF longer
<1>6. ASSUME NEW i \in 1 .. m + 1
      PROVE  more[longer[i]].op = answered[i]
  <2>1. CASE i = m + 1
    BY <1>1, <1>2, <1>4, <2>1
  <2>2. CASE i \in 1 .. m
    BY <1>1, <1>2, <1>3, <1>4, <2>2
  <2> QED
    BY <1>2, <2>1, <2>2
<1>7. ASSUME NEW i \in 1 .. m + 1, NEW j \in 1 .. m + 1, i < j
      PROVE  longer[i] < longer[j]
  <2>1. i \in 1 .. m
    BY <1>2, <1>7
  <2>2. CASE j = m + 1
    BY <1>1, <1>4, <2>1, <2>2
  <2>3. CASE j \in 1 .. m
    BY <1>3, <1>4, <1>7, <2>1, <2>3
  <2> QED
    BY <1>2, <2>2, <2>3
<1>8. Embeds(answered, more)
  BY <1>1, <1>2, <1>5, <1>6, <1>7 DEF Embeds
<1> QED
  BY <1>8 DEF more, answered

(* Nothing is answered at first. *)
LEMMA AckedInit == JournalInit => AckedInv
<1> SUFFICES ASSUME JournalInit
             PROVE  AckedInv
  OBVIOUS
<1>1. acked = << >> /\ lines = << >>
  BY DEF JournalInit
<1>2. DOMAIN << >> = {} /\ IsSeq(<< >>)
  BY EmptySeq DEF IsSeq
<1>3. Embeds(<< >>, << >>)
  <2> DEFINE none == [i \in {} |-> 1]
  <2>1. none \in [{} -> {}]
    OBVIOUS
  <2> HIDE DEF none
  <2> QED
    BY <1>2, <2>1 DEF Embeds
<1> QED
  BY <1>1, <1>2, <1>3 DEF AckedInv

(* Every step keeps AckedInv: what is answered was written whole before,   *)
(* or a write has failed.                                                  *)
LEMMA AckedInductive ==
    MemoryInv /\ FileInv /\ AckedInv /\ [JournalNext]_jvars => AckedInv'
<1> SUFFICES ASSUME MemoryInv, AckedInv, [JournalNext]_jvars
             PROVE  AckedInv'
  OBVIOUS
<1>1. ASSUME WriteLine(LastRecord(log')), Next, failed' = failed, Whole'
      PROVE  /\ Whole /\ Embeds(acked, lines)
             /\ lines' = Append(lines, LastRecord(log'))
  <2>1. PICK o : WroteOp(o)
    BY <1>1, OperationWrites
  <2>2. Clean'
    BY <1>1 DEF Whole, Clean
  <2> DEFINE n == Len(log) + 1
  <2>3. LastRecord(log') = [seq |-> n, op |-> o]
    BY <2>1 DEF WroteOp
  <2> HIDE DEF n
  <2>4. Clean /\ lines' = Append(lines, LastRecord(log'))
    BY <1>1, <2>2, <2>3, CleanWrite
  <2> QED
    BY <1>1, <2>4 DEF Whole, Clean, AckedInv
<1>2. CASE Serve
  <2> DEFINE rec == LastRecord(log')
  <2>1. WriteLine(rec) /\ Next /\ failed' = failed /\ acked' = Append(acked, rec.op)
    BY <1>2 DEF Serve, Answer
  <2>2. IsSeq(acked')
    BY <2>1, AppendSeq DEF AckedInv
  <2>3. ASSUME Whole'
        PROVE  Embeds(acked', lines')
    <3>1. Embeds(acked, lines) /\ lines' = Append(lines, rec)
      BY <1>1, <2>1, <2>3
    <3> HIDE DEF rec
    <3>2. Embeds(Append(acked, rec.op), Append(lines, rec))
      BY <3>1, EmbedsAnswered DEF MemoryInv, AckedInv
    <3> QED
      BY <2>1, <3>1, <3>2
  <2> QED
    BY <2>2, <2>3 DEF AckedInv
<1>3. CASE ServeUnwritten
  <2>1. failed' = TRUE /\ acked' = Append(acked, LastRecord(log').op)
    BY <1>3 DEF ServeUnwritten, Answer
  <2>2. IsSeq(acked')
    BY <2>1, AppendSeq DEF AckedInv
  <2> QED
    BY <2>1, <2>2 DEF AckedInv, Whole
<1>4. CASE CrashUnanswered
  <2> DEFINE rec == LastRecord(log')
  <2>1. WriteLine(rec) /\ Next /\ failed' = failed /\ acked' = acked
    BY <1>4 DEF CrashUnanswered, Die
  <2>2. ASSUME Whole'
        PROVE  Embeds(acked', lines')
    <3>1. Embeds(acked, lines) /\ lines' = Append(lines, rec)
      BY <1>1, <2>1, <2>2
    <3> HIDE DEF rec
    <3> QED
      BY <2>1, <3>1, EmbedsInLonger DEF MemoryInv
  <2> QED
    BY <2>1, <2>2 DEF AckedInv
<1>5. CASE Crash \/ CrashMidWrite \/ Restart \/ UNCHANGED jvars
  <2>1. lines' = lines /\ acked' = acked /\ failed' = failed
    BY <1>5 DEF Crash, CrashMidWrite, WritePrefix, Die, Restart, journal, jvars
  <2>2. Whole' = Whole
    BY <2>1 DEF Whole
  <2> QED
    BY <2>1, <2>2 DEF AckedInv
<1> QED
  BY <1>2, <1>3, <1>4, <1>5 DEF JournalNext

(* As long as only the last line is torn, everything that was answered is   *)
(* in the audit log of the process that runs, in the order of the answers   *)
(* (README, "the log replays losslessly").                                  *)
THEOREM AnswersSurvive == JournalSpec => []AnswersSurviveTornTail
<1>1. MemoryInv /\ WholeInv /\ AckedInv => AnswersSurviveTornTail
  <2> SUFFICES ASSUME MemoryInv, WholeInv, AckedInv, Whole, up
               PROVE  Embeds(acked, log)
    BY DEF AnswersSurviveTornTail, AnsweredSurvive, Embeds
  <2>1. Embeds(acked, lines) /\ IsSeq(lines)
    BY DEF AckedInv, MemoryInv
  <2>2. Kept = lines /\ log = Replayed
    BY DEF WholeInv, Whole, Clean
  <2>3. Replayed = lines \/ Replayed = Append(lines, tail)
    BY <2>1, <2>2, ReplayedOfTail DEF Keep
  <2> QED
    BY <2>1, <2>2, <2>3, EmbedsInLonger
<1> QED
  BY <1>1, WholeInit, WholeInductive, AckedInit, AckedInductive, JournalInvariant, PTL
     DEF JournalSpec

-----------------------------------------------------------------------------
(* The journal implements the store.                                       *)

SoundUpTo(s, n) == \A i \in 1 .. n : Readable(s[i]) /\ s[i].seq = i

SoundCounts(s) == {n \in 0 .. Len(s) : SoundUpTo(s, n)}

SoundPrefix(s) == SubSeq(s, 1, Max(SoundCounts(s)))

(* SoundLines, as an operator on any file. *)
LEMMA SoundLinesPrefix == /\ SoundLines = SoundPrefix(lines)
                          /\ SoundLines' = SoundPrefix(lines')
BY DEF SoundLines, SoundPrefix, SoundCounts, Sound, SoundUpTo

(* The length of the sound prefix is the largest of the sound ones. *)
LEMMA SoundCountsMax ==
    ASSUME NEW s, IsSeq(s)
    PROVE  /\ Max(SoundCounts(s)) \in 0 .. Len(s)
           /\ SoundUpTo(s, Max(SoundCounts(s)))
           /\ \A n \in SoundCounts(s) : n <= Max(SoundCounts(s))
<1> DEFINE len == Len(s)
           S == SoundCounts(s)
           T == {k \in Nat : k <= len /\ SoundUpTo(s, len - k)}
<1>1. len \in Nat
  BY LenProperties DEF IsSeq
<1>2. len \in T
  BY <1>1 DEF SoundUpTo
<1>3. PICK k \in T : \A j \in T : k <= j
  <2>1. T \subseteq Nat
    OBVIOUS
  <2> HIDE DEF T
  <2> QED
    BY <1>2, <2>1, LeastElement
<1>4. len - k \in S /\ \A n \in S : n <= len - k
  <2>1. len - k \in S
    BY <1>1, <1>3 DEF SoundCounts
  <2>2. ASSUME NEW n \in S
        PROVE  n <= len - k
    <3>1. n \in 0 .. len /\ SoundUpTo(s, n) /\ len - (len - n) = n
      BY <1>1 DEF SoundCounts
    <3>2. len - n \in T
      BY <1>1, <3>1
    <3>3. k <= len - n /\ k \in Nat
      BY <1>3, <3>2
    <3> QED
      BY <1>1, <3>1, <3>3
  <2> QED
    BY <2>1, <2>2
<1> HIDE DEF T
<1>5. Max(S) \in S /\ \A n \in S : n <= Max(S)
  <2>1. S \subseteq Int
    BY <1>1 DEF SoundCounts
  <2> HIDE DEF S
  <2>2. \E m \in S : \A n \in S : m >= n
    BY <1>4, <2>1
  <2>3. Max(S) \in S /\ \A n \in S : Max(S) >= n
    BY <2>2 DEF Max
  <2> QED
    BY <2>1, <2>3
<1> QED
  BY <1>5 DEF SoundCounts

(* A file all of whose lines are sound is its sound prefix, and a line that *)
(* breaks the numbering leaves the prefix where it was.                    *)
LEMMA SoundWhole ==
    ASSUME NEW s, IsSeq(s), SoundUpTo(s, Len(s))
    PROVE  SoundPrefix(s) = s
<1>1. Len(s) \in Nat
  BY LenProperties DEF IsSeq
<1>2. Len(s) \in SoundCounts(s)
  BY <1>1 DEF SoundCounts
<1>3. Max(SoundCounts(s)) = Len(s)
  BY <1>1, <1>2, SoundCountsMax
<1>4. SubSeq(s, 1, Len(s)) = s
  BY SubSeqFull DEF IsSeq
<1> QED
  BY <1>3, <1>4 DEF SoundPrefix

(* A line that is not sound where it comes leaves the sound prefix alone. *)
LEMMA SoundBroken ==
    ASSUME NEW s, IsSeq(s), NEW x, ~SoundUpTo(Append(s, x), Len(s) + 1)
    PROVE  SoundPrefix(Append(s, x)) = SoundPrefix(s)
<1> DEFINE more == Append(s, x)
           m == Max(SoundCounts(s))
<1>1. /\ Len(s) \in Nat
      /\ IsSeq(more) /\ Len(more) = Len(s) + 1
      /\ \A i \in 1 .. Len(s) : more[i] = s[i]
  BY AppendSeq
<1> HIDE DEF more
<1>2. \A n \in 0 .. Len(s) : SoundUpTo(more, n) <=> SoundUpTo(s, n)
  BY <1>1 DEF SoundUpTo
<1>3. SoundCounts(more) = SoundCounts(s)
  <2>1. ~SoundUpTo(more, Len(s) + 1)
    BY DEF more
  <2> QED
    BY <1>1, <1>2, <2>1 DEF SoundCounts
<1>4. m \in 0 .. Len(s)
  BY SoundCountsMax
<1> HIDE DEF m
<1>5. SubSeq(more, 1, m) = SubSeq(s, 1, m)
  <2>1. /\ SubSeq(s, 1, m) \in Seq({s[i] : i \in DOMAIN s})
        /\ Len(SubSeq(s, 1, m)) = m
        /\ \A i \in 1 .. m : SubSeq(s, 1, m)[i] = s[i]
    BY <1>1, <1>4, SubSeqProperties DEF IsSeq
  <2>2. /\ SubSeq(more, 1, m) \in Seq({more[i] : i \in DOMAIN more})
        /\ Len(SubSeq(more, 1, m)) = m
        /\ \A i \in 1 .. m : SubSeq(more, 1, m)[i] = more[i]
    BY <1>1, <1>4, SubSeqProperties DEF IsSeq
  <2> DEFINE a == SubSeq(s, 1, m)
             b == SubSeq(more, 1, m)
  <2>3. a = [i \in 1 .. m |-> a[i]] /\ b = [i \in 1 .. m |-> b[i]]
    <3> HIDE DEF a, b
    <3>1. a \in Seq({s[i] : i \in DOMAIN s}) /\ b \in Seq({more[i] : i \in DOMAIN more})
          /\ Len(a) = m /\ Len(b) = m
      BY <2>1, <2>2 DEF a, b
    <3> QED
      BY <3>1, LenProperties
  <2>4. \A i \in 1 .. m : a[i] = b[i]
    BY <1>1, <1>4, <2>1, <2>2
  <2> HIDE DEF a, b
  <2>5. a = b
    BY <2>3, <2>4
  <2> QED
    BY <2>5 DEF a, b
<1> QED
  BY <1>3, <1>5 DEF SoundPrefix, more, m

(* While every line of the file is sound, a running process holds exactly   *)
(* those records, or more of them: then the next one breaks the numbering.  *)
SoundInv == up /\ SoundUpTo(lines, Len(lines)) => log = lines \/ Len(log) > Len(lines)

(* A step that moves the sound prefix is a step of the store that has its   *)
(* log there.                                                              *)
DiskStep == \/ SoundLines' = SoundLines
            \/ /\ Next
               /\ log = SoundLines /\ log' = SoundLines'
               /\ mem = Rebuilt(log) /\ mem' = Rebuilt(log')

(* A line that is written extends the sound prefix by the record of the    *)
(* step, or leaves it alone.                                               *)
LEMMA LineKeepsSound ==
    ASSUME MemoryInv, SoundInv, up, Next, WriteLine(LastRecord(log'))
    PROVE  SoundInv' /\ DiskStep
<1>1. PICK o : WroteOp(o)
  BY OperationWrites
<1> DEFINE n == Len(log) + 1
           rec == [seq |-> n, op |-> o]
           text == Joined(rec)
<1>2. log' = Append(log, rec) /\ lines' = Append(lines, text)
  BY <1>1 DEF WroteOp, RecordedOp, Record, WriteLine
<1>3. rec.seq = n
  OBVIOUS
<1>4. text = rec \/ ~Readable(text)
  BY JoinedLine
<1>5. mem = Rebuilt(log) /\ mem' = Rebuilt(log')
  <2>1. mem' = Rebuilt(log)'
    BY <1>1, OperationMemory
  <2> QED
    BY <2>1 DEF MemoryInv
<1> HIDE DEF rec, text
<1>6. /\ Len(lines) \in Nat /\ IsSeq(lines) /\ IsSeq(lines')
      /\ Len(lines') = Len(lines) + 1
      /\ \A i \in 1 .. Len(lines) : lines'[i] = lines[i]
      /\ lines'[Len(lines) + 1] = text
  BY <1>2, AppendSeq DEF MemoryInv
<1>7. Len(log) \in Nat
  BY AppendSeq DEF MemoryInv, IsRecords
<1>8. SoundLines = SoundPrefix(lines) /\ SoundLines' = SoundPrefix(lines')
  BY SoundLinesPrefix
<1>9. CASE SoundUpTo(lines', Len(lines) + 1)
  <2>1. SoundUpTo(lines, Len(lines)) /\ Readable(text) /\ text.seq = Len(lines) + 1
    BY <1>6, <1>9 DEF SoundUpTo
  <2>2. text = rec /\ Len(log) = Len(lines)
    BY <1>3, <1>4, <1>6, <1>7, <2>1
  <2>3. log = lines /\ log' = lines'
    BY <1>2, <1>6, <2>1, <2>2 DEF SoundInv
  <2>4. SoundLines = lines /\ SoundLines' = lines'
    BY <1>6, <1>8, <1>9, <2>1, SoundWhole
  <2> QED
    BY <1>5, <2>3, <2>4 DEF SoundInv, DiskStep
<1>10. CASE ~SoundUpTo(lines', Len(lines) + 1)
  <2>1. SoundLines' = SoundLines
    BY <1>2, <1>6, <1>8, <1>10, SoundBroken
  <2> QED
    BY <1>6, <1>10, <2>1 DEF SoundInv, DiskStep
<1> QED
  BY <1>9, <1>10

(* A write that is cut leaves the complete lines alone. *)
LEMMA PrefixKeepsSound ==
    ASSUME MemoryInv, SoundInv, up, Next, WritePrefix(LastRecord(log'))
    PROVE  SoundInv' /\ DiskStep
<1>1. PICK o : WroteOp(o)
  BY OperationWrites
<1>2. lines' = lines /\ Len(log') = Len(log) + 1 /\ Len(log) \in Nat
  BY <1>1, AppendSeq DEF WritePrefix, WroteOp, RecordedOp, Record, MemoryInv, IsRecords
<1>3. Len(lines) \in Nat
  BY AppendSeq DEF MemoryInv
<1>4. SoundLines' = SoundLines
  BY <1>2, SoundLinesPrefix
<1> QED
  BY <1>2, <1>3, <1>4 DEF SoundInv, DiskStep

(* A start changes no line; if all of them are sound it reads them all. *)
LEMMA RestartKeepsSound ==
    ASSUME MemoryInv, WholeInv, Restart
    PROVE  SoundInv' /\ DiskStep
<1>1. lines' = lines /\ log' = Replayed
  BY DEF Restart, journal
<1>2. SoundLines' = SoundLines
  BY <1>1, SoundLinesPrefix
<1>3. ASSUME SoundUpTo(lines, Len(lines))
      PROVE  Replayed = lines \/ Len(Replayed) > Len(lines)
  <2>1. Len(lines) \in Nat /\ DOMAIN lines = 1 .. Len(lines) /\ IsSeq(lines)
    BY AppendSeq DEF MemoryInv
  <2>2. Clean
    BY <1>3, <2>1 DEF Clean, SoundUpTo
  <2>3. Replayed = lines \/ Replayed = Append(lines, tail)
    BY <2>1, <2>2, ReplayedOfTail DEF WholeInv, Keep
  <2>4. Len(Append(lines, tail)) = Len(lines) + 1
    BY <2>1, AppendSeq
  <2> QED
    BY <2>1, <2>3, <2>4
<1> QED
  BY <1>1, <1>2, <1>3 DEF SoundInv, DiskStep

(* Every step keeps SoundInv and is a step of the store on file or none. *)
LEMMA SoundInductive ==
    MemoryInv /\ WholeInv /\ SoundInv /\ [JournalNext]_jvars => SoundInv' /\ DiskStep
<1> SUFFICES ASSUME MemoryInv, WholeInv, SoundInv, [JournalNext]_jvars
             PROVE  SoundInv' /\ DiskStep
  OBVIOUS
<1>1. CASE Serve \/ CrashUnanswered
  BY <1>1, LineKeepsSound DEF Serve, Answer, CrashUnanswered, Die
<1>2. CASE ServeUnwritten \/ CrashMidWrite
  BY <1>2, PrefixKeepsSound DEF ServeUnwritten, Answer, CrashMidWrite, Die
<1>3. CASE Restart
  BY <1>3, RestartKeepsSound
<1>4. CASE Crash \/ UNCHANGED jvars
  <2>1. lines' = lines /\ log' = log /\ (up' => up)
    BY <1>4 DEF Crash, Die, journal, jvars
  <2>2. SoundLines' = SoundLines
    BY <2>1, SoundLinesPrefix
  <2> QED
    BY <2>1, <2>2 DEF SoundInv, DiskStep
<1> QED
  BY <1>1, <1>2, <1>3, <1>4 DEF JournalNext

-----------------------------------------------------------------------------
(* The operators of the store on disk are those of the store in memory.     *)

(* The definitions of the instance that mention no variable are those of   *)
(* the module itself: the operations,                                      *)
LEMMA SameOperations ==
    /\ \A id, item : OnDisk!RegisterItemOp(id, item) = RegisterItemOp(id, item)
    /\ \A id, target, number, e, m :
           OnDisk!SupersedeVersionOp(id, target, number, e, m)
               = SupersedeVersionOp(id, target, number, e, m)
    /\ \A b : OnDisk!BindApplicabilityOp(b) = BindApplicabilityOp(b)
    /\ \A id, vs : OnDisk!RegisterServiceOp(id, vs) = RegisterServiceOp(id, vs)
    /\ \A id, target, number, e :
           OnDisk!SupersedeServiceOp(id, target, number, e)
               = SupersedeServiceOp(id, target, number, e)
    /\ \A id : OnDisk!RegisterProtocolBindingOp(id) = RegisterProtocolBindingOp(id)
    /\ \A id : OnDisk!RegisterVerificationMechanismOp(id)
                   = RegisterVerificationMechanismOp(id)
    /\ \A id, version, validation :
           OnDisk!UpdateModelValidationOp(id, version, validation)
               = UpdateModelValidationOp(id, version, validation)
BY DEF OnDisk!RegisterItemOp, RegisterItemOp, OnDisk!SupersedeVersionOp,
       SupersedeVersionOp, OnDisk!BindApplicabilityOp, BindApplicabilityOp,
       OnDisk!RegisterServiceOp, RegisterServiceOp, OnDisk!SupersedeServiceOp,
       SupersedeServiceOp, OnDisk!RegisterProtocolBindingOp, RegisterProtocolBindingOp,
       OnDisk!RegisterVerificationMechanismOp, RegisterVerificationMechanismOp,
       OnDisk!UpdateModelValidationOp, UpdateModelValidationOp

(* the checks, *)
LEMMA SameChecks ==
    /\ \A st, id : OnDisk!CanRegisterItem(st, id) = CanRegisterItem(st, id)
    /\ \A st, id, target, number, e :
           OnDisk!CanSupersede(st, id, target, number, e)
               = CanSupersede(st, id, target, number, e)
    /\ \A st, profile, pin : OnDisk!CanBind(st, profile, pin) = CanBind(st, profile, pin)
    /\ \A st, id : OnDisk!CanRegisterService(st, id) = CanRegisterService(st, id)
    /\ \A st, id, target, number, e :
           OnDisk!CanSupersedeService(st, id, target, number, e)
               = CanSupersedeService(st, id, target, number, e)
    /\ \A st, id : OnDisk!CanRegisterProtocolBinding(st, id)
                       = CanRegisterProtocolBinding(st, id)
    /\ \A st, id : OnDisk!CanRegisterVerificationMechanism(st, id)
                       = CanRegisterVerificationMechanism(st, id)
    /\ \A st, id, version : OnDisk!CanUpdateModelValidation(st, id, version)
                                = CanUpdateModelValidation(st, id, version)
BY Zenon DEF OnDisk!CanRegisterItem, CanRegisterItem, OnDisk!CanSupersede, CanSupersede,
       OnDisk!CanBind, CanBind, OnDisk!CanRegisterService, CanRegisterService,
       OnDisk!CanSupersedeService, CanSupersedeService,
       OnDisk!CanRegisterProtocolBinding, CanRegisterProtocolBinding,
       OnDisk!CanRegisterVerificationMechanism, CanRegisterVerificationMechanism,
       OnDisk!CanUpdateModelValidation, CanUpdateModelValidation

(* the application of a record, *)
LEMMA SameApply ==
    ASSUME NEW st, NEW o
    PROVE  OnDisk!Apply(st, o) = Apply(st, o)
BY DEF OnDisk!Apply, Apply, OnDisk!ApplyRegisterItem, ApplyRegisterItem,
       OnDisk!ApplySupersedeVersion, ApplySupersedeVersion,
       OnDisk!ApplyBindApplicability, ApplyBindApplicability,
       OnDisk!ApplyRegisterService, ApplyRegisterService,
       OnDisk!ApplySupersedeService, ApplySupersedeService,
       OnDisk!ApplyUpdateModelValidation, ApplyUpdateModelValidation,
       OnDisk!With, With, OnDisk!Superseded, Superseded, OnDisk!Linked, Linked

(* and entries and manifests. *)
LEMMA SameEntries ==
    /\ \A status, w : OnDisk!Entry(status, w) = Entry(status, w)
    /\ \A class, number : OnDisk!FirstManifests(class, number) = FirstManifests(class, number)
    /\ \A item, number : OnDisk!NextManifests(item, number) = NextManifests(item, number)
    /\ OnDisk!ServiceStatus = ServiceStatus
    /\ OnDisk!ValidationStatus = ValidationStatus
BY DEF OnDisk!Entry, Entry, OnDisk!FirstManifests, FirstManifests,
       OnDisk!NextManifests, NextManifests, OnDisk!PinnedClass, PinnedClass,
       OnDisk!Express, Express, OnDisk!ServiceStatus, ServiceStatus,
       OnDisk!ValidationStatus, ValidationStatus

(* A step of the store that keeps its log on disk is one of the store on    *)
(* disk, action by action.                                                 *)
DiskMem == Replay([i \in DOMAIN SoundLines |-> SoundLines[i].op])

(* A record in memory is one on file when both are the same log. *)
LEMMA OnDiskRecord ==
    ASSUME log = SoundLines, log' = SoundLines', mem' = DiskMem', NEW st, NEW o,
           Record(st, o)
    PROVE  OnDisk!Record(st, o)
BY SameApply DEF OnDisk!Record, Record, DiskMem

(* So is each operation. *)
LEMMA OnDiskNext ==
    ASSUME Next, log = SoundLines, log' = SoundLines', mem = DiskMem, mem' = DiskMem'
    PROVE  OnDisk!Next
<1>1. CASE CreateItems
  BY <1>1, OnDiskRecord, SameOperations, SameChecks, SameEntries
     DEF OnDisk!Next, OnDisk!CreateItems, OnDisk!CreateItem, CreateItems, CreateItem,
         DiskMem
<1>2. CASE DepositModels
  BY <1>2, OnDiskRecord, SameOperations, SameChecks, SameEntries
     DEF OnDisk!Next, OnDisk!DepositModels, OnDisk!DepositModel, DepositModels,
         DepositModel, DiskMem
<1>3. CASE SupersedeItems
  BY <1>3, OnDiskRecord, SameOperations, SameChecks, SameEntries
     DEF OnDisk!Next, OnDisk!SupersedeItems, OnDisk!SupersedeItem, SupersedeItems,
         SupersedeItem, DiskMem
<1>4. CASE BindApplicabilities
  BY <1>4, OnDiskRecord, SameOperations, SameChecks, SameEntries
     DEF OnDisk!Next, OnDisk!BindApplicabilities, OnDisk!BindApplicability,
         BindApplicabilities, BindApplicability, DiskMem
<1>5. CASE CreateServices
  BY <1>5, OnDiskRecord, SameOperations, SameChecks, SameEntries
     DEF OnDisk!Next, OnDisk!CreateServices, OnDisk!CreateService, CreateServices,
         CreateService, DiskMem
<1>6. CASE SupersedeServices
  BY <1>6, OnDiskRecord, SameOperations, SameChecks, SameEntries
     DEF OnDisk!Next, OnDisk!SupersedeServices, OnDisk!SupersedeService,
         SupersedeServices, SupersedeService, DiskMem
<1>7. CASE RegisterDescriptors
  BY <1>7, OnDiskRecord, SameOperations, SameChecks, SameEntries
     DEF OnDisk!Next, OnDisk!RegisterDescriptors, OnDisk!CreateProtocolBinding,
         OnDisk!CreateVerificationMechanism, RegisterDescriptors,
         CreateProtocolBinding, CreateVerificationMechanism, DiskMem
<1>8. CASE UpdateModelValidations
  BY <1>8, OnDiskRecord, SameOperations, SameChecks, SameEntries
     DEF OnDisk!Next, OnDisk!UpdateModelValidations, OnDisk!UpdateModelValidation,
         UpdateModelValidations, UpdateModelValidation, DiskMem
<1> QED
  BY <1>1, <1>2, <1>3, <1>4, <1>5, <1>6, <1>7, <1>8 DEF Next

(* The journal is a store that never stops: seen through its complete lines *)
(* up to the first that is damaged or out of number, every behaviour of a   *)
(* process that dies, restarts, tears lines and loses writes is one of the  *)
(* store in memory (Store::record writes before it applies, Store::replay   *)
(* applies what it reads in order).                                        *)
THEOREM JournalImplementsStore == JournalSpec => JournalIsStore
<1>1. JournalInit => SoundInv /\ OnDisk!Init
  <2> SUFFICES ASSUME JournalInit
               PROVE  SoundInv /\ OnDisk!Init
    OBVIOUS
  <2>1. log = << >> /\ lines = << >>
    BY DEF JournalInit, Init
  <2>2. SoundLines = << >>
    <3>1. IsSeq(<< >>) /\ Len(<< >>) = 0
      BY EmptySeq DEF IsSeq
    <3>2. SoundUpTo(<< >>, 0)
      BY DEF SoundUpTo
    <3> QED
      BY <2>1, <3>1, <3>2, SoundWhole, SoundLinesPrefix
  <2>3. DiskMem = EmptyStore
    <3>1. [i \in DOMAIN SoundLines |-> SoundLines[i].op] = << >>
      BY <2>2
    <3> QED
      BY <3>1, ReplayEmpty DEF DiskMem
  <2>4. OnDisk!EmptyStore = EmptyStore
    BY DEF OnDisk!EmptyStore, EmptyStore
  <2> QED
    BY <2>1, <2>2, <2>3, <2>4 DEF SoundInv, OnDisk!Init, DiskMem
<1>2. MemoryInv /\ WholeInv /\ SoundInv /\ [JournalNext]_jvars
          => [OnDisk!Next]_(OnDisk!vars)
  <2> SUFFICES ASSUME MemoryInv, WholeInv, SoundInv, [JournalNext]_jvars
               PROVE  [OnDisk!Next]_(OnDisk!vars)
    OBVIOUS
  <2>1. CASE SoundLines' = SoundLines
    <3>1. DiskMem' = DiskMem
      BY <2>1 DEF DiskMem
    <3> QED
      BY <2>1, <3>1 DEF OnDisk!vars, DiskMem
  <2>2. CASE /\ Next
             /\ log = SoundLines /\ log' = SoundLines'
             /\ mem = Rebuilt(log) /\ mem' = Rebuilt(log')
    <3>1. mem = DiskMem /\ mem' = DiskMem'
      BY <2>2 DEF Rebuilt, Ops, DiskMem
    <3> QED
      BY <2>2, <3>1, OnDiskNext
  <2> QED
    BY <2>1, <2>2, SoundInductive DEF DiskStep
<1> QED
  BY <1>1, <1>2, WholeInit, WholeInductive, SoundInductive, JournalInvariant, PTL
     DEF JournalSpec, JournalIsStore, OnDisk!Spec
=============================================================================
