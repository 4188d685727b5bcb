-------------------------- MODULE JournaledStore ----------------------------
(***************************************************************************)
(* The store with its JSONL journal (store.rs, record, open and replay):    *)
(* the process may die at any point, a line may be torn by its death, a     *)
(* write may fail, and the next start replays what the file holds.          *)
(*                                                                         *)
(* The file is the sequence `lines' of its complete lines and the `tail'    *)
(* after the last newline.  A line is a record, Junk (text no record can    *)
(* be parsed from) or Undecodable (not UTF-8).  writeln! on the unbuffered  *)
(* file issues one write per token, so that any prefix of a line can be all *)
(* that reaches the file.                                                   *)
(***************************************************************************)
EXTENDS RegistryStore, FiniteSetsExt

CONSTANTS
    Faults,      \* what the environment does to a line: {"tear", "fail", "split"}
    MaxCrash,    \* bound on the number of times the process dies
    MaxAnswered  \* bound on the number of answered requests

ASSUME FaultsAssumption == Faults \subseteq {"tear", "fail", "split"}
ASSUME BoundsAssumption == MaxCrash \in Nat /\ MaxAnswered \in Nat

(* What a line holds when it is no record: nothing (after the last newline  *)
(* only), text that is not one whole record, text cut inside a multi-byte   *)
(* character.                                                              *)
Empty       == [text |-> "empty"]
Junk        == [text |-> "junk"]
Undecodable == [text |-> "undecodable"]

VARIABLES
    lines, tail,   \* the journal file
    up,            \* is the process running (mem and log are its memory)
    acked,         \* the operations whose requests were answered, in order
    crashes,
    failed         \* has a write failed (no code looks at it)

journal == <<lines, tail>>
jvars == <<mem, log, lines, tail, up, acked, crashes, failed>>

JournalInit == /\ Init
               /\ lines = << >>
               /\ tail = Empty
               /\ up = TRUE
               /\ acked = << >>
               /\ crashes = 0
               /\ failed = FALSE

-----------------------------------------------------------------------------
(* Text appended to an unterminated tail shares its line: two texts on one  *)
(* line are never a record, and an undecodable one stays so.               *)
Joined(text) == IF tail = Empty THEN text
                ELSE IF Undecodable \in {tail, text} THEN Undecodable
                ELSE Junk

(* The prefixes of a record's line that a cut can leave: nothing, part of   *)
(* the record, or all of it but the newline.                               *)
Prefixes(rec) == {Empty, Junk, rec}
                     \cup (IF "split" \in Faults THEN {Undecodable} ELSE {})

(* A mutant that leaves the line in a buffer of the process. *)
WriteBuffered(rec) == tail' = Empty /\ lines' = lines

WriteLine(rec) == /\ lines' = Append(lines, Joined(rec))
                  /\ tail' = Empty

WritePrefix(rec) == \E text \in Prefixes(rec) :
                        /\ tail' = IF text = Empty THEN tail ELSE Joined(text)
                        /\ lines' = lines

LastRecord(records) == records[Len(records)]

Answer == /\ up
          /\ Len(acked) < MaxAnswered
          /\ Next
          /\ acked' = Append(acked, LastRecord(log').op)
          /\ UNCHANGED <<up, crashes>>

(* A request is served: the record is written, applied and answered.        *)
Serve == Answer /\ WriteLine(LastRecord(log')) /\ UNCHANGED failed

(* The write fails (a full disk): record reports it on stderr, then applies *)
(* and answers as if it had not.                                           *)
ServeUnwritten == /\ "fail" \in Faults
                  /\ Answer
                  /\ WritePrefix(LastRecord(log'))
                  /\ failed' = TRUE

(* The process dies: between requests, after a record is written and before *)
(* its request is answered, or in the middle of a line.  The memory of a    *)
(* dead process is not looked at again.                                    *)
Die == /\ up
       /\ crashes < MaxCrash
       /\ crashes' = crashes + 1
       /\ up' = FALSE
       /\ UNCHANGED <<acked, failed>>

Crash == Die /\ UNCHANGED <<mem, log, journal>>

CrashUnanswered == Die /\ Next /\ WriteLine(LastRecord(log'))

CrashMidWrite == /\ "tear" \in Faults
                 /\ Die
                 /\ Next
                 /\ WritePrefix(LastRecord(log'))

-----------------------------------------------------------------------------
Contents == IF tail = Empty THEN lines ELSE Append(lines, tail)

Readable(text) == text \notin {Junk, Undecodable}

(* Store::replay reads the lines in order and keeps those that are records. *)
Keep(records, text) == IF Readable(text) THEN Append(records, text) ELSE records

RecordsIn(texts) ==
    LET read[n \in 0 .. Len(texts)] ==
            IF n = 0 THEN << >> ELSE Keep(read[n - 1], texts[n])
    IN  read[Len(texts)]

Replayed == RecordsIn(Contents)

(* Store::open: a line that is not UTF-8 is an error of the reader and ends *)
(* the start; any other line that is no record is skipped.                 *)
CanOpen == \A i \in DOMAIN Contents : Contents[i] # Undecodable

Restart == /\ ~up
           /\ CanOpen
           /\ up' = TRUE
           /\ log' = Replayed
           /\ mem' = Replay([i \in DOMAIN Replayed |-> Replayed[i].op])
           /\ UNCHANGED <<journal, acked, crashes, failed>>

JournalNext == Serve \/ ServeUnwritten \/ Crash \/ CrashUnanswered
                   \/ CrashMidWrite \/ Restart

JournalSpec == JournalInit /\ [][JournalNext]_jvars

-----------------------------------------------------------------------------
(* The type invariant. *)
JournalTypeOK ==
    /\ IsStore(mem)
    /\ \A i \in DOMAIN log : log[i].seq \in 1 .. MaxLog
    /\ up \in BOOLEAN
    /\ crashes \in 0 .. MaxCrash
    /\ failed \in BOOLEAN
    /\ \A i \in DOMAIN lines : lines[i] # Empty

(* An answered request is in the audit log of every later process, in the   *)
(* order of the answers (README, "the log replays losslessly").             *)
AnsweredSurvive ==
    up => \E at \in [DOMAIN acked -> DOMAIN log] :
              /\ \A i \in DOMAIN acked : log[at[i]].op = acked[i]
              /\ \A i, j \in DOMAIN acked : i < j => at[i] < at[j]

(* Memory and audit log never disagree, whatever lines were lost: the state *)
(* is the fold of the records GET /admin/log shows.                        *)
MemoryIsLog == up => mem = Replay([i \in DOMAIN log |-> log[i].op])

(* No complete line is damaged and no write has failed.  The tail may be    *)
(* torn: that is the line the crash was in.                                *)
Whole == ~failed /\ \A i \in DOMAIN lines : Readable(lines[i])

(* A torn last line alone costs nothing that was answered (store.rs,        *)
(* replay: "A torn final line (crash mid-write) is tolerated").            *)
AnswersSurviveTornTail == Whole => AnsweredSurvive

(* Nor does it break a chain: each item has one valid version at the end of *)
(* one chain, with a record in the tail replayed or skipped.               *)
HistoriesSurviveTornTail == Whole /\ up => ItemHistoriesLinear(mem)

(* No two bindings of a running process share an id, whatever was lost: the *)
(* counter is restored from the bindings that are left.                     *)
BindingIdsUniqueWhenUp == up => BindingIdsFresh(mem)

(* The journal is the store: seen through its complete lines, up to the     *)
(* first that is damaged or follows a lost one, the system is a store that  *)
(* never stops, whatever crashes, restarts and faults it goes through.      *)
Sound(n) == \A i \in 1 .. n : Readable(lines[i]) /\ lines[i].seq = i

SoundLines == SubSeq(lines, 1, Max({n \in 0 .. Len(lines) : Sound(n)}))

OnDisk == INSTANCE RegistryStore
    WITH mem <- Replay([i \in DOMAIN SoundLines |-> SoundLines[i].op]),
         log <- SoundLines

JournalIsStore == OnDisk!Spec

=============================================================================
