-------------------------- MODULE KernelStartupProofs --------------------------
(******************************************************************************)
(* Theorems about KernelStartup, for any number of processes, any builds and  *)
(* configurations, and any bounds.                                            *)
(******************************************************************************)
EXTENDS KernelStartup, TLAPS

(* A step of one process leaves the others where they are. *)
LEMMA ProcTyped ==
  ASSUME StartupTypeOK, NEW p \in Proc, NEW r \in Process
  PROVE  [proc EXCEPT ![p] = r] \in [Proc -> Process]
  BY DEF StartupTypeOK

(* What a process that is up is made of. *)
LEMMA UpIsTyped ==
  ASSUME StartupTypeOK, NEW p \in Proc, proc[p].pc # "down"
  PROVE  /\ proc[p] \in [pc : Pc, config : Config, before : Nat,
                         effective : Nat,
                         next : Nat \ {0}]
         /\ proc[p].config \in Config /\ proc[p].before \in Nat
         /\ proc[p].effective \in Nat /\ proc[p].next \in Nat \ {0}
         /\ proc[p].config.target \in Nat /\ proc[p].config.advance \in Nat
         /\ proc[p].config.roots \in Seq([key : Root, from : Nat])
<1>1. proc[p] \in Process
  BY DEF StartupTypeOK
<1>2. proc[p] # Down
  BY DEF Down
<1>3. proc[p] \in [pc : Pc, config : Config, before : Nat, effective : Nat,
                   next : Nat \ {0}]
  BY <1>1, <1>2 DEF Process
<1> QED
  BY <1>3, StartupAssumption

LEMMA MoveTyped ==
  ASSUME StartupTypeOK, NEW p \in Proc, proc[p].pc # "down", NEW pc \in Pc
  PROVE  [proc EXCEPT ![p].pc = pc] \in [Proc -> Process]
<1>1. PICK r : r = [proc[p] EXCEPT !.pc = pc]
  OBVIOUS
<1>2. r \in [pc : Pc, config : Config, before : Nat, effective : Nat,
                         next : Nat \ {0}]
  BY <1>1, UpIsTyped
<1>3. [proc EXCEPT ![p].pc = pc] = [proc EXCEPT ![p] = r]
  BY <1>1
<1> QED
  BY <1>2, <1>3, ProcTyped DEF Process

LEMMA DownTyped ==
  ASSUME StartupTypeOK, NEW p \in Proc
  PROVE  [proc EXCEPT ![p] = Down] \in [Proc -> Process]
  BY ProcTyped DEF Process

--------------------------------------------------------------------------------
(* Types.                                                                     *)

LEMMA StartTyped ==
  ASSUME StartupTypeOK, NEW p \in Proc, Start(p)
  PROVE  StartupTypeOK'
<1>1. PICK c \in Config :
        proc' = [proc EXCEPT ![p] = [pc |-> "open", config |-> c, before |-> 0,
                                     effective |-> 0, next |-> 1]]
  BY DEF Start
<1>2. [pc |-> "open", config |-> c, before |-> 0, effective |-> 0, next |-> 1]
        \in Process
  BY DEF Process, Pc
<1>3. proc' \in [Proc -> Process]
  BY <1>1, <1>2, ProcTyped
<1> QED
  BY <1>3 DEF StartupTypeOK, Start, tables

LEMMA OpenTyped ==
  ASSUME StartupTypeOK, NEW p \in Proc,
         ReadStamp(p) \/ Migrate(p) \/ Verify(p) \/ Rewind(p)
  PROVE  StartupTypeOK'
<1>1. CASE ReadStamp(p)
  <2>1. PICK r : r = [proc[p] EXCEPT !.before = stamp, !.pc = "migrate"]
    OBVIOUS
  <2>2. proc[p].pc # "down"
    BY <1>1 DEF ReadStamp, At
  <2>3. r \in Process
    BY <2>1, <2>2, UpIsTyped DEF Process, Pc, StartupTypeOK
  <2>4. proc' = [proc EXCEPT ![p] = r]
    BY <1>1, <2>1 DEF ReadStamp
  <2> QED
    BY <1>1, <2>3, <2>4, ProcTyped DEF StartupTypeOK, ReadStamp, tables
<1>2. CASE Migrate(p)
  <2>1. proc[p].pc # "down" /\ proc[p].config.target \in Nat
    BY <1>2, UpIsTyped DEF Migrate, At
  <2>2. proc' \in [Proc -> Process]
    <3>1. \/ proc' = [proc EXCEPT ![p] = Down]
          \/ proc' = [proc EXCEPT ![p].pc = "clock"]
          \/ proc' = [proc EXCEPT ![p].pc = "verify"]
      BY <1>2 DEF Migrate, Move, Refuse
    <3>2. "clock" \in Pc /\ "verify" \in Pc
      BY DEF Pc
    <3> QED
      BY <2>1, <3>1, <3>2, MoveTyped, DownTyped
  <2>3. stamp' \in Nat /\ schema' \in Nat
    BY <1>2, <2>1 DEF Migrate, StartupTypeOK
  <2> QED
    BY <1>2, <2>2, <2>3 DEF StartupTypeOK, Migrate
<1>3. CASE Verify(p)
  <2>1. proc' \in [Proc -> Process]
    BY <1>3, MoveTyped DEF Verify, At, Move, Pc
  <2> QED
    BY <1>3, <2>1 DEF StartupTypeOK, Verify, tables
<1>4. CASE Rewind(p)
  <2>1. proc[p].before \in Nat
    BY <1>4, UpIsTyped DEF Rewind, At
  <2>2. proc' \in [Proc -> Process]
    BY <1>4, DownTyped DEF Rewind, Refuse
  <2> QED
    BY <1>4, <2>1, <2>2 DEF StartupTypeOK, Rewind
<1> QED
  BY <1>1, <1>2, <1>3, <1>4

LEMMA ClockTyped ==
  ASSUME StartupTypeOK, NEW p \in Proc, CheckClock(p) \/ Declare(p)
  PROVE  StartupTypeOK'
<1>1. CASE CheckClock(p)
  <2>1. proc[p].pc # "down"
    BY <1>1 DEF CheckClock, At
  <2>2. Now(p) \in Nat
    BY <2>1, UpIsTyped DEF Now, StartupTypeOK
  <2>3. PICK to \in Pc : to = IF proc[p].config.advance = 0 THEN "roots"
                              ELSE "declare"
    BY DEF Pc
  <2>4. PICK r : r = [proc[p] EXCEPT !.effective = Now(p), !.pc = to]
    OBVIOUS
  <2>5. r \in Process
    BY <2>1, <2>2, <2>4, UpIsTyped DEF Process
  <2>6. proc' = [proc EXCEPT ![p] = r] \/ proc' = [proc EXCEPT ![p] = Down]
    BY <1>1, <2>3, <2>4 DEF CheckClock, Refuse
  <2>7. proc' \in [Proc -> Process]
    BY <2>5, <2>6, ProcTyped, DownTyped
  <2> QED
    BY <1>1, <2>7 DEF StartupTypeOK, CheckClock, tables
<1>2. CASE Declare(p)
  <2>1. proc[p].pc # "down"
    BY <1>2 DEF Declare, At
  <2>2. Declaration(p) \in [advance : Nat, effective : Nat]
    BY <2>1, UpIsTyped DEF Declaration
  <2>3. declared' \in Seq([advance : Nat, effective : Nat])
    BY <1>2, <2>2 DEF Declare, StartupTypeOK
  <2>4. proc' \in [Proc -> Process]
    BY <1>2, <2>1, MoveTyped DEF Declare, Move, Pc
  <2> QED
    BY <1>2, <2>3, <2>4 DEF StartupTypeOK, Declare
<1> QED
  BY <1>1, <1>2

LEMMA ElementsTyped ==
  ASSUME NEW S, NEW s \in Seq(S)
  PROVE  \A k \in 1..Len(s) : s[k] \in S
  OBVIOUS

LEMMA ElementTyped ==
  ASSUME NEW S, NEW s \in Seq(S), NEW i \in Nat \ {0}, ~(i > Len(s))
  PROVE  s[i] \in S
  OBVIOUS

LEMMA RootsTyped ==
  ASSUME StartupTypeOK, NEW p \in Proc,
         ReadRoots(p) \/ SeedRoot(p) \/ RetireRoot(p) \/ EnrolRoot(p)
  PROVE  StartupTypeOK'
<1>1. CASE ReadRoots(p)
  <2>1. proc' \in [Proc -> Process]
    BY <1>1, MoveTyped DEF ReadRoots, At, Move, Pc
  <2> QED
    BY <1>1, <2>1 DEF StartupTypeOK, ReadRoots, tables
<1>2. CASE SeedRoot(p)
  <2> DEFINE listed == proc[p].config.roots
             n == proc[p].next
  <2>1. proc[p].pc # "down"
    BY <1>2 DEF SeedRoot, At
  <2>2. listed \in Seq([key : Root, from : Nat]) /\ n \in Nat \ {0}
    BY <2>1, UpIsTyped
  <2>3. CASE n > Len(listed)
    <3>1. proc' \in [Proc -> Process]
      BY <1>2, <2>1, <2>3, MoveTyped DEF SeedRoot, Move, Pc
    <3>2. roots' = roots
      BY <1>2, <2>3 DEF SeedRoot
    <3> QED
      BY <1>2, <3>1, <3>2 DEF StartupTypeOK, SeedRoot
  <2>4. CASE ~(n > Len(listed))
    <3>1. PICK r : r = [proc[p] EXCEPT !.next = n + 1]
      OBVIOUS
    <3>2. r \in Process
      BY <2>1, <2>2, <3>1, UpIsTyped DEF Process
    <3>3. proc' = [proc EXCEPT ![p] = r]
      BY <1>2, <2>4, <3>1 DEF SeedRoot
    <3>4. CASE roots' = roots
      BY <1>2, <3>2, <3>3, <3>4, ProcTyped DEF StartupTypeOK, SeedRoot
    <3>5. CASE roots' # roots
      <4>1. listed[n] \in [key : Root, from : Nat]
        BY <2>2, <2>4, ElementTyped
      <4>2. roots' = [roots EXCEPT ![listed[n].key] =
                        [from |-> listed[n].from, state |-> "enrolled"]]
        BY <1>2, <2>4, <3>5 DEF SeedRoot
      <4>3. roots' \in [Root -> [from : Nat,
                                 state : {"absent", "enrolled", "retired"}]]
        BY <4>1, <4>2 DEF StartupTypeOK
      <4>4. proc' \in [Proc -> Process]
        BY <3>2, <3>3, ProcTyped
      <4> QED
        BY <1>2, <4>3, <4>4 DEF StartupTypeOK, SeedRoot
    <3> QED
      BY <3>4, <3>5
  <2> QED
    BY <2>3, <2>4
<1>3. CASE RetireRoot(p)
  BY <1>3 DEF StartupTypeOK, RetireRoot, ActiveAt
<1>4. CASE EnrolRoot(p)
  <2>1. Now(p) \in Nat
    BY <1>4, UpIsTyped DEF EnrolRoot, Serving, Now, StartupTypeOK
  <2> QED
    BY <1>4, <2>1 DEF StartupTypeOK, EnrolRoot
<1> QED
  BY <1>1, <1>2, <1>3, <1>4

LEMMA TypeInit == Init => StartupTypeOK
<1> SUFFICES ASSUME Init PROVE StartupTypeOK
  OBVIOUS
<1>1. declared \in Seq([advance : Nat, effective : Nat])
  BY DEF Init
<1>2. roots \in [Root -> [from : Nat, state : {"absent", "enrolled", "retired"}]]
  BY DEF Init, Absent
<1>3. proc \in [Proc -> Process]
  BY DEF Init, Process
<1> QED
  BY <1>1, <1>2, <1>3 DEF Init, StartupTypeOK

LEMMA TypeStep == StartupTypeOK /\ [Next]_vars => StartupTypeOK'
<1> SUFFICES ASSUME StartupTypeOK, [Next]_vars PROVE StartupTypeOK'
  OBVIOUS
<1>1. ASSUME NEW p \in Proc, Start(p) PROVE StartupTypeOK'
  BY <1>1, StartTyped
<1>2. ASSUME NEW p \in Proc, ProcessStep(p) PROVE StartupTypeOK'
  <2>1. CASE Serve(p)
    <3>1. proc' \in [Proc -> Process]
      BY <2>1, MoveTyped DEF Serve, At, Move, Pc
    <3> QED
      BY <2>1, <3>1 DEF StartupTypeOK, Serve, tables
  <2> QED
    BY <1>2, <2>1, OpenTyped, ClockTyped, RootsTyped DEF ProcessStep
<1>3. ASSUME NEW p \in Proc, RetireRoot(p) \/ EnrolRoot(p) PROVE StartupTypeOK'
  BY <1>3, RootsTyped
<1>4. ASSUME NEW p \in Proc, Crash(p) PROVE StartupTypeOK'
  BY <1>4, DownTyped DEF StartupTypeOK, Crash, Refuse, tables
<1>5. CASE Break \/ Tick \/ UNCHANGED vars
  BY <1>5 DEF StartupTypeOK, Break, Tick, vars, tables
<1> QED
  BY <1>1, <1>2, <1>3, <1>4, <1>5 DEF Next

(* The file's tables and every start are well formed, always. *)
THEOREM StartupTyped == Spec => []StartupTypeOK
  BY TypeInit, TypeStep, PTL DEF Spec

--------------------------------------------------------------------------------
(* What a step of one process does to the others, and to its own record.      *)

(* The record of the process that moves is replaced, every other is kept. *)
LEMMA OnlyOneMoves ==
  ASSUME StartupTypeOK, NEW p \in Proc,
         Start(p) \/ ProcessStep(p) \/ Crash(p),
         NEW q \in Proc, q # p
  PROVE  proc'[q] = proc[q]
  BY DEF StartupTypeOK, Start, Crash, ProcessStep, ReadStamp, Migrate, Verify,
         Rewind, CheckClock, Declare, ReadRoots, SeedRoot, Serve, Move, Refuse

(* Replacing one field of a record leaves the rest. *)
Up == [pc : Pc, config : Config, before : Nat, effective : Nat, next : Nat \ {0}]

LEMMA FieldsKept ==
  ASSUME NEW u \in Up, NEW x
  PROVE  /\ [u EXCEPT !.pc = x] = [pc |-> x, config |-> u.config,
              before |-> u.before, effective |-> u.effective, next |-> u.next]
         /\ [u EXCEPT !.next = x] = [pc |-> u.pc, config |-> u.config,
              before |-> u.before, effective |-> u.effective, next |-> x]
         /\ [u EXCEPT !.before = x] = [pc |-> u.pc, config |-> u.config,
              before |-> x, effective |-> u.effective, next |-> u.next]
         /\ [u EXCEPT !.effective = x] = [pc |-> u.pc, config |-> u.config,
              before |-> u.before, effective |-> x, next |-> u.next]
  BY DEF Up

(* Where each step is taken from. *)
LEMMA StepsFrom ==
  ASSUME NEW p \in Proc
  PROVE  /\ ReadStamp(p) => proc[p].pc = "open"
         /\ Migrate(p) => proc[p].pc = "migrate"
         /\ Verify(p) => proc[p].pc = "verify"
         /\ CheckClock(p) => proc[p].pc = "clock"
         /\ Declare(p) => proc[p].pc = "declare"
         /\ ReadRoots(p) => proc[p].pc = "roots"
         /\ SeedRoot(p) => proc[p].pc = "seed"
         /\ Serve(p) => proc[p].pc = "bind"
  BY DEF ReadStamp, Migrate, Verify, CheckClock, Declare, ReadRoots, SeedRoot,
         Serve, At

(* What each step makes of the record of the process that takes it. *)
LEMMA RecordAfter ==
  ASSUME StartupTypeOK, NEW p \in Proc, proc[p].pc # "down", ProcessStep(p)
  PROVE  LET u == proc[p] IN
         \/ proc'[p] = Down
         \/ /\ proc'[p].config = u.config
            /\ \/ /\ ReadStamp(p) /\ proc'[p].pc = "migrate"
                  /\ proc'[p].before = stamp /\ proc'[p].effective = u.effective
               \/ /\ Migrate(p) /\ proc'[p].pc \in {"clock", "verify"}
                  /\ proc'[p].before = u.before /\ proc'[p].effective = u.effective
               \/ /\ Verify(p) /\ proc'[p].pc \in {"clock", "rewind"}
                  /\ proc'[p].before = u.before /\ proc'[p].effective = u.effective
               \/ /\ CheckClock(p) /\ proc'[p].effective = Now(p)
                  /\ proc'[p].before = u.before
                  /\ proc'[p].pc = IF u.config.advance = 0 THEN "roots"
                                   ELSE "declare"
               \/ /\ Declare(p) /\ proc'[p].pc = "roots"
                  /\ proc'[p].before = u.before /\ proc'[p].effective = u.effective
               \/ /\ ReadRoots(p) \/ SeedRoot(p) \/ Serve(p)
                  /\ proc'[p].pc \in {"seed", "bind", "serving"}
                  /\ proc'[p].before = u.before /\ proc'[p].effective = u.effective
<1> DEFINE u == proc[p]
<1>1. u \in Up
  BY UpIsTyped DEF Up
<1>2. ASSUME NEW r, proc' = [proc EXCEPT ![p] = r] PROVE proc'[p] = r
  BY <1>2 DEF StartupTypeOK
<1>3. ASSUME NEW to, proc' = [proc EXCEPT ![p].pc = to]
      PROVE  proc'[p] = [pc |-> to, config |-> u.config, before |-> u.before,
                         effective |-> u.effective, next |-> u.next]
  <2>1. proc'[p] = [u EXCEPT !.pc = to]
    BY <1>3 DEF StartupTypeOK
  <2> QED
    BY <1>1, <2>1, FieldsKept
<1>4. CASE ReadStamp(p)
  <2>1. proc' = [proc EXCEPT ![p] =
                   [[u EXCEPT !.before = stamp] EXCEPT !.pc = "migrate"]]
    BY <1>4 DEF ReadStamp
  <2>2. proc'[p] = [[u EXCEPT !.before = stamp] EXCEPT !.pc = "migrate"]
    BY <1>2, <2>1
  <2>3. [u EXCEPT !.before = stamp] = [pc |-> u.pc, config |-> u.config,
              before |-> stamp, effective |-> u.effective, next |-> u.next]
    BY <1>1, FieldsKept
  <2>4. proc'[p] = [pc |-> "migrate", config |-> u.config,
              before |-> stamp, effective |-> u.effective, next |-> u.next]
    BY <2>2, <2>3
  <2> QED
    BY <1>4, <2>4
<1>5. CASE CheckClock(p)
  <2>1. PICK e : e = Now(p)
    OBVIOUS
  <2>2. PICK to : to = IF u.config.advance = 0 THEN "roots" ELSE "declare"
    OBVIOUS
  <2>3. \/ proc' = [proc EXCEPT ![p] = Down]
        \/ proc' = [proc EXCEPT ![p] = [[u EXCEPT !.effective = e] EXCEPT !.pc = to]]
    BY <1>5, <2>1, <2>2 DEF CheckClock, Refuse
  <2>4. proc'[p] = Down \/ proc'[p] = [[u EXCEPT !.effective = e] EXCEPT !.pc = to]
    BY <1>2, <2>3
  <2>5. [u EXCEPT !.effective = e] = [pc |-> u.pc, config |-> u.config,
              before |-> u.before, effective |-> e, next |-> u.next]
    BY <1>1, FieldsKept
  <2>6. proc'[p] = Down \/ proc'[p] = [pc |-> to, config |-> u.config,
              before |-> u.before, effective |-> e, next |-> u.next]
    BY <2>4, <2>5
  <2> QED
    BY <1>5, <2>1, <2>2, <2>6
<1>6. CASE Migrate(p)
  <2>1. \/ proc' = [proc EXCEPT ![p] = Down]
        \/ \E to \in {"clock", "verify"} : proc' = [proc EXCEPT ![p].pc = to]
    BY <1>6 DEF Migrate, Move, Refuse
  <2>2. CASE proc' = [proc EXCEPT ![p] = Down]
    BY <1>2, <2>2
  <2>3. ASSUME NEW to \in {"clock", "verify"}, proc' = [proc EXCEPT ![p].pc = to]
        PROVE  proc'[p] = [pc |-> to, config |-> u.config, before |-> u.before,
                           effective |-> u.effective, next |-> u.next]
    BY <1>3, <2>3
  <2> QED
    BY <1>6, <2>1, <2>2, <2>3
<1>7. CASE Verify(p)
  <2>1. PICK to \in {"clock", "rewind"} : proc' = [proc EXCEPT ![p].pc = to]
    BY <1>7 DEF Verify, Move
  <2>2. proc'[p] = [pc |-> to, config |-> u.config, before |-> u.before,
                    effective |-> u.effective, next |-> u.next]
    BY <1>3, <2>1
  <2> QED
    BY <1>7, <2>2
<1>8. CASE Rewind(p)
  BY <1>2, <1>8 DEF Rewind, Refuse
<1>9. CASE Declare(p)
  <2>1. proc' = [proc EXCEPT ![p].pc = "roots"]
    BY <1>9 DEF Declare, Move
  <2>2. proc'[p] = [pc |-> "roots", config |-> u.config, before |-> u.before,
                    effective |-> u.effective, next |-> u.next]
    BY <1>3, <2>1
  <2> QED
    BY <1>9, <2>2
<1>10. CASE ReadRoots(p) \/ Serve(p)
  <2>1. PICK to \in {"seed", "bind", "serving"} :
          proc' = [proc EXCEPT ![p].pc = to]
    BY <1>10 DEF ReadRoots, Serve, Move
  <2>2. proc'[p] = [pc |-> to, config |-> u.config, before |-> u.before,
                    effective |-> u.effective, next |-> u.next]
    BY <1>3, <2>1
  <2> QED
    BY <1>10, <2>2
<1>11. CASE SeedRoot(p)
  <2>1. \/ proc' = [proc EXCEPT ![p].pc = "bind"]
        \/ proc' = [proc EXCEPT ![p].next = u.next + 1]
    BY <1>11 DEF SeedRoot, Move
  <2>2. CASE proc' = [proc EXCEPT ![p].pc = "bind"]
    <3>1. proc'[p] = [pc |-> "bind", config |-> u.config, before |-> u.before,
                      effective |-> u.effective, next |-> u.next]
      BY <1>3, <2>2
    <3> QED
      BY <1>11, <3>1
  <2>3. CASE proc' = [proc EXCEPT ![p].next = u.next + 1]
    <3>1. proc'[p] = [u EXCEPT !.next = u.next + 1]
      BY <2>3 DEF StartupTypeOK
    <3>2. u.pc = "seed"
      BY <1>11 DEF SeedRoot, At
    <3>3. proc'[p] = [pc |-> "seed", config |-> u.config, before |-> u.before,
                      effective |-> u.effective, next |-> u.next + 1]
      BY <1>1, <3>1, <3>2, FieldsKept
    <3> QED
      BY <1>11, <3>3
  <2> QED
    BY <2>1, <2>2, <2>3
<1> QED
  BY <1>4, <1>5, <1>6, <1>7, <1>8, <1>9, <1>10, <1>11 DEF ProcessStep

--------------------------------------------------------------------------------
(* The stamp is never ahead of the schema.                                    *)

(* A start that may still rewind goes back to a stamp the schema covers: the  *)
(* schema only grows, so it does not matter what other starts did meanwhile.  *)
RewindsBack ==
  \A p \in Proc :
    proc[p].pc \in {"migrate", "verify", "rewind"} => proc[p].before =< schema

StampInv == StampIsTrue /\ RewindsBack

LEMMA StampMoves ==
  ASSUME StartupTypeOK, StampInv, NEW p \in Proc,
         Start(p) \/ ProcessStep(p) \/ Crash(p)
  PROVE  StampInv'
<1>1. /\ stamp \in Nat /\ schema \in Nat
      /\ stamp =< schema
      /\ proc[p].pc # "down" => /\ proc[p].before \in Nat
                                /\ proc[p].config.target \in Nat
  BY UpIsTyped DEF StartupTypeOK, StampInv, StampIsTrue
<1>2. stamp' =< schema' /\ schema =< schema' /\ schema' \in Nat
  <2>1. CASE Migrate(p)
    BY <1>1, <2>1 DEF Migrate, At
  <2>2. CASE Rewind(p)
    BY <1>1, <2>2 DEF Rewind, At, StampInv, RewindsBack
  <2>3. CASE UNCHANGED << stamp, schema >>
    BY <1>1, <2>3
  <2> QED
    BY <2>1, <2>2, <2>3 DEF Start, Crash, ProcessStep, ReadStamp, Verify,
       CheckClock, Declare, ReadRoots, SeedRoot, Serve, tables
<1>3. proc'[p].pc \in {"migrate", "verify", "rewind"}
        => \/ proc'[p].before = stamp
           \/ /\ proc'[p].before = proc[p].before
              /\ proc[p].pc \in {"migrate", "verify", "rewind"}
  <2>1. CASE Start(p) \/ Crash(p)
    BY <2>1 DEF StartupTypeOK, Start, Crash, Refuse, Down
  <2>2. CASE ProcessStep(p)
    <3>1. proc[p].pc # "down"
      BY <2>2 DEF ProcessStep, ReadStamp, Migrate, Verify, Rewind, CheckClock,
         Declare, ReadRoots, SeedRoot, Serve, At
    <3> QED
      BY <2>2, <3>1, RecordAfter DEF Migrate, Verify, At, Down
  <2> QED
    BY <2>1, <2>2
<1>4. ASSUME NEW q \in Proc, proc'[q].pc \in {"migrate", "verify", "rewind"}
      PROVE  proc'[q].before =< schema'
  <2>1. CASE q = p
    <3>1. proc[p].before \in Nat \/ proc'[p].before = stamp
      BY <1>1, <1>3, <1>4, <2>1
    <3> QED
      BY <1>1, <1>2, <1>3, <1>4, <2>1, <3>1 DEF StampInv, RewindsBack
  <2>2. CASE q # p
    <3>1. proc'[q] = proc[q]
      BY <2>2, OnlyOneMoves
    <3>2. proc[q].before \in Nat
      BY <1>4, <3>1, UpIsTyped
    <3> QED
      BY <1>1, <1>2, <1>4, <3>1, <3>2 DEF StampInv, RewindsBack
  <2> QED
    BY <2>1, <2>2
<1> QED
  BY <1>2, <1>4 DEF StampInv, StampIsTrue, RewindsBack

LEMMA StampStep == StartupTypeOK /\ StampInv /\ [Next]_vars => StampInv'
<1> SUFFICES ASSUME StartupTypeOK, StampInv, [Next]_vars PROVE StampInv'
  OBVIOUS
<1>1. CASE UNCHANGED << stamp, schema, proc >>
  BY <1>1 DEF StampInv, StampIsTrue, RewindsBack
<1> QED
  BY <1>1, StampMoves DEF Next, RetireRoot, EnrolRoot, Break, Tick, vars, tables

(* Whatever the file says of itself, it has had the steps it claims. *)
THEOREM StampTrue == Spec => []StampIsTrue
<1>1. Init => StampInv
  BY DEF Init, StampInv, StampIsTrue, RewindsBack, Down
<1> QED
  BY <1>1, StampStep, StartupTyped, PTL DEF Spec, StampInv

--------------------------------------------------------------------------------
(* What is served on an advanced clock has been declared.                     *)

Past == {"roots", "seed", "bind", "serving"}

(* The instant a start was checked at stays within the host's time, and from  *)
(* Declare on the store has said it.                                          *)
DeclaredFor(p) ==
  /\ proc[p].pc \in Past \cup {"declare"} /\ proc[p].config.advance > 0
       => proc[p].effective - proc[p].config.advance \in 0..host
  /\ proc[p].pc \in Past /\ proc[p].config.advance > 0
       => \E i \in 1..Len(declared) : declared[i] = Declaration(p)

DeclaredInv == \A p \in Proc : DeclaredFor(p)

(* Declarations stay. *)
LEMMA DeclaredStay ==
  ASSUME StartupTypeOK, NEW p \in Proc,
         \/ Start(p) \/ ProcessStep(p) \/ Crash(p)
         \/ RetireRoot(p) \/ EnrolRoot(p)
  PROVE  /\ Len(declared) =< Len(declared') /\ Len(declared) \in Nat
         /\ \A i \in 1..Len(declared) : declared'[i] = declared[i]
<1>0. declared \in Seq([advance : Nat, effective : Nat])
  BY DEF StartupTypeOK
<1>1. CASE Declare(p)
  <2>1. PICK d : d = Declaration(p)
    OBVIOUS
  <2>2. declared' = Append(declared, d)
    BY <1>1, <2>1 DEF Declare
  <2> QED
    BY <1>0, <2>2
<1>2. CASE declared' = declared
  BY <1>0, <1>2
<1> QED
  BY <1>1, <1>2 DEF Start, Crash, ProcessStep, ReadStamp, Migrate, Verify,
     Rewind, CheckClock, ReadRoots, SeedRoot, Serve, RetireRoot, EnrolRoot,
     tables

LEMMA DeclaredKept ==
  ASSUME StartupTypeOK, NEW p \in Proc, DeclaredFor(p),
         proc'[p].pc \in Past \cup {"declare"},
         proc[p].pc \in Past \/ proc'[p].pc = "declare",
         proc[p].pc \in Past \cup {"declare"},
         proc'[p].config = proc[p].config,
         proc'[p].effective = proc[p].effective,
         host \in Nat, host' \in Nat, host =< host',
         Len(declared) \in Nat, Len(declared) =< Len(declared'),
         \A i \in 1..Len(declared) : declared'[i] = declared[i],
         Len(declared') \in Nat
  PROVE  DeclaredFor(p)'
<1>1. proc[p].pc # "down"
  BY DEF Past
<1>2. proc[p].effective \in Nat /\ proc[p].config.advance \in Nat
  BY <1>1, UpIsTyped
<1>3. Declaration(p)' = Declaration(p)
  BY DEF Declaration
<1> QED
  BY <1>2, <1>3 DEF DeclaredFor, Past

LEMMA DeclaredMoves ==
  ASSUME StartupTypeOK, DeclaredInv, NEW p \in Proc,
         Start(p) \/ ProcessStep(p) \/ Crash(p)
  PROVE  DeclaredInv'
<1>1. host \in Nat /\ host' = host
  BY DEF StartupTypeOK, Start, ProcessStep, Crash, ReadStamp, Migrate, Verify,
     Rewind, CheckClock, Declare, ReadRoots, SeedRoot, Serve
<1>2. /\ Len(declared) =< Len(declared') /\ Len(declared) \in Nat
      /\ \A i \in 1..Len(declared) : declared'[i] = declared[i]
  BY DeclaredStay
<1>3. StartupTypeOK' /\ Len(declared') \in Nat
  <2>1. StartupTypeOK'
    BY TypeStep DEF Next
  <2> QED
    BY <2>1 DEF StartupTypeOK
<1>4. ASSUME NEW q \in Proc, q # p PROVE DeclaredFor(q)'
  <2>1. proc'[q] = proc[q] /\ DeclaredFor(q)
    BY <1>4, OnlyOneMoves DEF DeclaredInv
  <2>2. CASE proc[q].pc \in Past \cup {"declare"}
    BY <1>1, <1>2, <1>3, <2>1, <2>2, DeclaredKept
  <2>3. CASE proc[q].pc \notin Past \cup {"declare"}
    BY <2>1, <2>3 DEF DeclaredFor
  <2> QED
    BY <2>2, <2>3
<1>5. DeclaredFor(p)'
  <2>1. CASE Start(p) \/ Crash(p)
    <3>1. proc'[p].pc \in {"open", "down"}
      BY <2>1 DEF StartupTypeOK, Start, Crash, Refuse, Down
    <3> QED
      BY <3>1 DEF DeclaredFor, Past
  <2>2. CASE ProcessStep(p)
    <3>1. proc[p].pc # "down"
      BY <2>2 DEF ProcessStep, ReadStamp, Migrate, Verify, Rewind, CheckClock,
         Declare, ReadRoots, SeedRoot, Serve, At
    <3>2. proc[p].config.advance \in Nat /\ proc[p].effective \in Nat
      BY <3>1, UpIsTyped
    <3>3. CASE proc'[p].pc \notin Past \cup {"declare"}
      BY <3>3 DEF DeclaredFor
    <3>4. CASE CheckClock(p) /\ proc'[p].pc \in Past \cup {"declare"}
      <4>1. /\ proc'[p].config = proc[p].config
            /\ proc'[p].effective = host + proc[p].config.advance
            /\ proc'[p].pc = IF proc[p].config.advance = 0 THEN "roots"
                             ELSE "declare"
        BY <2>2, <3>1, <3>4, RecordAfter, StepsFrom DEF Now, Down, Past
      <4> QED
        BY <1>1, <3>2, <4>1 DEF DeclaredFor, Past
    <3>5. CASE Declare(p)
      <4>1. /\ proc'[p].config = proc[p].config
            /\ proc'[p].effective = proc[p].effective
            /\ proc[p].pc = "declare"
        <5>1. proc' = [proc EXCEPT ![p].pc = "roots"] /\ proc[p].pc = "declare"
          BY <3>5 DEF Declare, Move, At
        <5>2. proc'[p] = [proc[p] EXCEPT !.pc = "roots"]
          BY <5>1 DEF StartupTypeOK
        <5>3. proc[p] \in Up
          BY <3>1, UpIsTyped DEF Up
        <5>4. proc'[p] = [pc |-> "roots", config |-> proc[p].config,
                          before |-> proc[p].before,
                          effective |-> proc[p].effective, next |-> proc[p].next]
          BY <5>2, <5>3, FieldsKept
        <5> QED
          BY <5>1, <5>4
      <4>2. Declaration(p)' = Declaration(p)
        BY <4>1 DEF Declaration
      <4>3. declared'[Len(declared')] = Declaration(p)
            /\ Len(declared') \in 1..Len(declared')
        <5>1. PICK d : d = Declaration(p)
          OBVIOUS
        <5>2. declared' = Append(declared, d)
          BY <3>5, <5>1 DEF Declare
        <5>3. declared \in Seq([advance : Nat, effective : Nat])
          BY DEF StartupTypeOK
        <5>4. d \in [advance : Nat, effective : Nat]
          BY <3>2, <5>1 DEF Declaration
        <5> HIDE <5>1
        <5>5. declared'[Len(declared')] = d /\ Len(declared') \in 1..Len(declared')
          BY <5>2, <5>3, <5>4
        <5> QED
          BY <5>1, <5>5
      <4>4. DeclaredFor(p)
        BY DEF DeclaredInv
      <4>5. PICK n \in 1..Len(declared') : declared'[n] = Declaration(p)'
        BY <4>2, <4>3
      <4> QED
        BY <1>1, <4>1, <4>4, <4>5 DEF DeclaredFor, Past
    <3>6. CASE /\ ReadRoots(p) \/ SeedRoot(p) \/ Serve(p)
               /\ proc'[p].pc \in Past \cup {"declare"}
      <4>1. proc[p].pc \in Past
        BY <3>6 DEF ReadRoots, SeedRoot, Serve, At, Past
      <4>2. /\ proc'[p].config = proc[p].config
            /\ proc'[p].effective = proc[p].effective
        BY <2>2, <3>1, <3>6, RecordAfter, StepsFrom DEF Down, Past
      <4>3. DeclaredFor(p)
        BY DEF DeclaredInv
      <4> QED
        BY <1>1, <1>2, <1>3, <3>6, <4>1, <4>2, <4>3, DeclaredKept
    <3> QED
      BY <2>2, <3>1, <3>3, <3>4, <3>5, <3>6, RecordAfter DEF Past, Down
  <2> QED
    BY <2>1, <2>2
<1> QED
  BY <1>4, <1>5 DEF DeclaredInv

LEMMA DeclaredStep == StartupTypeOK /\ DeclaredInv /\ [Next]_vars => DeclaredInv'
<1> SUFFICES ASSUME StartupTypeOK, DeclaredInv, [Next]_vars PROVE DeclaredInv'
  OBVIOUS
<1>1. CASE UNCHANGED << declared, host, proc >>
  BY <1>1 DEF DeclaredInv, DeclaredFor, Declaration
<1>2. CASE Tick
  <2>1. host \in Nat /\ host' = host + 1 /\ UNCHANGED << declared, proc >>
    BY <1>2 DEF StartupTypeOK, Tick, tables
  <2>2. ASSUME NEW q \in Proc PROVE DeclaredFor(q)'
    <3>1. DeclaredFor(q)
      BY DEF DeclaredInv
    <3>2. CASE proc[q].pc \in Past \cup {"declare"}
      <4>1. proc[q].effective \in Nat /\ proc[q].config.advance \in Nat
        BY <3>2, UpIsTyped DEF Past
      <4> QED
        BY <2>1, <3>1, <4>1 DEF DeclaredFor, Declaration
    <3>3. CASE proc[q].pc \notin Past \cup {"declare"}
      BY <2>1, <3>3 DEF DeclaredFor
    <3> QED
      BY <3>2, <3>3
  <2> QED
    BY <2>2 DEF DeclaredInv
<1> QED
  BY <1>1, <1>2, DeclaredMoves DEF Next, RetireRoot, EnrolRoot, Break, vars, tables

(* A kernel that serves on an advanced clock has declared the advance first,  *)
(* with an instant that gives the host's own time away.                       *)
THEOREM AdvanceDeclaredHolds == Spec => []AdvanceDeclared
<1>1. Init => DeclaredInv
  BY DEF Init, DeclaredInv, DeclaredFor, Down, Past
<1>2. DeclaredInv => AdvanceDeclared
  BY DEF DeclaredInv, DeclaredFor, AdvanceDeclared, Past
<1> QED
  BY <1>1, <1>2, DeclaredStep, StartupTyped, PTL DEF Spec

--------------------------------------------------------------------------------
(* The declared clock does not go back.                                       *)

Alone == \A p, q \in Proc : Starting(p) /\ Starting(q) => p = q

NeverBack ==
  \A i, j \in 1..Len(declared) :
    i < j => declared[i].effective =< declared[j].effective

(* What a start is about to declare is not behind anything declared. *)
AboutToDeclare ==
  \A p \in Proc : proc[p].pc = "declare" =>
    \A i \in 1..Len(declared) : declared[i].effective =< proc[p].effective

RatchetInv == ~overlapped => Alone /\ NeverBack /\ AboutToDeclare

LEMMA AloneMoves ==
  ASSUME StartupTypeOK, ~overlapped => Alone, NEW p \in Proc,
         Start(p) \/ ProcessStep(p) \/ Crash(p)
  PROVE  ~overlapped' => Alone'
<1> SUFFICES ASSUME ~overlapped' PROVE Alone'
  OBVIOUS
<1>1. CASE Start(p)
  <2>1. Alone /\ \A q \in Proc \ {p} : ~Starting(q)
    BY <1>1 DEF Start, StartupTypeOK
  <2>2. \A q \in Proc \ {p} : proc'[q] = proc[q]
    BY <1>1, OnlyOneMoves
  <2> QED
    BY <2>1, <2>2 DEF Alone, Starting
<1>2. CASE Crash(p)
  <2>1. Alone /\ proc'[p].pc = "down"
    BY <1>2 DEF Crash, Refuse, StartupTypeOK, Down
  <2>2. \A q \in Proc \ {p} : proc'[q] = proc[q]
    BY <1>2, OnlyOneMoves
  <2> QED
    BY <2>1, <2>2 DEF Alone, Starting
<1>3. CASE ProcessStep(p)
  <2>1. Alone /\ Starting(p)
    BY <1>3, StepsFrom DEF ProcessStep, Starting, Rewind, At, ReadStamp, Migrate,
       Verify, CheckClock, Declare, ReadRoots, SeedRoot, Serve
  <2>2. \A q \in Proc \ {p} : proc'[q] = proc[q]
    BY <1>3, OnlyOneMoves
  <2> QED
    BY <2>1, <2>2 DEF Alone, Starting
<1> QED
  BY <1>1, <1>2, <1>3

LEMMA RatchetMoves ==
  ASSUME StartupTypeOK, RatchetInv, NEW p \in Proc, ~overlapped', ~overlapped,
         Start(p) \/ ProcessStep(p) \/ Crash(p)
  PROVE  NeverBack' /\ AboutToDeclare'
<1>1. Alone /\ NeverBack /\ AboutToDeclare
  BY DEF RatchetInv
<1>2. declared \in Seq([advance : Nat, effective : Nat]) /\ Len(declared) \in Nat
  BY DEF StartupTypeOK
<1>3. \A q \in Proc : q # p => proc'[q] = proc[q]
  BY OnlyOneMoves
<1>4. CASE Declare(p)
  <2>1. proc[p].pc = "declare" /\ proc[p].effective \in Nat
    BY <1>4, StepsFrom, UpIsTyped
  <2>2. PICK d : d = Declaration(p)
    OBVIOUS
  <2>3. declared' = Append(declared, d)
    BY <1>4, <2>2 DEF Declare
  <2>4. d \in [advance : Nat, effective : Nat] /\ d.effective = proc[p].effective
    BY <2>1, <2>2, UpIsTyped DEF Declaration
  <2>5. \A i \in 1..Len(declared) : declared[i].effective =< d.effective
    BY <1>1, <2>1, <2>4 DEF AboutToDeclare
  <2>6. /\ Len(declared') = Len(declared) + 1
        /\ \A i \in 1..Len(declared) : declared'[i] = declared[i]
        /\ declared'[Len(declared) + 1] = d
    BY <1>2, <2>3, <2>4
  <2>7. NeverBack'
    <3>1. SUFFICES ASSUME NEW i \in 1..Len(declared'), NEW j \in 1..Len(declared'),
                          i < j
                   PROVE  declared'[i].effective =< declared'[j].effective
      BY DEF NeverBack
    <3>2. i \in 1..Len(declared) /\ declared'[i] = declared[i]
      BY <1>2, <2>6, <3>1
    <3>3. CASE j \in 1..Len(declared)
      BY <1>1, <2>6, <3>1, <3>2, <3>3 DEF NeverBack
    <3>4. CASE j = Len(declared) + 1
      BY <2>5, <2>6, <3>2, <3>4
    <3> QED
      BY <1>2, <2>6, <3>1, <3>3, <3>4
  <2>8. \A q \in Proc : proc'[q].pc # "declare"
    <3>1. proc'[p].pc = "roots"
      <4>1. proc' = [proc EXCEPT ![p].pc = "roots"]
        BY <1>4 DEF Declare, Move
      <4> QED
        BY <2>1, <4>1, UpIsTyped DEF StartupTypeOK
    <3>2. \A q \in Proc : q # p => ~Starting(q)
      BY <1>1, <2>1 DEF Alone, Starting
    <3> QED
      BY <1>3, <3>1, <3>2 DEF Starting
  <2> QED
    BY <2>7, <2>8 DEF AboutToDeclare
<1>5. CASE ~Declare(p)
  <2>1. declared' = declared
    BY <1>5 DEF Start, Crash, ProcessStep, ReadStamp, Migrate, Verify, Rewind,
       CheckClock, ReadRoots, SeedRoot, Serve, tables
  <2>2. NeverBack'
    BY <1>1, <2>1 DEF NeverBack
  <2>3. ASSUME NEW q \in Proc, proc'[q].pc = "declare",
               NEW i \in 1..Len(declared)
        PROVE  declared[i].effective =< proc'[q].effective
    <3>1. CASE q # p
      BY <1>1, <1>3, <2>3, <3>1 DEF AboutToDeclare
    <3>2. CASE q = p
      <4>1. ProcessStep(p) /\ proc[p].pc # "down"
        <5>1. ~Start(p) /\ ~Crash(p)
          BY <2>3, <3>2 DEF Start, Crash, Refuse, Down, StartupTypeOK
        <5> QED
          BY <5>1, StepsFrom DEF ProcessStep, Rewind, At
      <4>2. CheckClock(p) /\ proc'[p].effective = Now(p)
        BY <1>5, <2>3, <3>2, <4>1, RecordAfter DEF Down
      <4>3. declared = << >> \/ ~(Now(p) < LastDeclared)
        BY <2>3, <3>2, <4>2 DEF CheckClock, Refuse, Down, StartupTypeOK
      <4>4. Now(p) \in Nat
        BY <4>1, UpIsTyped DEF Now, StartupTypeOK
      <4>5. Len(declared) \in 1..Len(declared)
        BY <1>2, <2>3
      <4>6. LastDeclared \in Nat /\ declared[i].effective \in Nat
        <5>1. \A k \in 1..Len(declared) :
                declared[k] \in [advance : Nat, effective : Nat]
          BY <1>2, ElementsTyped
        <5> QED
          BY <2>3, <4>5, <5>1 DEF LastDeclared
      <4>7. declared[i].effective =< LastDeclared
        <5>1. i = Len(declared) \/ i < Len(declared)
          BY <1>2, <2>3
        <5> QED
          BY <1>1, <2>3, <4>5, <4>6, <5>1 DEF NeverBack, LastDeclared
      <4> QED
        BY <2>3, <3>2, <4>2, <4>3, <4>4, <4>5, <4>6, <4>7
    <3> QED
      BY <3>1, <3>2
  <2> QED
    BY <2>1, <2>2, <2>3 DEF AboutToDeclare
<1> QED
  BY <1>4, <1>5

LEMMA RatchetStep == StartupTypeOK /\ RatchetInv /\ [Next]_vars => RatchetInv'
<1> SUFFICES ASSUME StartupTypeOK, RatchetInv, [Next]_vars, ~overlapped'
             PROVE  Alone' /\ NeverBack' /\ AboutToDeclare'
  BY DEF RatchetInv
<1>1. CASE UNCHANGED << declared, proc, overlapped >>
  BY <1>1 DEF RatchetInv, Alone, Starting, NeverBack, AboutToDeclare
<1>2. ASSUME NEW p \in Proc, Start(p) \/ ProcessStep(p) \/ Crash(p)
      PROVE  Alone' /\ NeverBack' /\ AboutToDeclare'
  <2>1. ~overlapped
    BY <1>2 DEF StartupTypeOK, Start, Crash, ProcessStep, ReadStamp, Migrate,
       Verify, Rewind, CheckClock, Declare, ReadRoots, SeedRoot, Serve
  <2> QED
    BY <1>2, <2>1, AloneMoves, RatchetMoves DEF RatchetInv
<1> QED
  BY <1>1, <1>2 DEF Next, RetireRoot, EnrolRoot, Break, Tick, vars, tables

(* As long as no two starts are under way at once, declarations follow one    *)
(* another forward, whatever advances the starts are configured with.         *)
THEOREM ClockRatchetsHolds == Spec => []ClockRatchets
<1>1. Init => RatchetInv
  BY DEF Init, RatchetInv, Alone, Starting, NeverBack, AboutToDeclare, Down
<1>2. RatchetInv => ClockRatchets
  BY DEF RatchetInv, ClockRatchets, NeverBack
<1> QED
  BY <1>1, <1>2, RatchetStep, StartupTyped, PTL DEF Spec

================================================================================
