----------------------------- MODULE KernelStartup -----------------------------
(******************************************************************************)
(* How a kernel process comes to serve a store: Kernel::open, in lib.rs, with *)
(* the schema migration (migrate.rs, Store::connect), the re-verification     *)
(* that follows it, the clock declaration (clock.rs) and the root set of the  *)
(* configuration.  Each action is one transaction or one read, since a start  *)
(* may be killed after any of them and another may run beside it: a supervisor*)
(* restarts a kernel unattended, and an operator may start a second one, of   *)
(* another build, over the same file.                                         *)
(*                                                                            *)
(* Of the schema only its version matters: migrations are a contiguous,       *)
(* additive registry, so `schema' is the last step whose tables and triggers  *)
(* the file has, and `stamp' is what the file says of itself.                 *)
(******************************************************************************)
EXTENDS Integers, Sequences, FiniteSets

CONSTANTS
  Proc,         \* processes that may be started over one store
  Root,         \* root keys a configuration may name
  Config,       \* what a start is given: its build's last schema step, its
                \* clock advance, the roots it lists, in order, each with the
                \* instant from which it is enrolled
  Unsafe,       \* steps after which the store is not append-only, or that fail
  LastInstant,  \* bound on the host's clock
  MaxDeclared   \* bound on the declarations recorded

ASSUME StartupAssumption ==
  /\ LastInstant \in Nat /\ MaxDeclared \in Nat
  /\ Unsafe \subseteq Nat
  /\ \A c \in Config :
       /\ c.target \in Nat
       /\ c.advance \in Nat
       /\ c.roots \in Seq([key : Root, from : Nat])

VARIABLES
  stamp,        \* PRAGMA user_version
  schema,       \* the last step the file has had
  chains,       \* whether every chain verifies
  declared,     \* declarations of an advance, in the order they were recorded
  roots,        \* the table of roots: from when, and whether retired
  host,         \* the host's clock
  proc,         \* how far each process has come
  overlapped    \* whether two starts have ever been under way at once

tables == << stamp, schema, chains, declared, roots >>
vars == << stamp, schema, chains, declared, roots, host, proc, overlapped >>

Down == [pc |-> "down"]
Absent == [from |-> 0, state |-> "absent"]

Starting(p) == proc[p].pc \notin {"down", "serving"}
Serving(p)  == proc[p].pc = "serving"

(* What process p's clock reads: AdvancedClock::now. *)
Now(p) == host + proc[p].config.advance

Init ==
  /\ stamp = 0 /\ schema = 0 /\ chains = "whole"
  /\ declared = << >>
  /\ roots = [k \in Root |-> Absent]
  /\ host = 0
  /\ proc = [p \in Proc |-> Down]
  /\ overlapped = FALSE

At(p, pc) == proc[p].pc = pc

Move(p, pc) == proc' = [proc EXCEPT ![p].pc = pc]

(* A start that is refused ends the process: "startup refused". *)
Refuse(p) == proc' = [proc EXCEPT ![p] = Down]

--------------------------------------------------------------------------------
(* Opening and migrating the store.                                           *)

Start(p) ==
  /\ At(p, "down")
  /\ \E c \in Config :
       proc' = [proc EXCEPT ![p] = [pc |-> "open", config |-> c, before |-> 0,
                                    effective |-> 0, next |-> 1]]
  /\ overlapped' = (overlapped \/ \E q \in Proc \ {p} : Starting(q))
  /\ UNCHANGED << tables, host >>

(* The stamp to go back to, read before the migration's transaction. *)
ReadStamp(p) ==
  /\ At(p, "open")
  /\ proc' = [proc EXCEPT ![p].before = stamp, ![p].pc = "migrate"]
  /\ UNCHANGED << tables, host, overlapped >>

Steps(p) == {v \in 1..proc[p].config.target : v > stamp}

(* Mutant: the stamp is set outside the transaction that is rolled back. *)
MigrateStampKept(p) ==
  /\ At(p, "migrate")
  /\ stamp' = IF stamp > proc[p].config.target THEN stamp
              ELSE proc[p].config.target
  /\ IF stamp > proc[p].config.target \/ Steps(p) \cap Unsafe # {}
     THEN /\ Refuse(p)
          /\ UNCHANGED schema
     ELSE /\ schema' = IF schema > stamp' THEN schema ELSE stamp'
          /\ Move(p, IF Steps(p) = {} THEN "clock" ELSE "verify")
  /\ UNCHANGED << chains, declared, roots, host, overlapped >>

(* One transaction: the steps above the stamp, the probe that chain-bearing   *)
(* tables still refuse a rewrite, the new stamp.  A store of a newer build, a *)
(* step that fails and a probe that succeeds are refused and leave nothing.   *)
Migrate(p) ==
  /\ At(p, "migrate")
  /\ IF stamp > proc[p].config.target \/ Steps(p) \cap Unsafe # {}
     THEN /\ Refuse(p)
          /\ UNCHANGED << stamp, schema >>
     ELSE IF Steps(p) = {}
     THEN /\ Move(p, "clock")
          /\ UNCHANGED << stamp, schema >>
     ELSE /\ stamp' = proc[p].config.target
          /\ schema' = IF schema > stamp' THEN schema ELSE stamp'
          /\ Move(p, "verify")
  /\ UNCHANGED << chains, declared, roots, host, overlapped >>

(* Every chain is read again when a step was applied, and only then. *)
Verify(p) ==
  /\ At(p, "verify")
  /\ Move(p, IF chains = "whole" THEN "clock" ELSE "rewind")
  /\ UNCHANGED << tables, host, overlapped >>

(* Mutant: goes back one version too far. *)
RewindFurther(p) ==
  /\ At(p, "rewind")
  /\ stamp' = proc[p].before - 1
  /\ Refuse(p)
  /\ UNCHANGED << schema, chains, declared, roots, host, overlapped >>

Rewind(p) ==
  /\ At(p, "rewind")
  /\ stamp' = proc[p].before
  /\ Refuse(p)
  /\ UNCHANGED << schema, chains, declared, roots, host, overlapped >>

--------------------------------------------------------------------------------
(* The clock.                                                                 *)

LastDeclared == declared[Len(declared)].effective

(* Mutant: the host's clocks are compared, not the advanced ones. *)
CheckHostClock(p) ==
  /\ At(p, "clock")
  /\ IF declared # << >> /\ host < LastDeclared - declared[Len(declared)].advance
     THEN Refuse(p)
     ELSE proc' = [proc EXCEPT
                     ![p].effective = Now(p),
                     ![p].pc = IF proc[p].config.advance = 0 THEN "roots"
                               ELSE "declare"]
  /\ UNCHANGED << tables, host, overlapped >>

(* Whatever the advance, a clock behind the last declaration is refused. *)
CheckClock(p) ==
  /\ At(p, "clock")
  /\ IF declared # << >> /\ Now(p) < LastDeclared
     THEN Refuse(p)
     ELSE proc' = [proc EXCEPT
                     ![p].effective = Now(p),
                     ![p].pc = IF proc[p].config.advance = 0 THEN "roots"
                               ELSE "declare"]
  /\ UNCHANGED << tables, host, overlapped >>

Declaration(p) ==
  [advance |-> proc[p].config.advance, effective |-> proc[p].effective]

(* Mutant: an advance somebody declared before is not declared again. *)
DeclareOnce(p) ==
  /\ At(p, "declare")
  /\ Len(declared) < MaxDeclared
  /\ declared' = IF declared = << >> THEN << Declaration(p) >> ELSE declared
  /\ Move(p, "roots")
  /\ UNCHANGED << stamp, schema, chains, roots, host, overlapped >>

(* The declaration says the instant the check was made at, not a later one. *)
Declare(p) ==
  /\ At(p, "declare")
  /\ Len(declared) < MaxDeclared
  /\ declared' = Append(declared, Declaration(p))
  /\ Move(p, "roots")
  /\ UNCHANGED << stamp, schema, chains, roots, host, overlapped >>

--------------------------------------------------------------------------------
(* The root set.                                                              *)

(* Store::roots_at. *)
ActiveAt(t) == {k \in Root : roots[k].state = "enrolled" /\ roots[k].from <= t}

ReadRoots(p) ==
  /\ At(p, "roots")
  /\ Move(p, IF ActiveAt(Now(p)) = {} THEN "seed" ELSE "bind")
  /\ UNCHANGED << tables, host, overlapped >>

(* One root of the configuration, in a transaction of its own; a key that has *)
(* a row already, a retired one's too, is left as it is.                      *)
SeedRoot(p) ==
  /\ At(p, "seed")
  /\ LET listed == proc[p].config.roots
         n == proc[p].next
     IN IF n > Len(listed)
        THEN /\ Move(p, "bind")
             /\ UNCHANGED roots
        ELSE /\ proc' = [proc EXCEPT ![p].next = n + 1]
             /\ roots' = IF roots[listed[n].key].state # "absent" THEN roots
                         ELSE [roots EXCEPT ![listed[n].key] =
                                 [from |-> listed[n].from, state |-> "enrolled"]]
  /\ UNCHANGED << stamp, schema, chains, declared, host, overlapped >>

--------------------------------------------------------------------------------
(* Serving, and what happens to a store meanwhile.                            *)

Serve(p) ==
  /\ At(p, "bind")
  /\ Move(p, "serving")
  /\ UNCHANGED << tables, host, overlapped >>

(* A root retired by a gated envelope; nothing asks whether it was the last. *)
RetireRoot(p) ==
  /\ Serving(p)
  /\ \E k \in ActiveAt(Now(p)) : roots' = [roots EXCEPT ![k].state = "retired"]
  /\ UNCHANGED << stamp, schema, chains, declared, host, proc, overlapped >>

(* A root enrolled by a gated envelope; a key that has a row keeps it. *)
EnrolRoot(p) ==
  /\ Serving(p)
  /\ ActiveAt(Now(p)) # {}
  /\ \E k \in Root :
       /\ roots[k].state = "absent"
       /\ roots' = [roots EXCEPT ![k] = [from |-> Now(p), state |-> "enrolled"]]
  /\ UNCHANGED << stamp, schema, chains, declared, host, proc, overlapped >>

(* A record that does not verify: damage to the file, or a resume accepted    *)
(* behind a refused position, whose missing place verify_chain reads as a gap.*)
Break ==
  /\ chains = "whole"
  /\ chains' = "broken"
  /\ UNCHANGED << stamp, schema, declared, roots, host, proc, overlapped >>

(* The process is killed or stopped, at any point. *)
Crash(p) ==
  /\ ~At(p, "down")
  /\ Refuse(p)
  /\ UNCHANGED << tables, host, overlapped >>

Tick ==
  /\ host < LastInstant
  /\ host' = host + 1
  /\ UNCHANGED << tables, proc, overlapped >>

--------------------------------------------------------------------------------
ProcessStep(p) ==
  \/ ReadStamp(p) \/ Migrate(p) \/ Verify(p) \/ Rewind(p)
  \/ CheckClock(p) \/ Declare(p)
  \/ ReadRoots(p) \/ SeedRoot(p) \/ Serve(p)

Next ==
  \/ \E p \in Proc :
       \/ Start(p) \/ ProcessStep(p)
       \/ RetireRoot(p) \/ EnrolRoot(p) \/ Crash(p)
  \/ Break
  \/ Tick

Spec == Init /\ [][Next]_vars

--------------------------------------------------------------------------------
(* Properties.                                                                *)

Pc == {"open", "migrate", "verify", "rewind", "clock", "declare", "roots",
       "seed", "bind", "serving"}

Process ==
  {Down} \cup [pc : Pc, config : Config, before : Nat, effective : Nat,
               next : Nat \ {0}]

(* The file's tables and every start are well formed. *)
StartupTypeOK ==
  /\ stamp \in Nat /\ schema \in Nat /\ chains \in {"whole", "broken"}
  /\ declared \in Seq([advance : Nat, effective : Nat])
  /\ roots \in [Root -> [from : Nat, state : {"absent", "enrolled", "retired"}]]
  /\ host \in Nat /\ overlapped \in BOOLEAN
  /\ proc \in [Proc -> Process]

(* Whatever the file says of itself, it has had the steps it claims: rewinds  *)
(* by refused starts, of several builds and under way at once, may leave the  *)
(* stamp behind the schema and never ahead of it (migrate.rs, rewind_version).*)
StampIsTrue == stamp =< schema

(* Nothing is served on an advanced clock before the store says so, with the  *)
(* instant this process started from and the host's own time then             *)
(* (declare_advance): the discontinuity can be measured.                      *)
AdvanceDeclared ==
  \A p \in Proc :
    proc[p].pc \in {"roots", "seed", "bind", "serving"}
      /\ proc[p].config.advance > 0
    => /\ proc[p].effective - proc[p].config.advance \in 0..host
       /\ \E i \in 1..Len(declared) : declared[i] = Declaration(p)

(* The declared clock never goes back, whatever advances later starts are     *)
(* configured with.  Two starts at once can break it: one may check before    *)
(* the other has declared.                                                    *)
ClockRatchets ==
  ~overlapped =>
    \A i, j \in 1..Len(declared) :
      i < j => declared[i].effective =< declared[j].effective

================================================================================
