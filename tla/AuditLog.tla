-------------------------------- MODULE AuditLog --------------------------------
(******************************************************************************)
(* What the kernel's store promises a reader of the audit, with none of how:  *)
(* each stream is a log that only grows past its end, an entry is in the log  *)
(* once, a position is passed over only after its contents were refused, and  *)
(* an approval signed for single use backs one entry and no other.            *)
(* KernelStore implements it.                                                 *)
(******************************************************************************)
EXTENDS Naturals

CONSTANTS Stream, Entry, Position, Request

VARIABLES
  log,      \* a set of <<stream, position, entry>>
  refused,  \* the <<stream, position>> pairs something was refused at
  backed    \* <<request, entry, single-use>>: the approvals entries rest on

logVars == <<log, refused, backed>>

LogInit == log = {} /\ refused = {} /\ backed = {}

(* Position n is where stream s ends: everything in it is before n, and it is *)
(* either 0 or right after an entry.                                          *)
EndsAt(s, n) == /\ \A x \in log : x[1] = s => x[2] < n
                /\ n = 0 \/ \E x \in log : x[1] = s /\ x[2] + 1 = n

Fresh(e) == \A x \in log : x[3] # e

(* The entry rests on no approval, or on one nothing single-use shares.       *)
Backing(e) ==
  \/ backed' = backed
  \/ \E r \in Request, single \in BOOLEAN :
       /\ backed' = backed \cup {<<r, e, single>>}
       /\ \A b \in backed : b[1] = r => ~b[3] /\ ~single

Record(s, n, e) ==
  /\ log' = log \cup {<<s, n, e>>}
  /\ Fresh(e)
  /\ \/ EndsAt(s, n)
     \/ \E m \in Position : m + 1 = n /\ EndsAt(s, m) /\ <<s, m>> \in refused
  /\ Backing(e)
  /\ refused' = refused

Refuse(s, n) == /\ refused' = refused \cup {<<s, n>>}
                /\ UNCHANGED <<log, backed>>

LogNext == \E s \in Stream, n \in Position :
             Refuse(s, n) \/ \E e \in Entry : Record(s, n, e)

LogSpec == LogInit /\ [][LogNext]_logVars
================================================================================
