------------------------------ MODULE StorageLease ------------------------------
(***************************************************************************)
(* The global writer lease of the document store (radar_core                *)
(* storage/primary_store.py: Lease, maintenance, proof and the fencing      *)
(* triggers) over the SQL transport (storage/sql.py: _HttpClient, Turso and *)
(* D1).  A session sends one statement at a time, up to three times within  *)
(* its budget.  An attempt that gets no answer may have been executed, may  *)
(* be executed later, also after the session has gone on, or never.  Time   *)
(* passes between any two steps: a session may be suspended for longer than *)
(* its lease lives.  The documents themselves are PrimaryStore's.           *)
(***************************************************************************)
EXTENDS Integers

CONSTANTS
  Session,     \* the Lease objects, one for each maintenance block
  TTL,         \* how long a lease lives, 120 s in the code
  RenewAfter,  \* its age at which it is renewed before use, TTL / 3
  Wait,        \* how long a session waits for it, 180 s
  Budget,      \* the time that the client of a session may take
  Attempts,    \* attempts of a request, 3
  MaxNow,      \* BOUND on the clock
  MaxLost      \* BOUND on the attempts without an answer

ASSUME LeaseAssumption ==
  /\ Session # {} /\ TTL \in Nat \ {0} /\ RenewAfter \in Nat /\ Wait \in Nat /\ Budget \in Nat
  /\ Attempts \in Nat \ {0} /\ MaxNow \in Nat /\ MaxLost \in Nat

VARIABLES
  now,       \* the clock of the database
  row,       \* the row of radar_leases
  sessions,
  wire,      \* statements that may still be executed
  writer,    \* the fence of the last write that the triggers accepted
  lost

leaseVars == <<now, row, sessions, wire, writer, lost>>
--------------------------------------------------------------------------------
Fresh == [pc |-> "idle", fence |-> 0, renewed |-> 0, begun |-> 0, attempt |-> 1]
Statements == {"acquire", "check", "recover", "renew", "write", "release"}

LeaseInit ==
  /\ now = 0
  /\ row = [owner |-> CHOOSE s \in Session : TRUE, fence |-> 0, expires |-> 0]
  /\ sessions = [s \in Session |-> Fresh]
  /\ wire = {}
  /\ writer = 0
  /\ lost = 0

Tick == now < MaxNow /\ now' = now + 1 /\ UNCHANGED <<row, sessions, wire, writer, lost>>
--------------------------------------------------------------------------------
(* The database *)

Live == row.expires > now
Owned(s) == row.owner = s /\ Live
AnyTenure(st) == row.owner = st.session                                 \* a slip
Valid(st) == row.owner = st.session /\ row.fence = st.fence /\ Live

SameFence(st) ==                                                        \* a slip
  [owner |-> st.session, fence |-> IF row.fence = 0 THEN 1 ELSE row.fence, expires |-> now + TTL]
Taken(st) == [owner |-> st.session, fence |-> row.fence + 1, expires |-> now + TTL]

(* A statement is evaluated as a whole: what its WHERE clause or a trigger
   refuses has no effect. *)
Execute(st) ==
  /\ row' = IF st.kind = "acquire" /\ ~Live THEN Taken(st)
            ELSE IF st.kind = "renew" /\ Valid(st) THEN [row EXCEPT !.expires = now + TTL]
            ELSE IF st.kind = "release" /\ row.owner = st.session /\ row.fence = st.fence
            THEN [row EXCEPT !.expires = 0]
            ELSE row
  /\ writer' = IF st.kind = "write" /\ Valid(st) THEN row.fence ELSE writer

Late(st) ==
  /\ st \in wire
  /\ Execute(st)
  /\ wire' = wire \ {st}
  /\ UNCHANGED <<now, sessions, lost>>
--------------------------------------------------------------------------------
(* A session *)

At(s, pc) == sessions[s].pc = pc
Sent(s) == [kind |-> sessions[s].pc, session |-> s, fence |-> sessions[s].fence]
Goes(s, pc) == sessions' = [sessions EXCEPT ![s].pc = pc, ![s].attempt = 1]
Renewed(s) == sessions' = [sessions EXCEPT ![s].pc = "write", ![s].attempt = 1, ![s].renewed = now]
Holds(s, fence) ==
  sessions' = [sessions EXCEPT ![s].pc = "hold", ![s].attempt = 1,
                               ![s].fence = fence, ![s].renewed = now]

Enter(s) ==
  /\ At(s, "idle")
  /\ sessions' = [sessions EXCEPT ![s].pc = "acquire", ![s].begun = now]
  /\ UNCHANGED <<now, row, wire, writer, lost>>

InTime(s) == now < sessions[s].begun + Budget
Patient(s) == InTime(s) /\ now < sessions[s].begun + Wait

(* The answer: whether a row came back, or the write was accepted. *)
Answered(s) ==
  \/ /\ At(s, "acquire")
     /\ IF Live THEN Goes(s, "check") ELSE Holds(s, row'.fence)
  \/ /\ At(s, "check")
     /\ IF Owned(s) THEN Holds(s, row.fence) ELSE Goes(s, IF Patient(s) THEN "acquire" ELSE "done")
  \/ /\ At(s, "recover")
     /\ IF Owned(s) THEN Holds(s, row.fence) ELSE Goes(s, "done")
  \/ /\ At(s, "renew")
     /\ IF Valid(Sent(s)) THEN Renewed(s) ELSE Goes(s, "release")
  \/ /\ At(s, "write")
     /\ Goes(s, IF Valid(Sent(s)) THEN "hold" ELSE "release")
  \/ At(s, "release") /\ Goes(s, "done")

(* The block is left through release, which may fail in silence.  Who was not
   yet in it goes away, unless its acquisition turns out to have succeeded. *)
Fails(s) ==
  Goes(s, IF At(s, "acquire") THEN "recover"
          ELSE IF At(s, "renew") \/ At(s, "write") THEN "release"
          ELSE "done")

Answer(s) ==
  /\ sessions[s].pc \in Statements /\ InTime(s)
  /\ Execute(Sent(s))
  /\ Answered(s)
  /\ UNCHANGED <<now, wire, lost>>

(* No answer, or none that can be used; some errors are not tried again. *)
NoAnswer(s) ==
  /\ sessions[s].pc \in Statements /\ InTime(s)
  /\ lost < MaxLost /\ lost' = lost + 1
  /\ \/ Execute(Sent(s)) /\ UNCHANGED wire
     \/ wire' = wire \cup {Sent(s)} /\ UNCHANGED <<row, writer>>
     \/ UNCHANGED <<row, wire, writer>>
  /\ \/ /\ sessions[s].attempt < Attempts
        /\ sessions' = [sessions EXCEPT ![s].attempt = @ + 1]
     \/ Fails(s)
  /\ UNCHANGED now

OutOfTime(s) ==
  /\ sessions[s].pc \in Statements /\ ~InTime(s)
  /\ Fails(s)
  /\ UNCHANGED <<now, row, wire, writer, lost>>

(* proof() and heartbeat() renew a lease that is old by the session's clock. *)
Use(s) ==
  /\ At(s, "hold")
  /\ Goes(s, IF now - sessions[s].renewed < RenewAfter THEN "write" ELSE "renew")
  /\ UNCHANGED <<now, row, wire, writer, lost>>

Exit(s) ==
  /\ At(s, "hold")
  /\ Goes(s, "release")
  /\ UNCHANGED <<now, row, wire, writer, lost>>

LeaseNext ==
  \/ Tick
  \/ \E st \in wire : Late(st)
  \/ \E s \in Session : Enter(s) \/ Answer(s) \/ NoAnswer(s) \/ OutOfTime(s) \/ Use(s) \/ Exit(s)

LeaseSpec == LeaseInit /\ [][LeaseNext]_leaseVars
--------------------------------------------------------------------------------
Statement == [kind : Statements, session : Session, fence : Nat]

(* Every variable has its type. *)
LeaseTypeOK ==
  /\ now \in Nat
  /\ row \in [owner : Session, fence : Nat, expires : Nat]
  /\ sessions \in [Session -> [pc : Statements \cup {"idle", "hold", "done"}, fence : Nat,
                               renewed : Nat, begun : Nat, attempt : Nat]]
  /\ wire \subseteq Statement
  /\ writer \in Nat
  /\ lost \in Nat

(* No two sessions take themselves for the holders of one tenure, and what a
   session takes for its own tenure was granted to it: also when the answer to
   its acquisition was lost, or a request that it had given up was executed
   after all. *)
TenureIsOwn ==
  \A s \in Session : sessions[s].fence # 0 =>
    /\ sessions[s].fence <= row.fence
    /\ sessions[s].fence = row.fence => row.owner = s
    /\ \A t \in Session \ {s} : sessions[t].fence # sessions[s].fence

(* The lease keeps what it promises to the writers, whatever the transport
   does to single requests. *)
Promise == INSTANCE FencedLease WITH
  tenures <- row.fence, holder <- IF Live THEN row.fence ELSE 0
ImplementsLease == Promise!Spec
================================================================================
