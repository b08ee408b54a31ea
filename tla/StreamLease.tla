----------------------------- MODULE StreamLease -----------------------------
(***************************************************************************)
(* What the session protocol promises, without datagrams or timers of the  *)
(* PC: the console leases its input stream to one host at a time.  A host  *)
(* that asks takes the lease over from whoever has it; a lease nobody      *)
(* renewed ends, but never before it is older than Term; and a host        *)
(* believes in its session only if the console once granted it a lease.    *)
(***************************************************************************)
EXTENDS Integers

CONSTANTS Hosts, Nobody, Term

VARIABLES
    owner,      \* who the stream goes to
    leaseAge,   \* time since the owner last asked, up to Term + 1
    granted,    \* every host that ever had the lease
    believers   \* the hosts that think they have a session

leaseVars == <<owner, leaseAge, granted, believers>>

LeaseInit ==
    /\ owner = Nobody
    /\ leaseAge = Term + 1
    /\ granted = {}
    /\ believers = {}

\* h takes the lease or renews it.
Claim(h) ==
    /\ owner' = h
    /\ leaseAge' = 0
    /\ granted' = granted \cup {h}
    /\ UNCHANGED believers

\* The lease ran out.
Expire ==
    /\ owner # Nobody
    /\ leaseAge > Term
    /\ owner' = Nobody
    /\ UNCHANGED <<leaseAge, granted, believers>>

\* The console restarts and has forgotten the lease.
Forget ==
    /\ owner' = Nobody
    /\ leaseAge' = Term + 1
    /\ UNCHANGED <<granted, believers>>

\* A leased stream is checked in every time unit: it is never older than
\* Term when time passes.
Pass ==
    /\ owner # Nobody => leaseAge <= Term
    /\ leaseAge' = IF leaseAge > Term THEN leaseAge ELSE leaseAge + 1
    /\ UNCHANGED <<owner, granted, believers>>

Believe(h) ==
    /\ h \in granted
    /\ believers' = believers \cup {h}
    /\ UNCHANGED <<owner, leaseAge, granted>>

\* h ends its session, or its process does.
Part(h) ==
    /\ believers' = believers \ {h}
    /\ UNCHANGED <<owner, leaseAge, granted>>

LeaseNext ==
    \/ \E h \in Hosts : Claim(h) \/ Believe(h) \/ Part(h)
    \/ Expire
    \/ Forget
    \/ Pass

LeaseSpec == LeaseInit /\ [][LeaseNext]_leaseVars
=============================================================================
