--------------------------- MODULE GrantLifecycle ---------------------------
(***************************************************************************)
(* Which grants the local store comes to hold, and on whose word.          *)
(*                                                                         *)
(*   grants/lifecycle.py  create(), renew()                                *)
(*   crypto/grants.py     the signed fields of a grant                     *)
(*   state/sqlite.py      store_signed_grant(), import_signed_grant(),     *)
(*                        activate_session()                               *)
(*   daemon/server.py     grant.import                                     *)
(*                                                                         *)
(* The remote validator answers with a canonical grant of its own choice;  *)
(* a person is shown the changes and says yes or no.  Grants that somebody *)
(* else has signed come in too, and nobody is asked: the daemon imports    *)
(* them, a session is activated with one, and renew() takes whatever       *)
(* signed grant its caller holds without looking it up.  A step is one     *)
(* whole call; the calls that raise change nothing and are left out.       *)
(* Revoking a grant is MountDaemon's: it leaves the row, so the identifier *)
(* stays taken, and no step of a grant's life looks at it.                 *)
(***************************************************************************)
EXTENDS Naturals, FiniteSets, SequencesExt

CONSTANTS
  Proposals,   \* the grants a caller proposes or the validator answers
  Foreign,     \* those of them that somebody signed elsewhere
  NoHost,      \* no row of the table of hosts
  MaxStored    \* bound on the grants stored

\* What Grant.__post_init__() asks of a grant (of the shape of its fields only
\* what a comparison of grants can tell apart); an export's access is an AccessMode.
WellFormed(g) ==
  /\ g.window.from < g.window.until
  /\ g.exports \in Seq(ToSet(g.exports)) /\ g.exports # <<>>
  /\ \A i \in DOMAIN g.exports : g.exports[i].access \in {"ro", "rw"}

ASSUME ProposalsAssumption ==
  /\ \A g \in Proposals : WellFormed(g)
  /\ Foreign \subseteq Proposals
  /\ NoHost \notin {g.binding : g \in Proposals}
  /\ MaxStored \in Nat

VARIABLES
  stored,       \* the signed grants of the store, which no call removes
  hosts,        \* the binding each host has in the store, or NoHost
  authorised,   \* history: the canonical grants a person said yes to
  outside       \* history: the signed grants that came from elsewhere

lifecycleVars == <<stored, hosts, authorised, outside>>

Hosts == {g.binding.host : g \in Proposals}

ExportsOf(g) == {g.exports[i] : i \in DOMAIN g.exports}

\* Mutant of Widened: what is exported is not compared.
WidenedButForExports(old, new) ==
  \/ old.binding # new.binding
  \/ ~(new.features \subseteq old.features)
  \/ old.policy # new.policy
  \/ old.extensions # new.extensions

\* Mutant of Widened: only a longer list of exports counts.
WidenedByCount(old, new) ==
  \/ old.binding # new.binding
  \/ Len(new.exports) > Len(old.exports)
  \/ ~(new.features \subseteq old.features)
  \/ old.policy # new.policy
  \/ old.extensions # new.extensions

\* compare_grants().widened: the window of validity and the identifier may
\* change, features may be dropped, and nothing else.
Widened(old, new) ==
  \/ old.binding # new.binding
  \/ ExportsOf(old) # ExportsOf(new)
  \/ ~(new.features \subseteq old.features)
  \/ old.policy # new.policy
  \/ old.extensions # new.extensions

\* _canonical_changes(): every field but the identifier, the issuer and the nonce.
CanonicalChanges(requested, canonical) ==
  {f \in {"binding", "window", "exports", "features", "policy", "extensions"} :
     requested[f] # canonical[f]}

\* SignedGrant.verify(), in a context that knows no extension and a time clamped
\* into the grant's window: the store verifies grants that are over, too.
Verifies(g) == g.extensions = {}

\* store_signed_grant(): the grant verifies and its identifier is not taken.
Storable(g) == Verifies(g) /\ \A s \in stored : s.id # g.id

\* The rows a stored grant adds: its own, and its host's as it is bound to it.
Store(g) ==
  /\ Storable(g)
  /\ stored' = stored \cup {g}
  /\ hosts' = [hosts EXCEPT ![g.binding.host] = g.binding]

LifecycleInit ==
  /\ stored = {} /\ hosts = [h \in Hosts |-> NoHost]
  /\ authorised = {} /\ outside = {}

\* create(): the approver is asked whether or not the validator changed anything.
Create ==
  \E canonical \in Proposals :
    /\ Store(canonical)
    /\ authorised' = authorised \cup {canonical}
    /\ UNCHANGED outside

\* grant.import takes a grant for the host as it is enrolled, activate_session()
\* one for a host that is not: a signature is verified, and no person is asked.
Import(g) ==
  /\ hosts[g.binding.host] \in {g.binding, NoHost}
  /\ Store(g)
  /\ outside' = outside \cup {g}
  /\ UNCHANGED authorised

\* renew(): a person is asked about what is wider than before and about what
\* the validator changed; when there is neither, nobody is asked.  The grant
\* renewed is the caller's word: it need not be stored, nor verify.
Renew(current, proposed) ==
  /\ current.id # proposed.id
  /\ \E canonical \in Proposals :
       /\ Store(canonical)
       /\ authorised' =
            IF Widened(current, canonical) \/ CanonicalChanges(proposed, canonical) # {}
            THEN authorised \cup {canonical}
            ELSE authorised
  /\ outside' = outside \cup ({current} \ stored)

\* MaxStored is the model's bound.
LifecycleNext ==
  /\ Cardinality(stored) < MaxStored
  /\ \/ Create
     \/ \E g \in Foreign : Import(g)
     \/ \E current \in stored \cup Foreign, proposed \in Proposals : Renew(current, proposed)

LifecycleSpec == LifecycleInit /\ [][LifecycleNext]_lifecycleVars

-----------------------------------------------------------------------------
(* Properties                                                              *)

LifecycleTypeOK ==
  /\ stored \subseteq Proposals
  /\ hosts \in [Hosts -> {g.binding : g \in stored} \cup {NoHost}]
  /\ authorised \subseteq stored
  /\ outside \subseteq Foreign

\* The grants whose rights somebody has vouched for: a person who was asked here,
\* or whoever signed a grant elsewhere and brought it.
Vouched == authorised \cup outside

\* "Renew cannot silently widen": however long the chain of renewals, whatever
\* the validator answers and whichever older or foreign grant is renewed, a stored
\* grant exports exactly what one grant exports that a person said yes to or that
\* was brought in signed, to the same user of the same host under the same policy,
\* with no further feature.
NoSilentWidening ==
  \A g \in stored : \E a \in Vouched :
    /\ ExportsOf(g) = ExportsOf(a)
    /\ g.binding = a.binding /\ g.policy = a.policy /\ g.extensions = a.extensions
    /\ g.features \subseteq a.features
=============================================================================
