------------------------------- MODULE ApiKeys -------------------------------
(***************************************************************************)
(* API keys: the form that makes one (api-keys/new), the keys an            *)
(* organization keeps (api/keys), and authenticateApiKey, which every call  *)
(* of the external API begins with.                                         *)
(***************************************************************************)
EXTENDS Integers, Sequences, FiniteSets

CONSTANTS
  Keys,                \* keys that can be made
  Tables,
  Procs,               \* web processes: each has a limiter of its own
  rateLimit, Minute,   \* requests a window, and how long it lasts
  MaxNow, MaxToggles   \* bounds: the clock, and clicks in the form

(* Names of tables are of lower case letters, digits and _.                  *)
ASSUME KeysAssumption ==
  rateLimit \in Nat \ {0} /\ Minute \in Nat \ {0} /\ "*" \notin Tables

Access == {"read", "write"}

VARIABLES
  now,
  draft,       \* permissions in the form: entries [table, read, write]
  ticked,      \* history: the boxes that are ticked
  toggles,
  key,         \* rows of api_keys
  orgActive,
  looked,      \* of each process: the row that its SELECT returned, for a call
  rateLimits,  \* of each process: counters by key
  accepted     \* history: when each process accepted calls of each key

keysVars == <<now, draft, ticked, toggles, key, orgActive, looked, rateLimits, accepted>>

NoRow == [id |-> "", active |-> FALSE, org |-> FALSE, expires |-> 0]
NoEntry == [count |-> 0, resetAt |-> 0]

-----------------------------------------------------------------------------
(* keyHasAccess, for both formats of an entry: access, or a flag for each.   *)

KeyHasAccess(permissions, t, a) ==
  permissions = {} \/ \E p \in permissions :
    /\ p.table \in {"*", t}
    /\ IF "access" \in DOMAIN p THEN p.access \in {"*", a} ELSE p[a]

Entry(t, S) == [table |-> t, read |-> "read" \in S, write |-> "write" \in S]
Flags(p) == {a \in Access : p[a]}

(* toggleTablePerm: an entry without flags is left out. *)
ToggleTablePerm(t, a) ==
  LET old == {p \in draft : p.table = t}
      flags == UNION {Flags(p) : p \in old}
      new == Entry(t, (flags \ {a}) \union ({a} \ flags))
  IN (draft \ old) \union {p \in {new} : p.read \/ p.write}

Toggle ==
  /\ key = <<>> /\ toggles < MaxToggles /\ toggles' = toggles + 1
  /\ \E t \in Tables, a \in Access :
       /\ draft' = ToggleTablePerm(t, a)
       /\ ticked' = (ticked \ {<<t, a>>}) \union ({<<t, a>>} \ ticked)
  /\ UNCHANGED <<now, key, orgActive, looked, rateLimits, accepted>>

-----------------------------------------------------------------------------
(* The keys.  A new one is random; expires_in_days may be left out.          *)

Create ==
  /\ \E k \in Keys \ DOMAIN key, e \in {now + Minute, MaxNow + 1} :
       key' = [j \in DOMAIN key \union {k} |->
                 IF j = k THEN [active |-> TRUE, expires |-> e] ELSE key[j]]
  /\ UNCHANGED <<now, draft, ticked, toggles, orgActive, looked, rateLimits, accepted>>

Delete ==
  /\ \E k \in DOMAIN key : key' = [j \in DOMAIN key \ {k} |-> key[j]]
  /\ UNCHANGED <<now, draft, ticked, toggles, orgActive, looked, rateLimits, accepted>>

(* The page sends the opposite of what it shows, which may be old. *)
SetActive ==
  /\ \E k \in DOMAIN key, b \in BOOLEAN : key' = [key EXCEPT ![k].active = b]
  /\ UNCHANGED <<now, draft, ticked, toggles, orgActive, looked, rateLimits, accepted>>

ToggleOrg ==
  /\ orgActive' = ~orgActive
  /\ UNCHANGED <<now, draft, ticked, toggles, key, looked, rateLimits, accepted>>

Clock ==
  /\ now < MaxNow /\ now' = now + 1
  /\ UNCHANGED <<draft, ticked, toggles, key, orgActive, looked, rateLimits, accepted>>

-----------------------------------------------------------------------------
(* authenticateApiKey: one query, and then the rest without an await.        *)

Lookup(p) ==
  /\ looked[p] = NoRow
  /\ \E k \in DOMAIN key :
       /\ key[k].active
       /\ looked' = [looked EXCEPT ![p] =
            [id |-> k, active |-> TRUE, org |-> orgActive, expires |-> key[k].expires]]
  /\ UNCHANGED <<now, draft, ticked, toggles, key, orgActive, rateLimits, accepted>>

(* checkRate: whether the call is within the limit, and the counter after. *)
CheckRateUncounted(entry) ==   \* mutant: entry.count++ is missing
  IF entry = NoEntry \/ now > entry.resetAt
    THEN [ok |-> TRUE, entry |-> [count |-> 1, resetAt |-> now + Minute]]
  ELSE [ok |-> entry.count < rateLimit, entry |-> entry]

CheckRate(entry) ==
  IF entry = NoEntry \/ now > entry.resetAt
    THEN [ok |-> TRUE, entry |-> [count |-> 1, resetAt |-> now + Minute]]
  ELSE IF entry.count >= rateLimit THEN [ok |-> FALSE, entry |-> entry]
  ELSE [ok |-> TRUE, entry |-> [entry EXCEPT !.count = @ + 1]]

Authenticate(p) ==
  LET row == looked[p]
      rate == CheckRate(rateLimits[p][row.id])
  IN /\ row # NoRow /\ looked' = [looked EXCEPT ![p] = NoRow]
     /\ IF ~row.org \/ row.expires < now THEN UNCHANGED <<rateLimits, accepted>>
        ELSE /\ rateLimits' = [rateLimits EXCEPT ![p][row.id] = rate.entry]
             /\ accepted' = IF rate.ok THEN [accepted EXCEPT ![p][row.id] = Append(@, now)]
                            ELSE accepted
     /\ UNCHANGED <<now, draft, ticked, toggles, key, orgActive>>

(* A process that starts again has no counters. *)
Restart(p) ==
  /\ rateLimits' = [rateLimits EXCEPT ![p] = [k \in Keys |-> NoEntry]]
  /\ accepted' = [accepted EXCEPT ![p] = [k \in Keys |-> <<>>]]
  /\ looked' = [looked EXCEPT ![p] = NoRow]
  /\ UNCHANGED <<now, draft, ticked, toggles, key, orgActive>>

KeysInit ==
  /\ now = 0 /\ draft = {} /\ ticked = {} /\ toggles = 0
  /\ key = <<>> /\ orgActive = TRUE
  /\ looked = [p \in Procs |-> NoRow]
  /\ rateLimits = [p \in Procs |-> [k \in Keys |-> NoEntry]]
  /\ accepted = [p \in Procs |-> [k \in Keys |-> <<>>]]

KeysNext ==
  \/ Toggle \/ Create \/ Delete \/ SetActive \/ ToggleOrg \/ Clock
  \/ \E p \in Procs : Lookup(p) \/ Authenticate(p) \/ Restart(p)

KeysSpec == KeysInit /\ [][KeysNext]_keysVars

-----------------------------------------------------------------------------
(* Properties.                                                               *)

KeysTypeOK ==
  /\ DOMAIN key \subseteq Keys /\ now \in 0 .. MaxNow
  /\ \A p \in Procs, k \in Keys : rateLimits[p][k].resetAt <= now + Minute
  /\ \A p \in draft, q \in draft : p.table = q.table => p = q

(* A process accepts no more than twice the limit in any time as long as a   *)
(* window: what ends one window and begins the next.                         *)
TwiceTheLimit ==
  \A p \in Procs, k \in Keys : LET s == accepted[p][k] IN
    \A i \in 1 .. Len(s) - 2 * rateLimit : s[i + 2 * rateLimit] - s[i] > Minute

(* A key made in the form gives access to what is ticked, or to everything   *)
(* if nothing is.                                                            *)
FormGrants ==
  \A t \in Tables, a \in Access :
    KeyHasAccess(draft, t, a) <=> ticked = {} \/ <<t, a>> \in ticked

(* What is checked of the keys: a key passes no more calls than twice the    *)
(* limit and opens what its form had ticked (authenticateApiKey, checkRate   *)
(* and keyHasAccess, and toggleTablePerm of the page).                       *)
KeysHold == TwiceTheLimit /\ FormGrants
=============================================================================
