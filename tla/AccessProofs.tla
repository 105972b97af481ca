---------------------------- MODULE AccessProofs -----------------------------
(***************************************************************************)
(* Proofs about who is let in and to what: the API keys of ApiKeys, the      *)
(* channel tokens of Tokens, the sessions of Logins, and the roles and users *)
(* of Accounts, each for any number of actors and any limit.  The four       *)
(* components share no state, and no theorem below speaks of two of them.    *)
(***************************************************************************)
EXTENDS ApiKeys, Tokens, Logins, Accounts, FiniteSetTheorems, SequenceTheorems, WellFoundedInduction, TLAPS

(***************************************************************************)
(* API keys.                                                               *)
(***************************************************************************)

-----------------------------------------------------------------------------
(* The limiter.                                                              *)

Counter == [count : Nat, resetAt : Nat]

(* What the counter says of the calls s that were accepted: those of the     *)
(* window that it counts began when the window did, those before it ended    *)
(* before it began, and those before the last limit of these a window        *)
(* earlier.                                                                  *)
Told(s, e) ==
  /\ e = NoEntry => s = <<>>
  /\ e # NoEntry =>
       /\ e.count \in 1 .. rateLimit /\ e.count <= Len(s) /\ e.resetAt <= now + Minute
       /\ \A i \in 1 .. Len(s) : s[i] <= e.resetAt
       /\ \A i \in 1 .. Len(s) - e.count : s[i] + Minute < e.resetAt
       /\ \A i \in 1 .. Len(s) - e.count - rateLimit : s[i] + 2 * Minute < e.resetAt

Spread(s) == \A i \in 1 .. Len(s) - 2 * rateLimit : s[i + 2 * rateLimit] - s[i] > Minute

LimitInv ==
  /\ now \in Nat /\ DOMAIN key \subseteq Keys
  /\ looked = [p \in Procs |-> looked[p]]
  /\ \A p \in Procs : looked[p] = NoRow \/ looked[p].id \in Keys
  /\ rateLimits \in [Procs -> [Keys -> Counter]]
  /\ accepted \in [Procs -> [Keys -> Seq(Nat)]]
  /\ \A p \in Procs, k \in Keys : LET s == accepted[p][k] IN
       /\ \A i \in 1 .. Len(s) : s[i] <= now
       /\ Told(s, rateLimits[p][k]) /\ Spread(s)

LEMMA LimitInit == KeysInit => LimitInv
<1> SUFFICES ASSUME KeysInit PROVE LimitInv
  OBVIOUS
<1>1. NoEntry \in Counter
  BY DEF NoEntry, Counter
<1>2. rateLimits \in [Procs -> [Keys -> Counter]] /\ accepted \in [Procs -> [Keys -> Seq(Nat)]]
  BY <1>1 DEF KeysInit
<1>3. ASSUME NEW p \in Procs, NEW k \in Keys
      PROVE  accepted[p][k] = <<>> /\ rateLimits[p][k] = NoEntry
  BY DEF KeysInit
<1>4. Told(<<>>, NoEntry) /\ Spread(<<>>)
  BY KeysAssumption DEF Told, Spread
<1>5. QED
  BY <1>2, <1>3, <1>4 DEF KeysInit, LimitInv

(* One more call is accepted, now: the window goes on or a new one begins.   *)
LEMMA Accepting ==
  ASSUME now \in Nat, NEW s \in Seq(Nat), NEW e \in Counter,
         \A i \in 1 .. Len(s) : s[i] <= now, Told(s, e), Spread(s), CheckRate(e).ok
  PROVE  LET u == Append(s, now) IN
           /\ \A i \in 1 .. Len(u) : u[i] <= now
           /\ Told(u, CheckRate(e).entry) /\ Spread(u)
<1> DEFINE u == Append(s, now)
<1>1. /\ u \in Seq(Nat) /\ Len(u) = Len(s) + 1 /\ u[Len(u)] = now
      /\ \A i \in 1 .. Len(s) : u[i] = s[i]
      /\ Len(s) \in Nat
  OBVIOUS
<1>2. rateLimit \in Nat /\ rateLimit > 0 /\ Minute \in Nat /\ Minute > 0
  BY KeysAssumption
<1>3. e.count \in Nat /\ e.resetAt \in Nat
  BY DEF Counter
<1> DEFINE n == Len(s)
           c == e.count
           r == e.resetAt
           L == rateLimit
<1>4. n \in Nat /\ c \in Nat /\ r \in Nat /\ L \in Nat \ {0} /\ 2 * L \in Nat /\ Minute \in Nat
  BY <1>1, <1>2, <1>3
<1>5. /\ \A i \in 1 .. n + 1 : u[i] \in Nat /\ u[i] <= now
      /\ Len(u) = n + 1 /\ u[n + 1] = now
  BY <1>1
<1>6. e = NoEntry => n = 0
  BY DEF Told
<1>7. e # NoEntry =>
        /\ c \in 1 .. L /\ c <= n /\ r <= now + Minute
        /\ \A i \in 1 .. n - c : u[i] + Minute < r
        /\ \A i \in 1 .. n : u[i] <= r
        /\ \A i \in 1 .. n - c - L : u[i] + 2 * Minute < r
  <2> SUFFICES ASSUME e # NoEntry
               PROVE  /\ c \in 1 .. L /\ c <= n /\ r <= now + Minute
                      /\ \A i \in 1 .. n - c : u[i] + Minute < r
                      /\ \A i \in 1 .. n : u[i] <= r
                      /\ \A i \in 1 .. n - c - L : u[i] + 2 * Minute < r
    OBVIOUS
  <2>1. c \in 1 .. L /\ c <= n /\ r <= now + Minute
    BY DEF Told
  <2>2. \A i \in 1 .. n - c : i \in 1 .. n
    BY <1>4, <2>1
  <2>3. \A i \in 1 .. n - c - L : i \in 1 .. n
    BY <1>4, <2>1
  <2>4. QED
    BY <1>1, <2>1, <2>2, <2>3 DEF Told
<1>8. \A i \in 1 .. n - 2 * L : u[i + 2 * L] - u[i] > Minute
  BY <1>1, <1>4 DEF Spread
<1> DEFINE f == CheckRate(e).entry
           anew == e = NoEntry \/ now > r
<1>9. anew => f.count = 1 /\ f.resetAt = now + Minute
  BY DEF CheckRate
<1>10. ~anew => c < L /\ f.count = c + 1 /\ f.resetAt = r
  <2> SUFFICES ASSUME ~anew PROVE c < L /\ f.count = c + 1 /\ f.resetAt = r
    OBVIOUS
  <2>1. c < L
    <3>1. c >= L => CheckRate(e) = [ok |-> FALSE, entry |-> e]
      BY DEF CheckRate
    <3>2. [ok |-> FALSE, entry |-> e].ok = FALSE
      OBVIOUS
    <3>3. QED
      BY <1>4, <3>1, <3>2
  <2>2. CheckRate(e) = [ok |-> TRUE, entry |-> [e EXCEPT !.count = @ + 1]]
    BY <1>4, <2>1 DEF CheckRate
  <2>3. f = [e EXCEPT !.count = @ + 1]
    BY <2>2
  <2>4. QED
    BY <2>1, <2>3 DEF Counter
<1> HIDE DEF u, n, c, r, L, f, anew
<1>11. SUFFICES /\ f.count \in 1 .. L /\ f.count <= n + 1 /\ f.resetAt <= now + Minute
                /\ \A i \in 1 .. n + 1 : u[i] <= f.resetAt
                /\ \A i \in 1 .. n + 1 - f.count : u[i] + Minute < f.resetAt
                /\ \A i \in 1 .. n + 1 - f.count - L : u[i] + 2 * Minute < f.resetAt
                /\ n + 1 - 2 * L >= 1 => now - u[n + 1 - 2 * L] > Minute
  <2>1. Told(u, f)
    <3>1. f # NoEntry
      BY <1>4, <1>11 DEF NoEntry
    <3>2. Len(u) = n + 1 /\ L = rateLimit
      BY <1>5 DEF L
    <3>3. QED
      BY <1>4, <1>11, <3>1, <3>2 DEF Told
  <2>2. \A i \in 1 .. n + 1 - 2 * L : u[i + 2 * L] - u[i] > Minute
    <3> SUFFICES ASSUME NEW i \in 1 .. n + 1 - 2 * L PROVE u[i + 2 * L] - u[i] > Minute
      OBVIOUS
    <3>1. CASE i = n + 1 - 2 * L
      <4>1. i + 2 * L = n + 1
        BY <1>4, <3>1
      <4>2. QED
        BY <1>4, <1>5, <1>11, <3>1, <4>1
    <3>2. CASE i # n + 1 - 2 * L
      <4>1. i \in 1 .. n - 2 * L
        BY <1>4, <3>2
      <4>2. QED
        BY <1>8, <4>1
    <3>3. QED
      BY <3>1, <3>2
  <2>3. Spread(u)
    BY <1>4, <1>5, <2>2 DEF Spread, L
  <2>4. QED
    BY <1>5, <2>1, <2>3 DEF u, f
<1>12. CASE e = NoEntry
  <2>1. f.count = 1 /\ f.resetAt = now + Minute
    BY <1>9, <1>12 DEF anew
  <2>2. QED
    BY <1>4, <1>5, <1>6, <1>12, <2>1
<1>13. CASE e # NoEntry /\ now > r
  <2>1. f.count = 1 /\ f.resetAt = now + Minute
    BY <1>9, <1>13 DEF anew
  <2>2. \A i \in 1 .. n : u[i] < now
    BY <1>4, <1>5, <1>7, <1>13
  <2>3. \A i \in 1 .. n - L : u[i] + Minute < now
    <3> SUFFICES ASSUME NEW i \in 1 .. n - L PROVE u[i] + Minute < now
      OBVIOUS
    <3>1. i \in 1 .. n - c /\ i \in 1 .. n + 1
      BY <1>4, <1>7, <1>13
    <3>2. u[i] + Minute < r /\ u[i] \in Nat
      BY <1>5, <1>7, <1>13, <3>1
    <3>3. QED
      BY <1>4, <1>13, <3>2
  <2>4. \A i \in 1 .. n : u[i] + Minute < now + Minute
    BY <1>4, <1>5, <2>2
  <2>5. \A i \in 1 .. n - L : u[i] + 2 * Minute < now + Minute
    BY <1>4, <1>5, <2>3
  <2>6. n + 1 - 2 * L >= 1 => n + 1 - 2 * L \in 1 .. n - L
    BY <1>4
  <2>7. n + 1 - 2 * L >= 1 => now - u[n + 1 - 2 * L] > Minute
    BY <1>4, <1>5, <2>3, <2>6
  <2>8. n + 1 - 1 = n /\ n + 1 - 1 - L = n - L
    BY <1>4
  <2>9. f.count \in 1 .. L /\ f.count <= n + 1
    BY <1>4, <2>1
  <2>10. \A i \in 1 .. n + 1 : u[i] <= now + Minute
    BY <1>4, <1>5
  <2>11. QED
    BY <1>4, <2>1, <2>4, <2>5, <2>7, <2>8, <2>9, <2>10
<1>14. CASE e # NoEntry /\ ~(now > r)
  <2>1. f.count = c + 1 /\ f.resetAt = r /\ c < L
    BY <1>10, <1>14 DEF anew
  <2>2. \A i \in 1 .. n + 1 : u[i] <= r
    BY <1>4, <1>5, <1>14
  <2>3. n + 1 - (c + 1) = n - c /\ n + 1 - (c + 1) - L = n - c - L
    BY <1>4
  <2>4. n + 1 - 2 * L >= 1 => n + 1 - 2 * L \in 1 .. n - c - L
    BY <1>4, <2>1
  <2>5. n + 1 - 2 * L >= 1 => now - u[n + 1 - 2 * L] > Minute
    <3> SUFFICES ASSUME n + 1 - 2 * L >= 1 PROVE now - u[n + 1 - 2 * L] > Minute
      OBVIOUS
    <3>1. u[n + 1 - 2 * L] + 2 * Minute < r
      BY <1>7, <1>14, <2>4
    <3>2. u[n + 1 - 2 * L] \in Nat
      BY <1>4, <1>5, <2>4
    <3>3. QED
      BY <1>4, <1>7, <1>14, <3>1, <3>2
  <2>6. QED
    BY <1>4, <1>5, <1>7, <1>14, <2>1, <2>2, <2>3, <2>5
<1>15. QED
  BY <1>12, <1>13, <1>14

LEMMA CheckTypes ==
  ASSUME now \in Nat, NEW e \in Counter
  PROVE  CheckRate(e).entry \in Counter /\ (~CheckRate(e).ok => CheckRate(e).entry = e)
BY KeysAssumption DEF CheckRate, Counter

(* A call's check touches the counter and the calls of its own key only.     *)
LEMMA Checking ==
  ASSUME LimitInv, NEW p \in Procs, Authenticate(p)
  PROVE  LimitInv'
<1> DEFINE k == looked[p].id
           s == accepted[p][k]
           e == rateLimits[p][k]
<1>1. k \in Keys /\ looked' = [looked EXCEPT ![p] = NoRow] /\ UNCHANGED <<now, key>>
  BY DEF Authenticate, LimitInv
<1>2. looked' = [q \in Procs |-> looked'[q]]
      /\ \A q \in Procs : looked'[q] = NoRow \/ looked'[q].id \in Keys
  BY <1>1 DEF LimitInv
<1>3. s \in Seq(Nat) /\ e \in Counter /\ now \in Nat
  BY <1>1 DEF LimitInv
<1>4. (\A i \in 1 .. Len(s) : s[i] <= now) /\ Told(s, e) /\ Spread(s)
  BY <1>1 DEF LimitInv
<1>5. CASE UNCHANGED <<rateLimits, accepted>>
  BY <1>1, <1>2, <1>5 DEF LimitInv, Told
<1>6. ASSUME NEW u \in Seq(Nat), NEW f \in Counter,
             \A i \in 1 .. Len(u) : u[i] <= now, Told(u, f), Spread(u),
             rateLimits' = [rateLimits EXCEPT ![p][k] = f],
             accepted' = [accepted EXCEPT ![p][k] = u]
      PROVE  LimitInv'
  <2>1. rateLimits' \in [Procs -> [Keys -> Counter]] /\ accepted' \in [Procs -> [Keys -> Seq(Nat)]]
    BY <1>1, <1>6 DEF LimitInv
  <2>2. ASSUME NEW q \in Procs, NEW j \in Keys
        PROVE  \/ accepted'[q][j] = u /\ rateLimits'[q][j] = f
               \/ accepted'[q][j] = accepted[q][j] /\ rateLimits'[q][j] = rateLimits[q][j]
    BY <1>1, <1>6 DEF LimitInv
  <2>3. \A x, y : Told(x, y)' <=> Told(x, y)
    BY <1>1 DEF Told
  <2>4. QED
    BY <1>1, <1>2, <1>6, <2>1, <2>2, <2>3 DEF LimitInv, Told
<1>7. CASE ~UNCHANGED <<rateLimits, accepted>>
  <2>1. rateLimits' = [rateLimits EXCEPT ![p][k] = CheckRate(e).entry]
        /\ accepted' = IF CheckRate(e).ok THEN [accepted EXCEPT ![p][k] = Append(@, now)]
                       ELSE accepted
    BY <1>7 DEF Authenticate
  <2>2. CheckRate(e).entry \in Counter /\ (~CheckRate(e).ok => CheckRate(e).entry = e)
    BY <1>3, CheckTypes
  <2>3. CASE CheckRate(e).ok
    <3>1. accepted' = [accepted EXCEPT ![p][k] = Append(s, now)]
      BY <2>1, <2>3
    <3>2. Append(s, now) \in Seq(Nat)
      BY <1>3
    <3>3. QED
      BY <1>3, <1>4, <1>6, <2>1, <2>2, <2>3, <3>1, <3>2, Accepting
  <2>4. CASE ~CheckRate(e).ok
    <3>1. accepted' = [accepted EXCEPT ![p][k] = s] /\ rateLimits' = [rateLimits EXCEPT ![p][k] = e]
      BY <2>1, <2>2, <2>4 DEF LimitInv
    <3>2. QED
      BY <1>3, <1>4, <1>6, <3>1
  <2>5. QED
    BY <2>3, <2>4
<1>8. QED
  BY <1>5, <1>7

LEMMA LimitStep == LimitInv /\ [KeysNext]_keysVars => LimitInv'
<1> SUFFICES ASSUME LimitInv, [KeysNext]_keysVars PROVE LimitInv'
  OBVIOUS
<1>1. ASSUME UNCHANGED <<looked, rateLimits, accepted>>, now' \in {now, now + 1},
             DOMAIN key' \subseteq Keys
      PROVE  LimitInv'
  <2>1. \A p \in Procs, k \in Keys : Told(accepted[p][k], rateLimits[p][k])'
    <3> SUFFICES ASSUME NEW p \in Procs, NEW k \in Keys
                 PROVE  Told(accepted[p][k], rateLimits[p][k])'
      OBVIOUS
    <3>1. Told(accepted[p][k], rateLimits[p][k]) /\ rateLimits[p][k].resetAt \in Nat
      BY DEF LimitInv, Counter
    <3>2. QED
      BY <1>1, <3>1, KeysAssumption DEF LimitInv, Told
  <2>2. \A p \in Procs, k \in Keys : \A i \in 1 .. Len(accepted[p][k]) : accepted[p][k][i] <= now'
    BY <1>1 DEF LimitInv
  <2>3. QED
    BY <1>1, <2>1, <2>2 DEF LimitInv, Spread
<1>2. CASE Toggle \/ Create \/ Delete \/ SetActive \/ ToggleOrg \/ Clock \/ UNCHANGED keysVars
  <2>1. UNCHANGED <<looked, rateLimits, accepted>> /\ now' \in {now, now + 1}
    BY <1>2 DEF Toggle, Create, Delete, SetActive, ToggleOrg, Clock, keysVars
  <2>2. DOMAIN key' \subseteq Keys
    <3>1. DOMAIN key \subseteq Keys
      BY DEF LimitInv
    <3>2. CASE Create
      BY <3>1, <3>2 DEF Create
    <3>3. CASE Delete
      BY <3>1, <3>3 DEF Delete
    <3>4. CASE SetActive
      BY <3>1, <3>4 DEF SetActive
    <3>5. CASE Toggle \/ ToggleOrg \/ Clock \/ UNCHANGED keysVars
      BY <3>1, <3>5 DEF Toggle, ToggleOrg, Clock, keysVars
    <3>6. QED
      BY <1>2, <3>2, <3>3, <3>4, <3>5
  <2>3. QED
    BY <1>1, <2>1, <2>2
<1>3. ASSUME NEW p \in Procs, Lookup(p) PROVE LimitInv'
  <2>1. PICK k \in DOMAIN key : looked' = [looked EXCEPT ![p] =
            [id |-> k, active |-> TRUE, org |-> orgActive, expires |-> key[k].expires]]
    BY <1>3 DEF Lookup
  <2>2. UNCHANGED <<now, key, rateLimits, accepted>>
    BY <1>3 DEF Lookup
  <2>3. looked' = [q \in Procs |-> looked'[q]]
        /\ \A q \in Procs : looked'[q] = NoRow \/ looked'[q].id \in Keys
    BY <2>1 DEF LimitInv
  <2>4. QED
    BY <2>2, <2>3 DEF LimitInv, Told
<1>4. ASSUME NEW p \in Procs, Restart(p) PROVE LimitInv'
  <2>1. /\ rateLimits' = [rateLimits EXCEPT ![p] = [k \in Keys |-> NoEntry]]
        /\ accepted' = [accepted EXCEPT ![p] = [k \in Keys |-> <<>>]]
        /\ looked' = [looked EXCEPT ![p] = NoRow] /\ UNCHANGED <<now, key>>
    BY <1>4 DEF Restart
  <2>2. looked' = [q \in Procs |-> looked'[q]]
        /\ \A q \in Procs : looked'[q] = NoRow \/ looked'[q].id \in Keys
    BY <2>1 DEF LimitInv
  <2>3. NoEntry \in Counter /\ <<>> \in Seq(Nat)
    BY DEF NoEntry, Counter
  <2>4. rateLimits' \in [Procs -> [Keys -> Counter]] /\ accepted' \in [Procs -> [Keys -> Seq(Nat)]]
    BY <2>1, <2>3 DEF LimitInv
  <2>5. Told(<<>>, NoEntry) /\ Spread(<<>>)
    BY KeysAssumption DEF Told, Spread
  <2>6. ASSUME NEW q \in Procs, NEW k \in Keys
        PROVE  \/ accepted'[q][k] = <<>> /\ rateLimits'[q][k] = NoEntry
               \/ accepted'[q][k] = accepted[q][k] /\ rateLimits'[q][k] = rateLimits[q][k]
    BY <2>1 DEF LimitInv
  <2>7. QED
    BY <2>1, <2>2, <2>4, <2>5, <2>6 DEF LimitInv, Told
<1>5. QED
  BY <1>2, <1>3, <1>4, Checking DEF KeysNext

(* A process accepts at most twice the limit in a time as long as a window,  *)
(* whatever keys are made, switched and deleted and whenever it starts again.*)
THEOREM TwiceTheLimitHolds == KeysSpec => []TwiceTheLimit
<1>1. LimitInv => TwiceTheLimit
  BY DEF LimitInv, Spread, TwiceTheLimit
<1>2. QED
  BY <1>1, LimitInit, LimitStep, PTL DEF KeysSpec

-----------------------------------------------------------------------------
(* The form.                                                                 *)

Marked(K, t) == {a \in Access : <<t, a>> \in K}

(* The draft is determined by what is ticked.                                *)
DraftInv ==
  /\ ticked \subseteq Tables \X Access
  /\ draft = {Entry(t, Marked(ticked, t)) : t \in {u \in Tables : Marked(ticked, u) # {}}}

LEMMA EntryIs ==
  ASSUME NEW t, NEW S \in SUBSET Access
  PROVE  LET p == Entry(t, S) IN
         /\ p.table = t /\ "access" \notin DOMAIN p /\ Flags(p) = S
         /\ \A a \in Access : p[a] <=> a \in S
         /\ p.read \/ p.write <=> S # {}
<1> DEFINE p == Entry(t, S)
<1>1. p.table = t /\ DOMAIN p = {"table", "read", "write"}
  BY DEF Entry
<1>2. (p["read"] <=> "read" \in S) /\ (p["write"] <=> "write" \in S)
  BY DEF Entry
<1>3. \A a \in Access : p[a] <=> a \in S
  BY <1>2 DEF Access
<1>4. Flags(p) = S
  BY <1>3 DEF Flags
<1>5. p.read \/ p.write <=> S # {}
  <2>1. S # {} <=> "read" \in S \/ "write" \in S
    BY DEF Access
  <2>2. (p.read <=> "read" \in S) /\ (p.write <=> "write" \in S)
    BY DEF Entry
  <2>3. QED
    BY <2>1, <2>2
<1>6. "access" \notin DOMAIN p
  BY <1>1
<1>7. QED
  BY <1>1, <1>3, <1>4, <1>5, <1>6

(* A click changes the entry of its table only. *)
LEMMA Clicked ==
  ASSUME DraftInv, NEW t \in Tables, NEW a \in Access,
         NEW K, K = (ticked \ {<<t, a>>}) \union ({<<t, a>>} \ ticked)
  PROVE  /\ K \subseteq Tables \X Access
         /\ ToggleTablePerm(t, a) = {Entry(u, Marked(K, u)) : u \in {v \in Tables : Marked(K, v) # {}}}
<1> DEFINE old == {p \in draft : p.table = t}
           flags == UNION {Flags(p) : p \in old}
           T == (flags \ {a}) \union ({a} \ flags)
           new == Entry(t, T)
           M(u) == Marked(ticked, u)
<1>1. \A u \in Tables : M(u) \in SUBSET Access /\ Entry(u, M(u)).table = u /\ Flags(Entry(u, M(u))) = M(u)
  BY EntryIs DEF Marked
<1>2. draft = {Entry(u, M(u)) : u \in {v \in Tables : M(v) # {}}}
  BY DEF DraftInv
<1>3. old = IF M(t) = {} THEN {} ELSE {Entry(t, M(t))}
  <2> HIDE DEF M
  <2>1. QED
    BY <1>1, <1>2
<1>4. flags = M(t)
  <2> HIDE DEF M, old
  <2>1. CASE M(t) = {}
    BY <1>3, <2>1
  <2>2. CASE M(t) # {}
    BY <1>1, <1>3, <2>2
  <2>3. QED
    BY <2>1, <2>2
<1>5. T = Marked(K, t)
  <2>1. ASSUME NEW b \in Access PROVE b \in T <=> <<t, b>> \in K
    BY <1>4 DEF Marked
  <2>2. T \subseteq Access
    BY <1>1, <1>4
  <2>3. QED
    BY <2>1, <2>2 DEF Marked
<1>6. ASSUME NEW u, u # t PROVE Marked(K, u) = M(u)
  BY <1>6 DEF Marked
<1>7. K \subseteq Tables \X Access
  BY DEF DraftInv
<1>8. ToggleTablePerm(t, a) = (draft \ old) \union {p \in {new} : p.read \/ p.write}
  BY DEF ToggleTablePerm
<1>9. {p \in {new} : p.read \/ p.write} = IF T = {} THEN {} ELSE {new}
  <2>1. T \in SUBSET Access
    BY <1>5 DEF Marked
  <2>2. new.read \/ new.write <=> T # {}
    BY <2>1, EntryIs
  <2> HIDE DEF new, T
  <2>3. QED
    BY <2>2
<1>10. draft \ old = {Entry(u, M(u)) : u \in {v \in Tables \ {t} : M(v) # {}}}
  <2> HIDE DEF M
  <2>1. QED
    BY <1>1, <1>2
<1>11. new = Entry(t, Marked(K, t))
  BY <1>5
<1> DEFINE N(u) == Marked(K, u)
<1>12. {Entry(u, N(u)) : u \in {v \in Tables : N(v) # {}}} =
         {Entry(u, M(u)) : u \in {v \in Tables \ {t} : M(v) # {}}} \union
         (IF N(t) = {} THEN {} ELSE {Entry(t, N(t))})
  <2>1. \A u : u # t => N(u) = M(u)
    BY <1>6
  <2> HIDE DEF N, M
  <2>2. QED
    BY <2>1
<1>13. QED
  BY <1>5, <1>7, <1>8, <1>9, <1>10, <1>11, <1>12

LEMMA FormGrantsIs == ASSUME DraftInv PROVE FormGrants
<1>1. ASSUME NEW t \in Tables, NEW a \in Access
      PROVE  KeyHasAccess(draft, t, a) <=> ticked = {} \/ <<t, a>> \in ticked
  <2> DEFINE M(u) == Marked(ticked, u)
             E(u) == Entry(u, M(u))
  <2>1. draft = {E(u) : u \in {v \in Tables : M(v) # {}}} /\ ticked \subseteq Tables \X Access
    BY DEF DraftInv
  <2>2. ASSUME NEW u
        PROVE  E(u).table = u /\ "access" \notin DOMAIN E(u) /\ (E(u)[a] <=> a \in M(u))
    BY EntryIs DEF Marked
  <2>3. draft = {} <=> ticked = {}
    <3>1. ASSUME ticked # {} PROVE draft # {}
      <4>1. PICK u \in Tables, b \in Access : <<u, b>> \in ticked
        BY <2>1, <3>1
      <4>2. b \in M(u)
        BY <4>1 DEF Marked
      <4> HIDE DEF M, E
      <4>3. QED
        BY <2>1, <4>2
    <3>2. ASSUME ticked = {} PROVE draft = {}
      <4>1. \A u : M(u) = {}
        BY <3>2 DEF Marked
      <4> HIDE DEF M, E
      <4>2. QED
        BY <2>1, <4>1
    <3>3. QED
      BY <3>1, <3>2
  <2>4. <<t, a>> \in ticked <=> a \in M(t)
    BY DEF Marked
  <2>5. \A u \in Tables : u # "*"
    BY KeysAssumption
  <2> HIDE DEF M, E
  <2>6. ASSUME NEW p \in draft, p.table \in {"*", t}
        PROVE  p = E(t) /\ M(t) # {}
    <3>1. PICK u \in Tables : p = E(u) /\ M(u) # {}
      BY <2>1
    <3>2. u = t
      BY <2>2, <2>5, <2>6, <3>1
    <3>3. QED
      BY <3>1, <3>2
  <2>7. (\E p \in draft : /\ p.table \in {"*", t}
                          /\ IF "access" \in DOMAIN p THEN p.access \in {"*", a} ELSE p[a])
          <=> a \in M(t)
    <3>1. ASSUME a \in M(t)
          PROVE  \E p \in draft : /\ p.table \in {"*", t}
                                  /\ IF "access" \in DOMAIN p THEN p.access \in {"*", a} ELSE p[a]
      <4>1. E(t) \in draft
        BY <2>1, <3>1
      <4>2. E(t).table = t /\ "access" \notin DOMAIN E(t) /\ E(t)[a]
        BY <2>2, <3>1
      <4>3. QED
        BY <4>1, <4>2
    <3>2. ASSUME NEW p \in draft, p.table \in {"*", t},
                 IF "access" \in DOMAIN p THEN p.access \in {"*", a} ELSE p[a]
          PROVE  a \in M(t)
      <4>1. p = E(t)
        BY <2>6, <3>2
      <4>2. "access" \notin DOMAIN E(t) /\ (E(t)[a] <=> a \in M(t))
        BY <2>2
      <4>3. QED
        BY <3>2, <4>1, <4>2
    <3>3. QED
      BY <3>1, <3>2
  <2>8. QED
    BY <2>3, <2>4, <2>7 DEF KeyHasAccess
<1>2. QED
  BY <1>1 DEF FormGrants

LEMMA DraftHolds == KeysSpec => []DraftInv
<1>1. KeysInit => DraftInv
  BY DEF KeysInit, DraftInv, Marked
<1>2. ASSUME DraftInv, [KeysNext]_keysVars PROVE DraftInv'
  <2>1. CASE Toggle
    <3>1. PICK t \in Tables, a \in Access :
            /\ draft' = ToggleTablePerm(t, a)
            /\ ticked' = (ticked \ {<<t, a>>}) \union ({<<t, a>>} \ ticked)
      BY <2>1 DEF Toggle
    <3>2. QED
      BY <1>2, <3>1, Clicked DEF DraftInv
  <2>2. CASE draft' = draft /\ ticked' = ticked
    BY <1>2, <2>2 DEF DraftInv
  <2>3. CASE Create \/ Delete \/ SetActive \/ ToggleOrg \/ Clock \/ UNCHANGED keysVars
    BY <2>2, <2>3 DEF Create, Delete, SetActive, ToggleOrg, Clock, keysVars
  <2>4. ASSUME NEW p \in Procs, Lookup(p) \/ Authenticate(p) \/ Restart(p) PROVE DraftInv'
    BY <2>2, <2>4 DEF Lookup, Authenticate, Restart
  <2>5. QED
    BY <1>2, <2>1, <2>3, <2>4 DEF KeysNext
<1>3. QED
  BY <1>1, <1>2, PTL DEF KeysSpec

(* A key passes no more calls than twice the limit and opens exactly the     *)
(* tables, for reading or for writing, that the form had ticked, or all if   *)
(* none was.                                                                 *)
THEOREM KeysHoldAlways == KeysSpec => []KeysHold
<1>1. KeysSpec => []TwiceTheLimit
  BY TwiceTheLimitHolds
<1>2. DraftInv /\ TwiceTheLimit => KeysHold
  BY FormGrantsIs DEF KeysHold
<1>3. QED
  BY <1>1, <1>2, DraftHolds, PTL

(***************************************************************************)
(* Channel tokens.                                                         *)
(***************************************************************************)

(* What a call to enable or disable a token may still have to send.          *)
Left(active) ==
  IF active THEN {<<"createClient", "deleteRole", "createRole", "addClientRole">>,
                  <<"deleteRole", "createRole", "addClientRole">>,
                  <<"createRole", "addClientRole">>, <<"addClientRole">>, <<>>}
  ELSE {<<"deleteClient">>, <<>>}

Pcs == {"free", "delete", "hash", "call", "wait"}
Request == [pc : Pcs, token : Tokens, active : BOOLEAN, perms : SUBSET Both]
Row == [there : BOOLEAN, active : BOOLEAN, granted : SUBSET Both]
Job == [todo : Left(TRUE) \union Left(FALSE), token : Tokens, perms : SUBSET Both, for : SUBSET Web]
TokenRoles == {NoRole} \union SUBSET Both

TypeInv ==
  /\ row \in [Tokens -> Row] /\ asks \in [Web -> Request] /\ job \in [Replicas -> Job]
  /\ role \in [Tokens -> TokenRoles] /\ lost \in Nat
  /\ \A t \in Tokens : row[t].active => row[t].there

(* A job carries out one request, which waits for it. *)
JobInv ==
  /\ \A r \in Replicas : job[r] = NoJob \/ \E w \in Web :
       /\ job[r].for = {w} /\ asks[w].pc = "wait" /\ asks[w].token = job[r].token
       /\ asks[w].perms = job[r].perms /\ job[r].todo \in Left(asks[w].active)
  /\ \A r, s \in Replicas : r # s => job[r].for \intersect job[s].for = {}

(* The requests of a token that is not contested have one end, and from its  *)
(* statement on so has the row.                                              *)
Agreed(t) ==
  /\ \A v, w \in Web : asks[v].pc # "free" /\ asks[w].pc # "free" /\ asks[v].token = t
                       /\ asks[w].token = t => asks[v].active = asks[w].active
  /\ \A w \in Web : asks[w].token = t =>
       /\ asks[w].pc = "delete" => ~asks[w].active
       /\ asks[w].pc \in {"hash", "call", "wait"} => asks[w].active = row[t].active
       /\ asks[w].pc \in {"hash", "call", "wait"} /\ row[t].active =>
            asks[w].perms \in {{}, row[t].granted}

(* Somebody will still send the last n commands of a call for the token. *)
Ahead(t, n) ==
  \/ \E w \in Web : asks[w].token = t /\ (asks[w].pc = "call" \/ (asks[w].pc = "hash" /\ row[t].there))
  \/ \E r \in Replicas : job[r].token = t /\ Len(job[r].todo) >= n

(* Until the commands that are missing have been sent, somebody has them     *)
(* ahead; a role never allows less than was granted.                         *)
Follows(t) ==
  /\ row[t].there => role[t] = NoRole \/ Acl(row[t].granted) \subseteq role[t]
  /\ ~row[t].active => (t \in client => Ahead(t, 1))
  /\ row[t].active =>
       /\ t \in client \/ Ahead(t, 4)
       /\ role[t] # NoRole \/ Ahead(t, 2)
       /\ t \in member \/ Ahead(t, 1)
       /\ \A r \in Replicas : job[r].token = t /\ Len(job[r].todo) \in 1 .. 3 => t \in client

TokenInv ==
  /\ TypeInv /\ JobInv
  /\ \A t \in Tokens \ contested : Agreed(t) /\ (lost = 0 => Follows(t))

-----------------------------------------------------------------------------
(* The commands that are left are told from each other by their number. *)
NextIs(a, s) ==
  /\ Tail(s) \in Left(a) /\ Len(s) \in 1 .. 4 /\ Len(Tail(s)) = Len(s) - 1
  /\ a /\ Len(s) = 4 => Head(s) = "createClient"
  /\ a /\ Len(s) = 3 => Head(s) = "deleteRole"
  /\ a /\ Len(s) = 2 => Head(s) = "createRole"
  /\ a /\ Len(s) = 1 => Head(s) = "addClientRole"
  /\ ~a => Head(s) = "deleteClient" /\ Len(s) = 1

LEMMA TokenDrops ==
  ASSUME NEW a \in BOOLEAN, NEW s \in Left(a), s # <<>>
  PROVE  NextIs(a, s)
<1> DEFINE s4 == <<"createClient", "deleteRole", "createRole", "addClientRole">>
           s3 == <<"deleteRole", "createRole", "addClientRole">>
           s2 == <<"createRole", "addClientRole">>
           s1 == <<"addClientRole">>
           d1 == <<"deleteClient">>
<1>1. s4 # <<>> /\ Len(s4) = 4 /\ Tail(s4) = s3 /\ Head(s4) = "createClient"
  OBVIOUS
<1>2. Len(s3) = 3 /\ Tail(s3) = s2 /\ Head(s3) = "deleteRole"
  OBVIOUS
<1>3. Len(s2) = 2 /\ Tail(s2) = s1 /\ Head(s2) = "createRole"
  OBVIOUS
<1>4. Len(s1) = 1 /\ Tail(s1) = <<>> /\ Head(s1) = "addClientRole"
  OBVIOUS
<1>5. Len(d1) = 1 /\ Tail(d1) = <<>> /\ Head(d1) = "deleteClient"
  OBVIOUS
<1>6. Len(<<>>) = 0
  OBVIOUS
<1>7. Left(a) = IF a THEN {s4, s3, s2, s1, <<>>} ELSE {d1, <<>>}
  BY DEF Left
<1> HIDE DEF s4, s3, s2, s1, d1
<1>8. CASE a
  <2>1. s3 \in Left(a) /\ s2 \in Left(a) /\ s1 \in Left(a) /\ <<>> \in Left(a)
    BY <1>7, <1>8
  <2>2. CASE s = s4
    <3>1. Len(s) = 4 /\ Len(Tail(s)) = 3 /\ Tail(s) \in Left(a) /\ Head(s) = "createClient"
      BY <1>1, <1>2, <2>1, <2>2
    <3>2. 4 \in 1 .. 4 /\ 3 = 4 - 1 /\ 4 # 1 /\ 4 # 2 /\ 4 # 3
      OBVIOUS
    <3>3. QED
      BY <1>8, <3>1, <3>2, Zenon DEF NextIs
  <2>3. CASE s = s3
    <3>1. Len(s) = 3 /\ Len(Tail(s)) = 2 /\ Tail(s) \in Left(a) /\ Head(s) = "deleteRole"
      BY <1>2, <1>3, <2>1, <2>3
    <3>2. 3 \in 1 .. 4 /\ 2 = 3 - 1 /\ 3 # 1 /\ 3 # 2 /\ 3 # 4
      OBVIOUS
    <3>3. QED
      BY <1>8, <3>1, <3>2, Zenon DEF NextIs
  <2>4. CASE s = s2
    <3>1. Len(s) = 2 /\ Len(Tail(s)) = 1 /\ Tail(s) \in Left(a) /\ Head(s) = "createRole"
      BY <1>3, <1>4, <2>1, <2>4
    <3>2. 2 \in 1 .. 4 /\ 1 = 2 - 1 /\ 2 # 1 /\ 2 # 3 /\ 2 # 4
      OBVIOUS
    <3>3. QED
      BY <1>8, <3>1, <3>2, Zenon DEF NextIs
  <2>5. CASE s = s1
    <3>1. Len(s) = 1 /\ Len(Tail(s)) = 0 /\ Tail(s) \in Left(a) /\ Head(s) = "addClientRole"
      BY <1>4, <1>6, <2>1, <2>5
    <3>2. 1 \in 1 .. 4 /\ 0 = 1 - 1 /\ 1 # 2 /\ 1 # 3 /\ 1 # 4
      OBVIOUS
    <3>3. QED
      BY <1>8, <3>1, <3>2, Zenon DEF NextIs
  <2>6. QED
    BY <1>7, <1>8, <2>2, <2>3, <2>4, <2>5
<1>9. CASE ~a
  <2>1. s = d1 /\ <<>> \in Left(a)
    BY <1>7, <1>9
  <2>2. Len(s) = 1 /\ Len(Tail(s)) = 0 /\ Tail(s) \in Left(a) /\ Head(s) = "deleteClient"
    BY <1>5, <1>6, <2>1
  <2>3. QED
    BY <1>9, <2>2 DEF NextIs
<1>10. QED
  BY <1>8, <1>9

LEMMA Lefts ==
  ASSUME NEW a \in BOOLEAN
  PROVE  /\ Commands(a) \in Left(a)
         /\ Len(Commands(a)) = (IF a THEN 4 ELSE 1)
<1>1. Commands(a) \in Left(a)
  BY Zenon DEF Left, Commands
<1>2. Len(Commands(a)) = (IF a THEN 4 ELSE 1)
  <2>1. CASE a
    BY <2>1 DEF Commands
  <2>2. CASE ~a
    BY <2>2 DEF Commands
  <2>3. QED
    BY <2>1, <2>2
<1>3. QED
  BY <1>1, <1>2

LEMMA FreeIs ==
  ASSUME TokensAssumption
  PROVE  /\ Free \in Request /\ Free.pc = "free"
         /\ NoJob \in Job /\ NoJob.for = {} /\ NoJob.todo = <<>>
<1>1. (CHOOSE t \in Tokens : TRUE) \in Tokens
  BY DEF TokensAssumption
<1>2. QED
  BY <1>1 DEF Free, Request, Pcs, NoJob, Job, Left

LEMMA TokenStarts == ASSUME TokensAssumption, TokensInit PROVE TokenInv
<1>1. TypeInv
  <2>1. Absent \in Row /\ ~Absent.active
    BY DEF Absent, Row
  <2>2. QED
    BY <2>1, FreeIs DEF TokensInit, TypeInv, TokenRoles
<1>2. JobInv
  BY FreeIs DEF TokensInit, JobInv
<1>3. ASSUME NEW t \in Tokens PROVE Agreed(t) /\ Follows(t)
  <2>1. \A w \in Web : asks[w].pc = "free"
    BY FreeIs DEF TokensInit
  <2>2. ~row[t].active /\ ~row[t].there /\ t \notin client
    BY DEF TokensInit, Absent
  <2>3. QED
    BY <2>1, <2>2 DEF Agreed, Follows
<1>4. QED
  BY <1>1, <1>2, <1>3 DEF TokenInv

(* A job has a request that waits for it, of the same token. *)
LEMMA JobOf ==
  ASSUME TokensAssumption, TypeInv, JobInv, NEW r \in Replicas, job[r] # NoJob \/ job[r].todo # <<>>
  PROVE  \E w \in Web : /\ job[r].for = {w} /\ asks[w].pc = "wait" /\ asks[w].token = job[r].token
                        /\ asks[w].perms = job[r].perms /\ asks[w].active \in BOOLEAN
                        /\ job[r].todo \in Left(asks[w].active)
<1>1. job[r] # NoJob
  BY FreeIs
<1>2. PICK w \in Web : /\ job[r].for = {w} /\ asks[w].pc = "wait" /\ asks[w].token = job[r].token
                       /\ asks[w].perms = job[r].perms /\ job[r].todo \in Left(asks[w].active)
  BY <1>1 DEF JobInv
<1>3. asks[w].active \in BOOLEAN
  BY DEF TypeInv, Request
<1>4. QED
  BY <1>2, <1>3

-----------------------------------------------------------------------------
(* A token that a step leaves alone. *)

SameReq(u, q, p) == q = p \/ ((q.token # u \/ q.pc = "free") /\ (p.token # u \/ p.pc = "free"))
SameJob(u, j, k) == j = k \/ ((j.token # u \/ j.todo = <<>>) /\ (k.token # u \/ k.todo = <<>>))

LeftAlone(u) ==
  /\ row'[u] = row[u] /\ role'[u] = role[u]
  /\ u \in client' <=> u \in client
  /\ u \in member' <=> u \in member
  /\ \A w \in Web : SameReq(u, asks[w], asks'[w])
  /\ \A r \in Replicas : SameJob(u, job[r], job'[r])

LEMMA AgreedStays ==
  ASSUME NEW u \in Tokens, Agreed(u), row'[u] = row[u],
         \A w \in Web : SameReq(u, asks[w], asks'[w])
  PROVE  Agreed(u)'
BY DEF Agreed, SameReq

LEMMA AheadStays ==
  ASSUME TypeInv, NEW u \in Tokens, NEW n \in Nat, n >= 1, row'[u].there = row[u].there,
         \A w \in Web : SameReq(u, asks[w], asks'[w]),
         \A r \in Replicas : SameJob(u, job[r], job'[r]), Ahead(u, n)
  PROVE  Ahead(u, n)'
<1>1. CASE \E w \in Web : asks[w].token = u /\ (asks[w].pc = "call" \/ (asks[w].pc = "hash" /\ row[u].there))
  BY <1>1 DEF Ahead, SameReq
<1>2. ASSUME NEW r \in Replicas, job[r].token = u, Len(job[r].todo) >= n PROVE Ahead(u, n)'
  <2>1. job[r].todo # <<>>
    BY <1>2
  <2>2. job'[r] = job[r]
    BY <1>2, <2>1 DEF SameJob
  <2>3. QED
    BY <1>2, <2>2 DEF Ahead
<1>3. QED
  BY <1>1, <1>2 DEF Ahead

LEMMA FollowsStays ==
  ASSUME TypeInv, NEW u \in Tokens, Follows(u), LeftAlone(u)
  PROVE  Follows(u)'
<1>1. ASSUME NEW n \in {1, 2, 4}, Ahead(u, n) PROVE Ahead(u, n)'
  <2>1. n \in Nat /\ n >= 1
    OBVIOUS
  <2>2. QED
    BY <1>1, <2>1, AheadStays DEF LeftAlone
<1>2. ASSUME NEW r \in Replicas, job'[r].token = u, Len(job'[r].todo) \in 1 .. 3, row[u].active
      PROVE  u \in client
  <2>1. job'[r].todo # <<>>
    <3>1. Len(<<>>) \notin 1 .. 3
      OBVIOUS
    <3>2. QED
      BY <1>2, <3>1, Zenon
  <2>2. job'[r] = job[r]
    BY <1>2, <2>1 DEF LeftAlone, SameJob
  <2>3. QED
    BY <1>2, <2>2 DEF Follows
<1>3. QED
  BY <1>1, <1>2 DEF Follows, LeftAlone

(* What is left to show of a step on token t. *)
LEMMA OneToken ==
  ASSUME TokenInv, TypeInv', JobInv', NEW t \in Tokens, contested \subseteq contested',
         lost' = 0 => lost = 0,
         \A u \in Tokens \ {t} : LeftAlone(u),
         t \notin contested' => Agreed(t)' /\ (lost' = 0 => Follows(t)')
  PROVE  TokenInv'
<1>1. ASSUME NEW u \in Tokens \ contested' PROVE Agreed(u)' /\ (lost' = 0 => Follows(u)')
  <2>1. CASE u = t
    BY <1>1, <2>1
  <2>2. CASE u # t
    <3>1. LeftAlone(u) /\ Agreed(u) /\ (lost = 0 => Follows(u))
      BY <1>1, <2>2 DEF TokenInv
    <3>2. QED
      BY <3>1, AgreedStays, FollowsStays DEF TokenInv, LeftAlone
  <2>3. QED
    BY <2>1, <2>2
<1>2. QED
  BY <1>1 DEF TokenInv

-----------------------------------------------------------------------------
(* Steps of the web tier: one request goes on, and the row of its token may  *)
(* change.                                                                   *)

WebGoes(w, q, t, d) ==
  /\ asks[w].pc # "wait" /\ q \in Request /\ q.pc # "wait"
  /\ q.pc = "free" \/ q.token = t
  /\ asks[w].pc = "free" \/ asks[w].token = t
  /\ asks' = [asks EXCEPT ![w] = q]
  /\ d \in Row /\ (d.active => d.there) /\ row' = [row EXCEPT ![t] = d]
  /\ UNCHANGED <<job, client, role, member>>

LEMMA WebIs ==
  ASSUME TypeInv, NEW w \in Web, NEW t \in Tokens, NEW q, NEW d, WebGoes(w, q, t, d)
  PROVE  /\ \A v \in Web : asks'[v] = IF v = w THEN q ELSE asks[v]
         /\ \A u \in Tokens : row'[u] = IF u = t THEN d ELSE row[u]
BY DEF TypeInv, WebGoes

LEMMA WebStep ==
  ASSUME TokenInv, NEW w \in Web, NEW t \in Tokens, NEW q, NEW d, WebGoes(w, q, t, d),
         contested \subseteq contested', lost' \in Nat, lost' = 0 => lost = 0,
         t \notin contested' => Agreed(t)' /\ (lost' = 0 => Follows(t)')
  PROVE  TokenInv'
<1>1. /\ \A v \in Web : asks'[v] = IF v = w THEN q ELSE asks[v]
      /\ \A u \in Tokens : row'[u] = IF u = t THEN d ELSE row[u]
  BY WebIs DEF TokenInv
<1>2. TypeInv'
  BY <1>1 DEF TokenInv, TypeInv, WebGoes
<1>3. JobInv'
  <2>1. \A v \in Web : asks[v].pc = "wait" => asks'[v] = asks[v]
    BY <1>1 DEF WebGoes
  <2>2. job' = job /\ NoJob' = NoJob
    BY DEF WebGoes
  <2>3. JobInv
    BY DEF TokenInv
  <2>4. QED
    BY <2>1, <2>2, <2>3 DEF JobInv
<1>4. ASSUME NEW u \in Tokens \ {t} PROVE LeftAlone(u)
  <2>1. \A v \in Web : SameReq(u, asks[v], asks'[v])
    BY <1>1 DEF WebGoes, SameReq
  <2>2. \A r \in Replicas : SameJob(u, job[r], job'[r])
    BY DEF WebGoes, SameJob
  <2>3. QED
    BY <1>1, <2>1, <2>2 DEF WebGoes, LeftAlone
<1>5. QED
  BY <1>2, <1>3, <1>4, OneToken

(* What was ahead of the token stays ahead unless the request that goes on   *)
(* was all of it.                                                            *)
LEMMA AheadGoesOn ==
  ASSUME TypeInv, NEW w \in Web, NEW t \in Tokens, NEW q, NEW d, WebGoes(w, q, t, d),
         NEW n, Ahead(t, n), d.there = row[t].there,
         asks[w].pc = "call" => q.pc = "call",
         asks[w].pc = "hash" /\ row[t].there => q.pc \in {"hash", "call"}
  PROVE  Ahead(t, n)'
<1>1. /\ \A v \in Web : asks'[v] = IF v = w THEN q ELSE asks[v]
      /\ row'[t] = d /\ job' = job
  <2>1. job' = job
    BY DEF WebGoes
  <2>2. QED
    BY <2>1, WebIs
<1>2. ASSUME NEW v \in Web, asks[v].token = t, asks[v].pc = "call" \/ (asks[v].pc = "hash" /\ row[t].there)
      PROVE  asks'[v].token = t /\ (asks'[v].pc = "call" \/ (asks'[v].pc = "hash" /\ row'[t].there))
  <2>1. CASE v = w
    <3>1. q.pc \in {"hash", "call"}
      BY <1>2, <2>1
    <3>2. q.token = t
      BY <3>1 DEF WebGoes
    <3>3. QED
      BY <1>1, <1>2, <2>1, <3>2
  <2>2. CASE v # w
    BY <1>1, <1>2, <2>2
  <2>3. QED
    BY <2>1, <2>2
<1>3. QED
  BY <1>1, <1>2 DEF Ahead

LEMMA AheadIs ==
  ASSUME NEW w \in Web, NEW t \in Tokens, asks[w].token = t,
         asks[w].pc = "call" \/ (asks[w].pc = "hash" /\ row[t].there)
  PROVE  \A n : Ahead(t, n)
BY DEF Ahead

(* A job for a token is the work of a request that has not been answered.    *)
LEMMA JobInFlight ==
  ASSUME TokensAssumption, TypeInv, JobInv, NEW r \in Replicas, NEW t \in Tokens,
         job[r].token = t, Len(job[r].todo) \in 1 .. 3
  PROVE  \E w \in Web : asks[w].token = t /\ asks[w].pc = "wait"
<1>1. Len(<<>>) \notin 1 .. 3
  OBVIOUS
<1>2. job[r].todo # <<>>
  BY <1>1, Zenon
<1>3. QED
  BY <1>2, JobOf

LEMMA TokenCreate ==
  ASSUME TokensAssumption, TokenInv, NEW w \in Web, CreateToken(w)
  PROVE  TokenInv'
<1>1. PICK t \in Tokens, g \in Grants :
        /\ row[t] = Absent /\ \A v \in Web : asks[v].pc # "free" => asks[v].token # t
        /\ t \notin client \union member /\ role[t] = NoRole
        /\ Arrives(w, t, "call", TRUE, g)
        /\ row' = [row EXCEPT ![t] = [there |-> TRUE, active |-> TRUE, granted |-> g]]
  BY DEF CreateToken
<1> DEFINE q == [pc |-> "call", token |-> t, active |-> TRUE, perms |-> g]
           d == [there |-> TRUE, active |-> TRUE, granted |-> g]
<1>2. q \in Request /\ q.pc = "call" /\ q.token = t /\ q.active = TRUE /\ q.perms = g
  BY DEF TokensAssumption, Request, Pcs
<1>3. d \in Row /\ d.active /\ d.there /\ d.granted = g
  BY DEF TokensAssumption, Row
<1>4. row' = [row EXCEPT ![t] = d] /\ asks' = [asks EXCEPT ![w] = q] /\ asks[w].pc = "free"
      /\ UNCHANGED <<job, client, role, member, lost>> /\ contested \subseteq contested'
  BY <1>1 DEF Arrives, Goes, Broker
<1> HIDE DEF q, d
<1>5. WebGoes(w, q, t, d)
  BY <1>2, <1>3, <1>4 DEF WebGoes
<1>6. /\ \A v \in Web : asks'[v] = IF v = w THEN q ELSE asks[v]
      /\ row'[t] = d
  BY <1>5, WebIs DEF TokenInv
<1>7. Agreed(t)'
  BY <1>1, <1>2, <1>3, <1>6 DEF Agreed
<1>8. Follows(t)'
  <2>1. \A n : Ahead(t, n)'
    BY <1>2, <1>6 DEF Ahead
  <2>2. \A r \in Replicas : ~(job'[r].token = t /\ Len(job'[r].todo) \in 1 .. 3)
    BY <1>1, <1>4, JobInFlight DEF TokenInv
  <2>3. role'[t] = NoRole
    BY <1>1, <1>4
  <2>4. QED
    BY <1>3, <1>6, <2>1, <2>2, <2>3 DEF Follows
<1>9. QED
  BY <1>4, <1>5, <1>7, <1>8, WebStep DEF TokenInv, TypeInv

LEMMA TokenDelete ==
  ASSUME TokensAssumption, TokenInv, NEW w \in Web, DeleteToken(w)
  PROVE  TokenInv'
<1>1. PICK t \in Tokens : row[t].there /\ Arrives(w, t, "delete", FALSE, {}) /\ UNCHANGED row
  BY DEF DeleteToken
<1> DEFINE q == [pc |-> "delete", token |-> t, active |-> FALSE, perms |-> {}]
           d == row[t]
<1>2. q \in Request /\ q.pc = "delete" /\ q.token = t /\ q.active = FALSE
  BY DEF Request, Pcs
<1>3. d \in Row /\ (d.active => d.there) /\ row' = [row EXCEPT ![t] = d] /\ d = row[t]
  BY <1>1 DEF TokenInv, TypeInv
<1>4. asks' = [asks EXCEPT ![w] = q] /\ asks[w].pc = "free"
      /\ UNCHANGED <<job, client, role, member, lost>> /\ contested \subseteq contested'
  BY <1>1 DEF Arrives, Goes, Broker
<1> HIDE DEF q, d
<1>5. WebGoes(w, q, t, d)
  BY <1>2, <1>3, <1>4 DEF WebGoes
<1>6. (\A v \in Web : asks'[v] = IF v = w THEN q ELSE asks[v]) /\ row'[t] = row[t]
  BY <1>3, <1>5, WebIs DEF TokenInv
<1>7. ASSUME t \notin contested' PROVE Agreed(t)' /\ (lost' = 0 => Follows(t)')
  <2>1. /\ t \notin contested
        /\ \A v \in Web : asks[v].pc # "free" /\ asks[v].token = t => asks[v].active = FALSE
    BY <1>1, <1>7 DEF Arrives
  <2>2. Agreed(t) /\ (lost = 0 => Follows(t))
    BY <2>1 DEF TokenInv
  <2>3. Agreed(t)'
    BY <1>2, <1>6, <2>1, <2>2 DEF Agreed
  <2>4. ASSUME Follows(t) PROVE Follows(t)'
    <3>1. ASSUME NEW n, Ahead(t, n) PROVE Ahead(t, n)'
      BY <1>3, <1>4, <1>5, <3>1, AheadGoesOn DEF TokenInv
    <3>2. QED
      BY <1>4, <1>6, <2>4, <3>1 DEF Follows
  <2>5. QED
    BY <1>4, <2>2, <2>3, <2>4
<1>8. QED
  BY <1>4, <1>5, <1>7, WebStep DEF TokenInv, TypeInv

LEMMA TokenDeleteRow ==
  ASSUME TokensAssumption, TokenInv, NEW w \in Web, DeleteTokenRow(w)
  PROVE  TokenInv'
<1> DEFINE t == asks[w].token
           q == [asks[w] EXCEPT !.pc = "call", !.perms = {}]
<1>1. PICK u \in Tokens : u = asks[w].token
  BY DEF TokenInv, TypeInv, Request
<1>2. q \in Request /\ q.pc = "call" /\ q.token = u /\ q.active = asks[w].active
  BY <1>1 DEF TokenInv, TypeInv, Request, Pcs
<1>3. Absent \in Row /\ Absent.active = FALSE /\ ~Absent.there
  BY DEF Absent, Row
<1>4. row' = [row EXCEPT ![u] = Absent] /\ asks' = [asks EXCEPT ![w] = q] /\ asks[w].pc = "delete"
      /\ UNCHANGED <<job, client, role, member, lost, contested>>
  BY <1>1 DEF DeleteTokenRow, Goes, Calls, Broker
<1> HIDE DEF q, t
<1>5. WebGoes(w, q, u, Absent)
  BY <1>1, <1>2, <1>3, <1>4 DEF WebGoes
<1>6. (\A v \in Web : asks'[v] = IF v = w THEN q ELSE asks[v]) /\ row'[u] = Absent
  BY <1>5, WebIs DEF TokenInv
<1>7. ASSUME u \notin contested' PROVE Agreed(u)' /\ Follows(u)'
  <2>1. Agreed(u)
    BY <1>4, <1>7 DEF TokenInv
  <2>2. ~asks[w].active /\ \A v \in Web : asks[v].token = u /\ asks[v].pc # "free" => ~asks[v].active
    BY <1>1, <1>4, <2>1 DEF Agreed, TokenInv, TypeInv, Request
  <2>3. \A v \in Web : asks'[v].active \in BOOLEAN
    BY <1>2, <1>6 DEF TokenInv, TypeInv, Request
  <2>4. \A v \in Web : asks'[v].token = u /\ asks'[v].pc # "free" => ~asks'[v].active
    BY <1>2, <1>6, <2>2
  <2>5. Agreed(u)'
    <3>1. \A v \in Web : asks'[v].token = u /\ asks'[v].pc # "free" => asks'[v].active = FALSE
      BY <2>3, <2>4
    <3>2. row'[u].active = FALSE
      BY <1>3, <1>6
    <3>3. QED
      BY <3>1, <3>2 DEF Agreed
  <2>6. \A n : Ahead(u, n)'
    BY <1>2, <1>6 DEF Ahead
  <2>7. QED
    BY <1>3, <1>6, <2>5, <2>6 DEF Follows
<1>8. QED
  BY <1>4, <1>5, <1>7, WebStep DEF TokenInv, TypeInv

LEMMA TokenSwitch ==
  ASSUME TokensAssumption, TokenInv, NEW w \in Web, Switch(w)
  PROVE  TokenInv'
<1>1. PICK t \in Tokens, active \in BOOLEAN :
        /\ row[t].there /\ Arrives(w, t, "hash", active, {})
        /\ row' = [row EXCEPT ![t].active = active]
  BY DEF Switch
<1> DEFINE q == [pc |-> "hash", token |-> t, active |-> active, perms |-> {}]
           d == [row[t] EXCEPT !.active = active]
<1>2. q \in Request /\ q.pc = "hash" /\ q.token = t /\ q.active = active /\ q.perms = {}
  BY DEF Request, Pcs
<1>3. /\ d \in Row /\ d.active = active /\ d.there = row[t].there /\ d.granted = row[t].granted
      /\ row' = [row EXCEPT ![t] = d]
  BY <1>1 DEF TokenInv, TypeInv, Row
<1>4. asks' = [asks EXCEPT ![w] = q] /\ asks[w].pc = "free"
      /\ UNCHANGED <<job, client, role, member, lost>> /\ contested \subseteq contested'
  BY <1>1 DEF Arrives, Goes, Broker
<1> HIDE DEF q, d
<1>5. WebGoes(w, q, t, d)
  BY <1>1, <1>2, <1>3, <1>4 DEF WebGoes
<1>6. (\A v \in Web : asks'[v] = IF v = w THEN q ELSE asks[v]) /\ row'[t] = d
  BY <1>5, WebIs DEF TokenInv
<1>7. ASSUME t \notin contested' PROVE Agreed(t)' /\ (lost' = 0 => Follows(t)')
  <2>1. /\ t \notin contested
        /\ \A v \in Web : asks[v].pc # "free" /\ asks[v].token = t => asks[v].active = active
    BY <1>1, <1>7 DEF Arrives
  <2>2. Agreed(t) /\ (lost = 0 => Follows(t))
    BY <2>1 DEF TokenInv
  <2>3. \A v \in Web : asks[v].token = t /\ asks[v].pc \in {"hash", "call", "wait"} =>
                         row[t].active = active
    BY <2>1, <2>2 DEF Agreed
  <2>4. Agreed(t)'
    <3>1. ASSUME NEW v \in Web, asks'[v].token = t, asks'[v].pc # "free"
          PROVE  /\ asks'[v].active = active
                 /\ asks'[v].pc = "delete" => ~asks'[v].active
                 /\ asks'[v].pc \in {"hash", "call", "wait"} /\ active =>
                      asks'[v].perms \in {{}, row'[t].granted}
      <4>1. CASE v = w
        BY <1>2, <1>6, <4>1
      <4>2. CASE v # w
        <5>1. asks'[v] = asks[v]
          BY <1>6, <4>2
        <5>2. row'[t].granted = row[t].granted
          BY <1>3, <1>6
        <5>3. asks[v].active = active
          BY <2>1, <3>1, <5>1
        <5>4. asks[v].pc \in {"hash", "call", "wait"} => row[t].active = active
          BY <2>3, <3>1, <5>1
        <5>5. QED
          BY <2>2, <3>1, <5>1, <5>2, <5>3, <5>4 DEF Agreed
      <4>3. QED
        BY <4>1, <4>2
    <3>2. row'[t].active = active
      BY <1>3, <1>6
    <3>3. \A v \in Web : asks'[v].pc \in {"delete", "hash", "call", "wait"} => asks'[v].pc # "free"
      OBVIOUS
    <3>4. QED
      BY <3>1, <3>2, <3>3 DEF Agreed
  <2>5. ASSUME Follows(t) PROVE Follows(t)'
    <3>1. \A n : Ahead(t, n)'
      BY <1>1, <1>2, <1>3, <1>6 DEF Ahead
    <3>2. ASSUME NEW r \in Replicas, active, job'[r].token = t, Len(job'[r].todo) \in 1 .. 3
          PROVE  t \in client'
      <4>1. \E v \in Web : asks[v].token = t /\ asks[v].pc = "wait"
        BY <1>4, <3>2, JobInFlight DEF TokenInv
      <4>2. row[t].active
        BY <2>3, <3>2, <4>1
      <4>3. QED
        BY <1>4, <2>5, <3>2, <4>2 DEF Follows
    <3>3. /\ row'[t].active = active /\ row'[t].there = row[t].there
          /\ row'[t].granted = row[t].granted /\ role' = role
      BY <1>3, <1>4, <1>6
    <3>4. QED
      BY <2>5, <3>1, <3>2, <3>3 DEF Follows
  <2>6. QED
    BY <1>4, <2>2, <2>4, <2>5
<1>8. QED
  BY <1>4, <1>5, <1>7, WebStep DEF TokenInv, TypeInv

LEMMA TokenReadHash ==
  ASSUME TokensAssumption, TokenInv, NEW w \in Web, ReadHash(w)
  PROVE  TokenInv'
<1> DEFINE q == IF row[asks[w].token].there THEN [asks[w] EXCEPT !.pc = "call", !.perms = {}] ELSE Free
<1>1. PICK t \in Tokens : t = asks[w].token
  BY DEF TokenInv, TypeInv, Request
<1>2. /\ q \in Request /\ q.pc \in {"free", "call"}
      /\ q.pc = "call" => q.token = t /\ q.active = asks[w].active /\ q.perms = {}
      /\ row[t].there => q.pc = "call"
  BY <1>1, FreeIs DEF TokenInv, TypeInv, Request, Pcs
<1>3. row[t] \in Row /\ (row[t].active => row[t].there) /\ row' = [row EXCEPT ![t] = row[t]]
  BY DEF ReadHash, TokenInv, TypeInv
<1>4. asks' = [asks EXCEPT ![w] = q] /\ asks[w].pc = "hash"
      /\ UNCHANGED <<job, client, role, member, lost, contested>>
  BY <1>1 DEF ReadHash, Goes, Calls, Broker
<1> HIDE DEF q
<1>5. WebGoes(w, q, t, row[t])
  BY <1>1, <1>2, <1>3, <1>4 DEF WebGoes
<1>6. (\A v \in Web : asks'[v] = IF v = w THEN q ELSE asks[v]) /\ row'[t] = row[t]
  BY <1>5, WebIs DEF TokenInv
<1>7. ASSUME t \notin contested' PROVE Agreed(t)' /\ (lost' = 0 => Follows(t)')
  <2>1. Agreed(t) /\ (lost = 0 => Follows(t))
    BY <1>4, <1>7 DEF TokenInv
  <2>2. Agreed(t)'
    BY <1>1, <1>2, <1>4, <1>6, <2>1 DEF Agreed
  <2>3. ASSUME Follows(t) PROVE Follows(t)'
    <3>1. ASSUME NEW n, Ahead(t, n) PROVE Ahead(t, n)'
      BY <1>2, <1>4, <1>5, <3>1, AheadGoesOn DEF TokenInv
    <3>2. QED
      BY <1>4, <1>6, <2>3, <3>1 DEF Follows
  <2>4. QED
    BY <1>4, <2>1, <2>2, <2>3
<1>8. QED
  BY <1>4, <1>5, <1>7, WebStep DEF TokenInv, TypeInv

LEMMA TokenCallFails ==
  ASSUME TokensAssumption, TokenInv, NEW w \in Web, CallFails(w)
  PROVE  TokenInv'
<1>1. PICK t \in Tokens : t = asks[w].token
  BY DEF TokenInv, TypeInv, Request
<1>2. row[t] \in Row /\ (row[t].active => row[t].there) /\ row' = [row EXCEPT ![t] = row[t]]
  BY DEF CallFails, TokenInv, TypeInv
<1>3. /\ asks' = [asks EXCEPT ![w] = Free] /\ asks[w].pc = "call"
      /\ UNCHANGED <<job, client, role, member, contested>>
      /\ lost' \in Nat /\ lost' # 0
  BY DEF CallFails, Goes, Broker, TokenInv, TypeInv
<1>4. WebGoes(w, Free, t, row[t])
  BY <1>1, <1>2, <1>3, FreeIs DEF WebGoes
<1>5. (\A v \in Web : asks'[v] = IF v = w THEN Free ELSE asks[v]) /\ row'[t] = row[t]
  BY <1>4, WebIs DEF TokenInv
<1>6. ASSUME t \notin contested' PROVE Agreed(t)'
  <2>1. Agreed(t)
    BY <1>3, <1>6 DEF TokenInv
  <2>2. QED
    BY <1>5, <2>1, FreeIs DEF Agreed
<1>7. QED
  BY <1>3, <1>4, <1>6, WebStep

-----------------------------------------------------------------------------
(* Steps of a replica.                                                       *)

LEMMA TokenTake ==
  ASSUME TokensAssumption, TokenInv, NEW r \in Replicas, NEW w \in Web, Take(r, w)
  PROVE  TokenInv'
<1> DEFINE q == [asks[w] EXCEPT !.pc = "wait"]
           j == [todo |-> Commands(asks[w].active), token |-> asks[w].token,
                 perms |-> asks[w].perms, for |-> {w}]
<1>1. PICK t \in Tokens : t = asks[w].token
  BY DEF TokenInv, TypeInv, Request
<1>2. PICK a \in BOOLEAN : a = asks[w].active
  BY DEF TokenInv, TypeInv, Request
<1>3. /\ q \in Request /\ q.pc = "wait" /\ q.token = t /\ q.active = a /\ q.perms = asks[w].perms
      /\ asks[w].pc = "call"
  BY <1>1, <1>2 DEF Take, TokenInv, TypeInv, Request, Pcs
<1>4. Commands(a) \in Left(a) /\ Len(Commands(a)) = (IF a THEN 4 ELSE 1)
  BY Lefts
<1>5. j \in Job /\ j.todo = Commands(a) /\ j.token = t /\ j.perms = asks[w].perms /\ j.for = {w}
  <2>1. Commands(a) \in Left(TRUE) \union Left(FALSE)
    BY <1>4
  <2>2. asks[w].perms \in SUBSET Both
    BY DEF TokenInv, TypeInv, Request
  <2>3. QED
    BY <1>1, <1>2, <2>1, <2>2 DEF Job
<1>6. /\ job[r] = NoJob /\ job' = [job EXCEPT ![r] = j] /\ asks' = [asks EXCEPT ![w] = q]
      /\ UNCHANGED <<row, client, role, member, contested, lost>>
  BY DEF Take, Goes, Broker
<1> HIDE DEF q, j
<1>7. /\ \A v \in Web : asks'[v] = IF v = w THEN q ELSE asks[v]
      /\ \A s \in Replicas : job'[s] = IF s = r THEN j ELSE job[s]
  BY <1>6 DEF TokenInv, TypeInv
<1>8. TypeInv'
  BY <1>3, <1>5, <1>6 DEF TokenInv, TypeInv
<1>9. JobInv'
  <2>1. ASSUME NEW s \in Replicas
        PROVE  \/ job'[s] = NoJob
               \/ \E v \in Web : /\ job'[s].for = {v} /\ asks'[v].pc = "wait"
                                 /\ asks'[v].token = job'[s].token /\ asks'[v].perms = job'[s].perms
                                 /\ job'[s].todo \in Left(asks'[v].active)
    <3>1. CASE s = r
      BY <1>3, <1>4, <1>5, <1>7, <3>1
    <3>2. CASE s # r /\ job[s] # NoJob
      <4>1. PICK v \in Web : /\ job[s].for = {v} /\ asks[v].pc = "wait"
                             /\ asks[v].token = job[s].token /\ asks[v].perms = job[s].perms
                             /\ job[s].todo \in Left(asks[v].active)
        BY <3>2 DEF TokenInv, JobInv
      <4>2. v # w
        BY <1>3, <4>1
      <4>3. QED
        BY <1>7, <3>2, <4>1, <4>2
    <3>3. CASE s # r /\ job[s] = NoJob
      BY <1>7, <3>3
    <3>4. QED
      BY <3>1, <3>2, <3>3
  <2>2. ASSUME NEW s \in Replicas, s # r PROVE w \notin job[s].for
    <3>1. CASE job[s] = NoJob
      BY <3>1, FreeIs
    <3>2. CASE job[s] # NoJob
      BY <1>3, <3>2 DEF TokenInv, JobInv
    <3>3. QED
      BY <3>1, <3>2
  <2>3. \A s, o \in Replicas : s # o => job'[s].for \intersect job'[o].for = {}
    BY <1>5, <1>7, <2>2 DEF TokenInv, JobInv
  <2>4. NoJob' = NoJob
    OBVIOUS
  <2>5. QED
    BY <2>1, <2>3, <2>4 DEF JobInv
<1>10. ASSUME NEW u \in Tokens \ {t} PROVE LeftAlone(u)
  <2>1. \A v \in Web : SameReq(u, asks[v], asks'[v])
    BY <1>1, <1>3, <1>7 DEF SameReq
  <2>2. \A s \in Replicas : SameJob(u, job[s], job'[s])
    BY <1>5, <1>6, <1>7, FreeIs DEF SameJob
  <2>3. QED
    BY <1>6, <2>1, <2>2 DEF LeftAlone
<1>11. ASSUME t \notin contested' PROVE Agreed(t)' /\ (lost' = 0 => Follows(t)')
  <2>1. Agreed(t) /\ (lost = 0 => Follows(t))
    BY <1>6, <1>11 DEF TokenInv
  <2>2. Agreed(t)'
    BY <1>1, <1>2, <1>3, <1>6, <1>7, <2>1 DEF Agreed
  <2>3. a = row[t].active
    BY <1>1, <1>2, <1>3, <2>1 DEF Agreed
  <2>4. ASSUME Follows(t) PROVE Follows(t)'
    <3>1. Len(job'[r].todo) = (IF row[t].active THEN 4 ELSE 1) /\ job'[r].token = t
      BY <1>4, <1>5, <1>7, <2>3
    <3>2. /\ row[t].active => Ahead(t, 1)' /\ Ahead(t, 2)' /\ Ahead(t, 4)'
          /\ ~row[t].active => Ahead(t, 1)'
      BY <3>1 DEF Ahead
    <3>3. \A s \in Replicas : row[t].active /\ job'[s].token = t /\ Len(job'[s].todo) \in 1 .. 3 =>
                                t \in client
      <4>1. \A s \in Replicas : s # r => job'[s] = job[s]
        BY <1>7
      <4>2. row[t].active => Len(job'[r].todo) \notin 1 .. 3
        BY <3>1
      <4>3. QED
        BY <2>4, <4>1, <4>2 DEF Follows
    <3>4. QED
      BY <1>6, <2>4, <3>2, <3>3 DEF Follows
  <2>5. QED
    BY <1>6, <2>1, <2>2, <2>4
<1>12. QED
  BY <1>6, <1>8, <1>9, <1>10, <1>11, OneToken

LEMMA TokenAnswer ==
  ASSUME TokensAssumption, TokenInv, NEW r \in Replicas, Answer(r)
  PROVE  TokenInv'
<1>1. PICK w \in Web : /\ job[r].for = {w} /\ asks[w].pc = "wait" /\ asks[w].token = job[r].token
                       /\ asks[w].perms = job[r].perms /\ job[r].todo \in Left(asks[w].active)
  BY JobOf DEF Answer, TokenInv
<1>2. PICK t \in Tokens : t = asks[w].token
  BY DEF TokenInv, TypeInv, Request
<1>3. /\ asks' = [v \in Web |-> IF v = w THEN Free ELSE asks[v]] /\ job' = [job EXCEPT ![r] = NoJob]
      /\ UNCHANGED <<row, client, role, member, contested, lost>> /\ job[r].todo = <<>>
  BY <1>1 DEF Answer, Broker
<1>4. /\ \A v \in Web : asks'[v] = IF v = w THEN Free ELSE asks[v]
      /\ \A s \in Replicas : job'[s] = IF s = r THEN NoJob ELSE job[s]
  BY <1>3 DEF TokenInv, TypeInv
<1>5. TypeInv'
  BY <1>3, FreeIs DEF TokenInv, TypeInv
<1>6. JobInv'
  <2>1. ASSUME NEW s \in Replicas, s # r, job[s] # NoJob
        PROVE  \E v \in Web : /\ job'[s].for = {v} /\ asks'[v].pc = "wait"
                              /\ asks'[v].token = job'[s].token /\ asks'[v].perms = job'[s].perms
                              /\ job'[s].todo \in Left(asks'[v].active)
    <3>1. PICK v \in Web : /\ job[s].for = {v} /\ asks[v].pc = "wait"
                           /\ asks[v].token = job[s].token /\ asks[v].perms = job[s].perms
                           /\ job[s].todo \in Left(asks[v].active)
      BY <2>1 DEF TokenInv, JobInv
    <3>2. job[s].for \intersect job[r].for = {}
      BY <2>1 DEF TokenInv, JobInv
    <3>3. v # w
      BY <1>1, <3>1, <3>2
    <3>4. QED
      BY <1>4, <2>1, <3>1, <3>3
  <2>2. \A s, o \in Replicas : s # o => job'[s].for \intersect job'[o].for = {}
    BY <1>4, FreeIs DEF TokenInv, JobInv
  <2>3. \A s \in Replicas : job'[s] = NoJob \/ (s # r /\ job[s] # NoJob)
    BY <1>4
  <2>4. NoJob' = NoJob
    OBVIOUS
  <2>5. QED
    BY <2>1, <2>2, <2>3, <2>4 DEF JobInv
<1>7. ASSUME NEW u \in Tokens PROVE \A s \in Replicas : SameJob(u, job[s], job'[s])
  BY <1>3, <1>4, FreeIs DEF SameJob
<1>8. ASSUME NEW u \in Tokens \ {t} PROVE LeftAlone(u)
  <2>1. \A v \in Web : SameReq(u, asks[v], asks'[v])
    BY <1>2, <1>4, FreeIs DEF SameReq
  <2>2. QED
    BY <1>3, <1>7, <2>1 DEF LeftAlone
<1>9. ASSUME t \notin contested' PROVE Agreed(t)' /\ (lost' = 0 => Follows(t)')
  <2>1. Agreed(t) /\ (lost = 0 => Follows(t))
    BY <1>3, <1>9 DEF TokenInv
  <2>2. Agreed(t)'
    BY <1>3, <1>4, <2>1, FreeIs DEF Agreed
  <2>3. ASSUME Follows(t) PROVE Follows(t)'
    <3>1. ASSUME NEW n \in {1, 2, 4}, Ahead(t, n) PROVE Ahead(t, n)'
      <4>1. CASE \E v \in Web : asks[v].token = t /\ (asks[v].pc = "call" \/ (asks[v].pc = "hash" /\ row[t].there))
        BY <1>1, <1>3, <1>4, <4>1 DEF Ahead
      <4>2. ASSUME NEW s \in Replicas, job[s].token = t, Len(job[s].todo) >= n PROVE Ahead(t, n)'
        <5>1. Len(<<>>) = 0 /\ ~(0 >= n)
          OBVIOUS
        <5>2. s # r
          BY <1>3, <4>2, <5>1
        <5>3. job'[s] = job[s]
          BY <1>4, <5>2
        <5>4. QED
          BY <4>2, <5>3 DEF Ahead
      <4>3. QED
        BY <3>1, <4>1, <4>2 DEF Ahead
    <3>2. ASSUME NEW s \in Replicas, job'[s].token = t, Len(job'[s].todo) \in 1 .. 3
          PROVE  job[s].token = t /\ Len(job[s].todo) \in 1 .. 3
      <4>1. Len(NoJob.todo) = 0 /\ 0 \notin 1 .. 3
        BY FreeIs
      <4>2. s # r
        BY <1>4, <3>2, <4>1
      <4>3. QED
        BY <1>4, <3>2, <4>2
    <3>3. QED
      BY <1>3, <2>3, <3>1, <3>2 DEF Follows
  <2>4. QED
    BY <1>3, <2>1, <2>2, <2>3
<1>10. QED
  BY <1>3, <1>5, <1>6, <1>8, <1>9, OneToken

LEMMA Obeyed ==
  ASSUME NEW cmd, NEW t, NEW perms, Obeys(cmd, t, perms)
  PROVE  /\ cmd = "createClient" =>
              client' = client \union {t} /\ UNCHANGED <<role, member>>
         /\ cmd = "deleteClient" =>
              client' = client \ {t} /\ member' = member \ {t} /\ UNCHANGED role
         /\ cmd = "deleteRole" =>
              role' = [role EXCEPT ![t] = NoRole] /\ member' = member \ {t} /\ UNCHANGED client
         /\ cmd = "createRole" =>
              /\ role' = [role EXCEPT ![t] = IF role[t] = NoRole THEN Acl(perms) ELSE role[t]]
              /\ UNCHANGED <<client, member>>
         /\ cmd = "addClientRole" =>
              /\ member' = member \union {x \in {t} : t \in client /\ role[t] # NoRole}
              /\ UNCHANGED <<client, role>>
BY DEF Obeys

LEMMA AclIs ==
  ASSUME NEW perms \in SUBSET Both
  PROVE  Acl(perms) \in SUBSET Both /\ Acl(perms) # NoRole
BY DEF Acl, Both, NoRole

(* What the broker makes of the commands of one call for a token that is not *)
(* contested.                                                                *)
LEMMA Served ==
  ASSUME TypeInv, NEW r \in Replicas, NEW t \in Tokens, NEW perms \in SUBSET Both,
         NEW L \in 1 .. 4, NEW cmd, Follows(t), job[r].token = t, Len(job[r].todo) = L,
         Obeys(cmd, t, perms), row' = row,
         row[t].active => perms \in {{}, row[t].granted},
         row[t].active /\ L = 4 => cmd = "createClient",
         row[t].active /\ L = 3 => cmd = "deleteRole",
         row[t].active /\ L = 2 => cmd = "createRole",
         row[t].active /\ L = 1 => cmd = "addClientRole",
         ~row[t].active => cmd = "deleteClient",
         job'[r].token = t, Len(job'[r].todo) = L - 1,
         \A n \in 1 .. 4 : n # L /\ Ahead(t, n) => Ahead(t, n)',
         \A s \in Replicas : s # r => job'[s] = job[s]
  PROVE  Follows(t)'
<1>1. row[t].there => role[t] = NoRole \/ Acl(row[t].granted) \subseteq role[t]
  BY DEF Follows
<1>2. CASE ~row[t].active
  <2>1. t \notin client' /\ role' = role
    BY <1>2, Obeyed
  <2>2. QED
    BY <1>1, <1>2, <2>1 DEF Follows
<1>3. CASE row[t].active
  <2>1. /\ t \in client \/ Ahead(t, 4)
        /\ role[t] # NoRole \/ Ahead(t, 2)
        /\ t \in member \/ Ahead(t, 1)
        /\ \A s \in Replicas : job[s].token = t /\ Len(job[s].todo) \in 1 .. 3 => t \in client
    BY <1>3 DEF Follows
  <2>2. role[t] \in TokenRoles /\ row[t].granted \in SUBSET Both /\ role \in [Tokens -> TokenRoles]
    BY DEF TypeInv, Row
  <2>3. L # 4 => t \in client
    <3>1. L # 4 => L \in 1 .. 3
      OBVIOUS
    <3>2. QED
      BY <2>1, <3>1, Zenon
  <2>4. \A n \in 1 .. 3 : L - 1 >= n => Ahead(t, n)'
    BY DEF Ahead
  <2>5. /\ t \in client'
        /\ role'[t] = NoRole \/ Acl(row[t].granted) \subseteq role'[t]
        /\ role'[t] # NoRole \/ Ahead(t, 2)'
        /\ t \in member' \/ Ahead(t, 1)'
    <3>1. CASE L = 4
      <4>1. client' = client \union {t} /\ role' = role /\ member' = member
        BY <1>3, <3>1, Obeyed
      <4>2. Ahead(t, 2)' /\ Ahead(t, 1)'
        BY <2>4, <3>1
      <4>3. QED
        BY <1>1, <1>3, <4>1, <4>2 DEF TypeInv
    <3>2. CASE L = 3
      <4>1. role' = [role EXCEPT ![t] = NoRole] /\ client' = client
        BY <1>3, <3>2, Obeyed
      <4>2. role'[t] = NoRole
        BY <2>2, <4>1
      <4>3. Ahead(t, 2)' /\ Ahead(t, 1)'
        BY <2>4, <3>2
      <4>4. QED
        BY <2>3, <3>2, <4>1, <4>2, <4>3
    <3>3. CASE L = 2
      <4>1. /\ role' = [role EXCEPT ![t] = IF role[t] = NoRole THEN Acl(perms) ELSE role[t]]
            /\ client' = client
        BY <1>3, <3>3, Obeyed
      <4>2. role'[t] = IF role[t] = NoRole THEN Acl(perms) ELSE role[t]
        BY <2>2, <4>1
      <4>3. Acl(perms) # NoRole
        BY AclIs
      <4>4. Acl(row[t].granted) \subseteq Acl(perms)
        <5>1. Acl(row[t].granted) \subseteq Both
          BY <2>2, AclIs
        <5>2. CASE perms = {}
          BY <5>1, <5>2 DEF Acl
        <5>3. CASE perms = row[t].granted
          BY <5>3
        <5>4. QED
          BY <1>3, <5>2, <5>3
      <4>5. Ahead(t, 1)'
        BY <2>4, <3>3
      <4>6. row[t].there
        BY <1>3 DEF TypeInv
      <4>7. QED
        BY <1>1, <2>3, <3>3, <4>1, <4>2, <4>3, <4>4, <4>5, <4>6
    <3>4. CASE L = 1
      <4>1. /\ member' = member \union {x \in {t} : t \in client /\ role[t] # NoRole}
            /\ client' = client /\ role' = role
        BY <1>3, <3>4, Obeyed
      <4>2. t \in client
        BY <2>3, <3>4
      <4>3. CASE role[t] # NoRole
        BY <1>1, <1>3, <4>1, <4>2, <4>3 DEF TypeInv
      <4>4. CASE role[t] = NoRole
        <5>1. Ahead(t, 2)'
          BY <2>1, <3>4, <4>4
        <5>2. Ahead(t, 1)'
          <6>1. \A n, m \in Int : n >= m /\ m = 2 => n >= 1
            OBVIOUS
          <6>2. CASE \E s \in Replicas : job'[s].token = t /\ Len(job'[s].todo) >= 2
            <7>1. PICK s \in Replicas : job'[s].token = t /\ Len(job'[s].todo) >= 2
              BY <6>2
            <7>2. Len(job'[s].todo) >= 1
              BY <7>1
            <7>3. QED
              BY <7>1, <7>2 DEF Ahead
          <6>3. QED
            BY <5>1, <6>2 DEF Ahead
        <5>3. QED
          BY <4>1, <4>2, <4>4, <5>1, <5>2
      <4>5. QED
        BY <4>3, <4>4
    <3>5. QED
      BY <3>1, <3>2, <3>3, <3>4
  <2>6. QED
    BY <1>3, <2>5 DEF Follows
<1>4. QED
  BY <1>2, <1>3

LEMMA TokenSend ==
  ASSUME TokensAssumption, TokenInv, NEW r \in Replicas, Send(r)
  PROVE  TokenInv'
<1>1. PICK w \in Web : /\ job[r].for = {w} /\ asks[w].pc = "wait" /\ asks[w].token = job[r].token
                       /\ asks[w].perms = job[r].perms /\ asks[w].active \in BOOLEAN
                       /\ job[r].todo \in Left(asks[w].active)
  BY JobOf DEF Send, TokenInv
<1>2. PICK t \in Tokens : t = asks[w].token
  BY DEF TokenInv, TypeInv, Request
<1>3. PICK a \in BOOLEAN : a = asks[w].active
  BY <1>1
<1>4. PICK s : s = job[r].todo
  OBVIOUS
<1>5. PICK perms \in SUBSET Both : perms = job[r].perms
  BY DEF TokenInv, TypeInv, Job
<1>6. NextIs(a, s)
  BY <1>1, <1>3, <1>4, TokenDrops DEF Send
<1> DEFINE j == [job[r] EXCEPT !.todo = Tail(s)]
<1>7. job' = [job EXCEPT ![r] = j] /\ UNCHANGED <<row, asks, contested>>
  BY <1>4 DEF Send, TokenInv, TypeInv
<1>8. Tail(s) \in Left(TRUE) \union Left(FALSE)
  BY <1>6 DEF NextIs
<1>9. /\ j \in Job /\ j.todo = Tail(s) /\ j.token = t /\ j.perms = perms /\ j.for = {w}
  <2>1. job[r] \in Job
    BY DEF TokenInv, TypeInv
  <2>2. QED
    BY <1>1, <1>2, <1>5, <1>8, <2>1 DEF Job
<1> HIDE DEF j
<1>10. \A o \in Replicas : job'[o] = IF o = r THEN j ELSE job[o]
  BY <1>7 DEF TokenInv, TypeInv
<1>11. \/ Obeys(Head(s), t, perms) /\ lost' = lost
       \/ lost' \in Nat /\ lost' # 0 /\ UNCHANGED Broker
  BY <1>1, <1>2, <1>4, <1>5 DEF Send, TokenInv, TypeInv
<1>12. /\ Head(s) \in {"createClient", "deleteRole", "createRole", "addClientRole", "deleteClient"}
       /\ Tail(s) \in Left(a)
  <2>1. Len(s) \in 1 .. 4 /\ Tail(s) \in Left(a)
    BY <1>6 DEF NextIs
  <2>2. Len(s) = 1 \/ Len(s) = 2 \/ Len(s) = 3 \/ Len(s) = 4
    BY <2>1
  <2>3. QED
    BY <1>6, <2>1, <2>2, Zenon DEF NextIs
<1>13. /\ role' \in [Tokens -> TokenRoles] /\ lost' \in Nat
       /\ \A u \in Tokens \ {t} : /\ role'[u] = role[u] /\ (u \in client' <=> u \in client)
                                  /\ (u \in member' <=> u \in member)
  <2>1. CASE Obeys(Head(s), t, perms) /\ lost' = lost
    <3>1. role \in [Tokens -> TokenRoles] /\ NoRole \in TokenRoles /\ Acl(perms) \in TokenRoles
      BY AclIs DEF TokenInv, TypeInv, TokenRoles
    <3>2. CASE Head(s) = "createClient"
      BY <2>1, <3>1, <3>2, Obeyed DEF TokenInv, TypeInv
    <3>3. CASE Head(s) = "deleteClient"
      BY <2>1, <3>1, <3>3, Obeyed DEF TokenInv, TypeInv
    <3>4. CASE Head(s) = "deleteRole"
      BY <2>1, <3>1, <3>4, Obeyed DEF TokenInv, TypeInv
    <3>5. CASE Head(s) = "createRole"
      BY <2>1, <3>1, <3>5, Obeyed DEF TokenInv, TypeInv
    <3>6. CASE Head(s) = "addClientRole"
      BY <2>1, <3>1, <3>6, Obeyed DEF TokenInv, TypeInv
    <3>7. QED
      BY <1>12, <3>2, <3>3, <3>4, <3>5, <3>6
  <2>2. CASE lost' \in Nat /\ lost' # 0 /\ UNCHANGED Broker
    BY <2>2 DEF Broker, TokenInv, TypeInv
  <2>3. QED
    BY <1>11, <2>1, <2>2
<1>14. TypeInv'
  BY <1>7, <1>9, <1>13 DEF TokenInv, TypeInv
<1>15. JobInv'
  <2>1. ASSUME NEW o \in Replicas
        PROVE  \/ job'[o] = NoJob
               \/ \E v \in Web : /\ job'[o].for = {v} /\ asks[v].pc = "wait"
                                 /\ asks[v].token = job'[o].token /\ asks[v].perms = job'[o].perms
                                 /\ job'[o].todo \in Left(asks[v].active)
    <3>1. CASE o = r
      BY <1>1, <1>2, <1>3, <1>5, <1>9, <1>10, <1>12, <3>1
    <3>2. CASE o # r
      BY <1>10, <3>2 DEF TokenInv, JobInv
    <3>3. QED
      BY <3>1, <3>2
  <2>2. \A o \in Replicas : job'[o].for = job[o].for
    BY <1>1, <1>9, <1>10
  <2>3. NoJob' = NoJob
    OBVIOUS
  <2>4. QED
    BY <1>7, <2>1, <2>2, <2>3 DEF TokenInv, JobInv
<1>16. ASSUME NEW u \in Tokens \ {t} PROVE LeftAlone(u)
  <2>1. \A v \in Web : SameReq(u, asks[v], asks'[v])
    BY <1>7 DEF SameReq
  <2>2. \A o \in Replicas : SameJob(u, job[o], job'[o])
    BY <1>1, <1>2, <1>9, <1>10 DEF SameJob
  <2>3. QED
    BY <1>7, <1>13, <2>1, <2>2 DEF LeftAlone
<1>17. lost' = 0 => lost = 0 /\ Obeys(Head(s), t, perms)
  BY <1>11
<1>18. ASSUME t \notin contested' PROVE Agreed(t)' /\ (lost' = 0 => Follows(t)')
  <2>1. Agreed(t) /\ (lost = 0 => Follows(t))
    BY <1>7, <1>18 DEF TokenInv
  <2>2. Agreed(t)'
    BY <1>7, <2>1 DEF Agreed
  <2>3. a = row[t].active /\ (row[t].active => perms \in {{}, row[t].granted})
    BY <1>1, <1>2, <1>3, <1>5, <2>1 DEF Agreed
  <2>4. PICK L : L = Len(s)
    OBVIOUS
  <2>5. L \in 1 .. 4 /\ Len(Tail(s)) = L - 1
    BY <1>6, <2>4 DEF NextIs
  <2>6. ASSUME NEW n \in 1 .. 4, n # L, Ahead(t, n) PROVE Ahead(t, n)'
    <3>1. CASE \E v \in Web : asks[v].token = t /\ (asks[v].pc = "call" \/ (asks[v].pc = "hash" /\ row[t].there))
      BY <1>7, <3>1 DEF Ahead
    <3>2. ASSUME NEW o \in Replicas, job[o].token = t, Len(job[o].todo) >= n PROVE Ahead(t, n)'
      <4>1. CASE o = r
        <5>1. L >= n
          BY <1>4, <2>4, <3>2, <4>1
        <5>2. L - 1 >= n
          BY <2>5, <2>6, <5>1
        <5>3. QED
          BY <1>9, <1>10, <2>5, <5>2 DEF Ahead
      <4>2. CASE o # r
        BY <1>10, <3>2, <4>2 DEF Ahead
      <4>3. QED
        BY <4>1, <4>2
    <3>3. QED
      BY <2>6, <3>1, <3>2 DEF Ahead
  <2>7. /\ row[t].active /\ L = 4 => Head(s) = "createClient"
        /\ row[t].active /\ L = 3 => Head(s) = "deleteRole"
        /\ row[t].active /\ L = 2 => Head(s) = "createRole"
        /\ row[t].active /\ L = 1 => Head(s) = "addClientRole"
        /\ ~row[t].active => Head(s) = "deleteClient"
    BY <1>6, <2>3, <2>4, Zenon DEF NextIs
  <2>8. /\ job[r].token = t /\ Len(job[r].todo) = L
        /\ job'[r].token = t /\ Len(job'[r].todo) = L - 1
        /\ \A o \in Replicas : o # r => job'[o] = job[o]
    BY <1>1, <1>2, <1>4, <1>9, <1>10, <2>4, <2>5
  <2>9. ASSUME lost' = 0 PROVE Follows(t)'
    <3>1. Follows(t) /\ Obeys(Head(s), t, perms) /\ TypeInv /\ row' = row
      BY <1>7, <1>17, <2>1, <2>9 DEF TokenInv
    <3>2. QED
      BY <2>3, <2>5, <2>6, <2>7, <2>8, <3>1, Served
  <2>10. QED
    BY <2>2, <2>9
<1>19. contested \subseteq contested'
  BY <1>7
<1>20. QED
  BY <1>14, <1>15, <1>16, <1>17, <1>18, <1>19, OneToken

LEMMA TokenStep == TokensAssumption /\ TokenInv /\ [TokensNext]_tokenVars => TokenInv'
<1> SUFFICES ASSUME TokensAssumption, TokenInv, [TokensNext]_tokenVars PROVE TokenInv'
  OBVIOUS
<1>1. CASE UNCHANGED tokenVars
  <2>1. UNCHANGED <<row, asks, job, client, role, member, contested, lost>>
    BY <1>1 DEF tokenVars
  <2>2. TypeInv' /\ JobInv'
    BY <2>1 DEF TokenInv, TypeInv, JobInv
  <2>3. ASSUME NEW t \in Tokens, Agreed(t) PROVE Agreed(t)'
    BY <2>1, <2>3 DEF Agreed
  <2>4. ASSUME NEW t \in Tokens, Follows(t) PROVE Follows(t)'
    BY <2>1, <2>4 DEF Follows, Ahead
  <2>5. QED
    BY <2>1, <2>2, <2>3, <2>4 DEF TokenInv
<1>2. QED
  BY <1>1, TokenCreate, TokenDelete, TokenDeleteRow, TokenSwitch, TokenReadHash, TokenCallFails,
     TokenTake, TokenSend, TokenAnswer DEF TokensNext

(* "MQTT connections are immediately allowed/denied" (api/channels): once    *)
(* the requests of a token are answered, the broker knows it exactly if it   *)
(* exists and is active, and allows what it was granted; unless a call or    *)
(* command was lost, or requests of opposite ends overlapped.                *)
THEOREM BrokerFollowsHolds == ASSUME TokensAssumption PROVE TokensSpec => []BrokerFollows
<1>1. TokensInit => TokenInv
  BY TokenStarts
<1>2. TokenInv => BrokerFollows
  <2> SUFFICES ASSUME TokenInv, NEW t \in Tokens, lost = 0, Quiet(t), t \notin contested
               PROVE  /\ (t \in client) <=> row[t].active
                      /\ row[t].active => t \in member /\ Acl(row[t].granted) \subseteq role[t]
    BY DEF BrokerFollows
  <2>1. Follows(t)
    BY DEF TokenInv
  <2>2. ASSUME NEW n \in {1, 2, 4} PROVE ~Ahead(t, n)
    <3>1. \A w \in Web : asks[w].token = t => asks[w].pc = "free"
      BY DEF Quiet
    <3>2. ASSUME NEW r \in Replicas, job[r].token = t, Len(job[r].todo) >= n PROVE FALSE
      <4>1. Len(<<>>) = 0 /\ ~(0 >= n)
        OBVIOUS
      <4>2. job[r].todo # <<>>
        BY <3>2, <4>1
      <4>3. PICK w \in Web : asks[w].pc = "wait" /\ asks[w].token = job[r].token
        BY <4>2, JobOf DEF TokenInv
      <4>4. QED
        BY <3>1, <3>2, <4>3
    <3>3. QED
      BY <3>1, <3>2 DEF Ahead
  <2>3. row[t].active \in BOOLEAN /\ (row[t].active => row[t].there)
    BY DEF TokenInv, TypeInv, Row
  <2>4. QED
    BY <2>1, <2>2, <2>3 DEF Follows
<1>3. TokenInv /\ [TokensNext]_tokenVars => TokenInv'
  BY TokenStep
<1>4. QED
  BY <1>1, <1>2, <1>3, PTL DEF TokensSpec

(***************************************************************************)
(* Sessions.                                                               *)
(***************************************************************************)

LEMMA LeastNat ==
  ASSUME NEW C, C \subseteq Nat, C # {}
  PROVE  \E x \in C : \A y \in C : x <= y
<1> DEFINE R == OpToRel(<, Nat)
<1>1. IsWellFoundedOn(R, Nat)
  BY NatLessThanWellFounded
<1>2. \A x, y \in Nat : y < x => <<y, x>> \in R
  BY DEF OpToRel
<1> HIDE DEF R
<1>3. PICK x \in C : \A y \in C : <<y, x>> \notin R
  BY <1>1, WFMin, Zenon
<1>4. \A y \in C : ~(y < x)
  BY <1>2, <1>3
<1>5. QED
  BY <1>3, <1>4

-----------------------------------------------------------------------------
(* The attempts of a window.  What the recursive function Within computes is *)
(* shown by a least counterexample.                                          *)

Counts == [Ages -> Nat]

(* g adds the first n counts, for every n up to m. *)
Added(c, g, m) == g = [n \in 0 .. m |-> IF n = 0 THEN 0 ELSE g[n - 1] + c[n - 1]]

LEMMA SumsExist ==
  ASSUME NEW c, NEW m \in Nat
  PROVE  \E g : Added(c, g, m)
<1> DEFINE C == {n \in Nat : ~\E g : Added(c, g, n)}
<1> SUFFICES ASSUME C # {} PROVE FALSE
  OBVIOUS
<1>1. PICK n \in C : \A k \in C : n <= k
  BY LeastNat
<1>2. n \in Nat /\ ~\E g : Added(c, g, n)
  OBVIOUS
<1>3. CASE n = 0
  <2> DEFINE g == [i \in 0 .. 0 |-> 0]
  <2>1. Added(c, g, 0)
    BY DEF Added
  <2>2. QED
    BY <1>2, <1>3, <2>1
<1>4. CASE n # 0
  <2>1. n - 1 \in Nat /\ n - 1 \notin C
    BY <1>1, <1>2, <1>4
  <2>2. PICK g : Added(c, g, n - 1)
    BY <2>1
  <2> DEFINE h == [i \in 0 .. n |-> IF i = n THEN g[n - 1] + c[n - 1] ELSE g[i]]
  <2>3. ASSUME NEW i \in 0 .. n PROVE h[i] = IF i = 0 THEN 0 ELSE h[i - 1] + c[i - 1]
    <3>1. CASE i = n
      <4>1. n - 1 \in 0 .. n /\ n - 1 # n
        BY <1>2, <1>4
      <4>2. h[n - 1] = g[n - 1] /\ h[n] = g[n - 1] + c[n - 1]
        BY <1>2, <4>1
      <4>3. QED
        BY <1>4, <3>1, <4>2
    <3>2. CASE i # n /\ i = 0
      <4>1. 0 \in 0 .. n - 1
        BY <1>2, <2>1
      <4>2. g[0] = 0
        BY <2>2, <4>1 DEF Added
      <4>3. QED
        BY <3>2, <4>2
    <3>3. CASE i # n /\ i # 0
      <4>1. i \in 0 .. n - 1 /\ i - 1 \in 0 .. n /\ i - 1 # n
        BY <1>2, <3>3
      <4>2. g[i] = g[i - 1] + c[i - 1]
        BY <2>2, <3>3, <4>1 DEF Added
      <4>3. h[i] = g[i] /\ h[i - 1] = g[i - 1]
        BY <3>3, <4>1
      <4>4. QED
        BY <3>3, <4>2, <4>3
    <3>4. QED
      BY <3>1, <3>2, <3>3
  <2>4. h = [i \in 0 .. n |-> h[i]]
    OBVIOUS
  <2> HIDE DEF h
  <2>5. Added(c, h, n)
    BY <2>3, <2>4 DEF Added
  <2>6. QED
    BY <1>2, <2>5
<1>5. QED
  BY <1>3, <1>4

LEMMA AddedStep ==
  ASSUME NEW c, NEW g, NEW m \in Nat, Added(c, g, m), NEW n \in 0 .. m
  PROVE  g[n] = IF n = 0 THEN 0 ELSE g[n - 1] + c[n - 1]
BY DEF Added

LEMMA SumsNat ==
  ASSUME LoginsAssumption, NEW c \in Counts, NEW g, Added(c, g, Window), NEW m \in 0 .. Window
  PROVE  g[m] \in Nat
<1> DEFINE C == {n \in 0 .. Window : g[n] \notin Nat}
<1> SUFFICES ASSUME C # {} PROVE FALSE
  OBVIOUS
<1>1. Window \in Nat /\ C \subseteq Nat
  BY DEF LoginsAssumption
<1>2. PICK n \in C : \A k \in C : n <= k
  BY <1>1, LeastNat, Zenon
<1>3. n \in 0 .. Window /\ g[n] \notin Nat
  OBVIOUS
<1>4. g[n] = IF n = 0 THEN 0 ELSE g[n - 1] + c[n - 1]
  BY <1>1, <1>3, AddedStep
<1>5. n # 0
  BY <1>3, <1>4
<1>6. n - 1 \in 0 .. Window /\ n - 1 \in Ages /\ ~(n <= n - 1)
  BY <1>1, <1>3, <1>5 DEF Ages
<1>7. g[n - 1] \in Nat
  BY <1>2, <1>6
<1>8. c[n - 1] \in Nat
  BY <1>6 DEF Counts
<1>9. QED
  BY <1>3, <1>4, <1>5, <1>7, <1>8

LEMMA WithinIs ==
  ASSUME LoginsAssumption, NEW c \in Counts
  PROVE  \E g : Added(c, g, Window) /\ Within(c) = g[Window] /\ g[Window] \in Nat
<1> DEFINE g == CHOOSE h : Added(c, h, Window)
<1>1. Window \in Nat /\ Window \in 0 .. Window
  BY DEF LoginsAssumption
<1>2. Added(c, g, Window)
  BY <1>1, SumsExist, Zenon
<1>3. Within(c) = g[Window]
  BY Zenon DEF Within, Added
<1> HIDE DEF g
<1>4. g[Window] \in Nat
  BY <1>1, <1>2, SumsNat
<1>5. QED
  BY <1>2, <1>3, <1>4

LEMMA NoAttempts ==
  ASSUME LoginsAssumption, NEW c \in Counts, \A a \in Ages : c[a] = 0
  PROVE  Within(c) = 0
<1>1. PICK g : Added(c, g, Window) /\ Within(c) = g[Window] /\ g[Window] \in Nat
  BY WithinIs
<1>2. Window \in Nat /\ Window \in 0 .. Window
  BY DEF LoginsAssumption
<1> DEFINE C == {n \in 0 .. Window : g[n] # 0}
<1>3. C = {}
  <2> SUFFICES ASSUME C # {} PROVE FALSE
    OBVIOUS
  <2>1. C \subseteq Nat
    BY <1>2
  <2>2. PICK n \in C : \A k \in C : n <= k
    BY <2>1, LeastNat, Zenon
  <2>3. n \in 0 .. Window /\ g[n] # 0
    OBVIOUS
  <2>4. g[n] = IF n = 0 THEN 0 ELSE g[n - 1] + c[n - 1]
    BY <1>1, <1>2, <2>3, AddedStep
  <2>5. n # 0
    BY <2>3, <2>4
  <2>6. n - 1 \in 0 .. Window /\ n - 1 \in Ages /\ ~(n <= n - 1)
    BY <1>2, <2>3, <2>5 DEF Ages
  <2>7. g[n - 1] = 0 /\ c[n - 1] = 0
    BY <2>2, <2>6
  <2>8. QED
    BY <2>3, <2>4, <2>5, <2>7
<1>4. QED
  BY <1>1, <1>2, <1>3

LEMMA OneMore ==
  ASSUME LoginsAssumption, NEW c \in Counts, NEW d \in Counts, d = [c EXCEPT ![0] = @ + 1]
  PROVE  Within(d) = Within(c) + 1
<1>1. PICK g : Added(c, g, Window) /\ Within(c) = g[Window] /\ g[Window] \in Nat
  BY WithinIs
<1>2. PICK h : Added(d, h, Window) /\ Within(d) = h[Window] /\ h[Window] \in Nat
  BY WithinIs
<1>3. Window \in Nat /\ Window \in 0 .. Window /\ Window # 0
  BY DEF LoginsAssumption
<1> DEFINE C == {n \in 0 .. Window : n # 0 /\ h[n] # g[n] + 1}
<1>4. C = {}
  <2> SUFFICES ASSUME C # {} PROVE FALSE
    OBVIOUS
  <2>1. C \subseteq Nat
    BY <1>3
  <2>2. PICK n \in C : \A k \in C : n <= k
    BY <2>1, LeastNat, Zenon
  <2>3. n \in 0 .. Window /\ n # 0 /\ h[n] # g[n] + 1
    OBVIOUS
  <2>4. g[n] = g[n - 1] + c[n - 1] /\ h[n] = h[n - 1] + d[n - 1]
    <3>1. g[n] = g[n - 1] + c[n - 1]
      BY <1>1, <1>3, <2>3, AddedStep
    <3>2. h[n] = h[n - 1] + d[n - 1]
      BY <1>2, <1>3, <2>3, AddedStep
    <3>3. QED
      BY <3>1, <3>2
  <2>5. n - 1 \in 0 .. Window /\ n - 1 \in Ages /\ ~(n <= n - 1) /\ 0 \in 0 .. Window
    BY <1>3, <2>3 DEF Ages
  <2>6. c[n - 1] \in Nat /\ g[n - 1] \in Nat
    BY <1>1, <2>5, SumsNat DEF Counts
  <2>7. CASE n = 1
    <3>1. g[0] = 0 /\ h[0] = 0
      BY <1>1, <1>2, <1>3, <2>5, AddedStep
    <3>2. d[0] = c[0] + 1
      BY <2>5, <2>7 DEF Counts
    <3>3. QED
      BY <2>3, <2>4, <2>6, <2>7, <3>1, <3>2
  <2>8. CASE n # 1
    <3>1. n - 1 # 0
      BY <2>3, <2>8
    <3>2. d[n - 1] = c[n - 1]
      BY <2>5, <3>1 DEF Counts
    <3>3. h[n - 1] = g[n - 1] + 1
      BY <2>2, <2>5, <3>1
    <3>4. QED
      BY <2>3, <2>4, <2>6, <3>2, <3>3
  <2>9. QED
    BY <2>7, <2>8
<1>5. QED
  BY <1>1, <1>2, <1>3, <1>4

LEMMA OneOlder ==
  ASSUME LoginsAssumption, NEW c \in Counts, NEW d \in Counts,
         \A a \in Ages : d[a] = IF a = 0 THEN 0 ELSE c[a - 1]
  PROVE  Within(d) <= Within(c)
<1>1. PICK g : Added(c, g, Window) /\ Within(c) = g[Window] /\ g[Window] \in Nat
  BY WithinIs
<1>2. PICK h : Added(d, h, Window) /\ Within(d) = h[Window] /\ h[Window] \in Nat
  BY WithinIs
<1>3. Window \in Nat /\ Window \in 0 .. Window /\ Window # 0
  BY DEF LoginsAssumption
<1> DEFINE C == {n \in 0 .. Window : n # 0 /\ h[n] # g[n - 1]}
<1>4. C = {}
  <2> SUFFICES ASSUME C # {} PROVE FALSE
    OBVIOUS
  <2>1. C \subseteq Nat
    BY <1>3
  <2>2. PICK n \in C : \A k \in C : n <= k
    BY <2>1, LeastNat, Zenon
  <2>3. n \in 0 .. Window /\ n # 0 /\ h[n] # g[n - 1]
    OBVIOUS
  <2>4. h[n] = h[n - 1] + d[n - 1]
    BY <1>2, <1>3, <2>3, AddedStep
  <2>5. n - 1 \in 0 .. Window /\ n - 1 \in Ages /\ ~(n <= n - 1) /\ 0 \in 0 .. Window
    BY <1>3, <2>3 DEF Ages
  <2>6. CASE n = 1
    <3>1. g[0] = 0 /\ h[0] = 0
      BY <1>1, <1>2, <1>3, <2>5, AddedStep
    <3>2. d[0] = 0
      BY <2>5, <2>6
    <3>3. QED
      BY <2>3, <2>4, <2>6, <3>1, <3>2
  <2>7. CASE n # 1
    <3>1. n - 1 # 0
      BY <2>3, <2>7
    <3>2. d[n - 1] = c[(n - 1) - 1]
      BY <2>5, <3>1
    <3>3. h[n - 1] = g[(n - 1) - 1]
      BY <2>2, <2>5, <3>1
    <3>4. g[n - 1] = g[(n - 1) - 1] + c[(n - 1) - 1]
      BY <1>1, <1>3, <2>5, <3>1, AddedStep
    <3>5. QED
      BY <2>3, <2>4, <3>2, <3>3, <3>4
  <2>8. QED
    BY <2>6, <2>7
<1>5. h[Window] = g[Window - 1]
  BY <1>3, <1>4
<1>6. g[Window] = g[Window - 1] + c[Window - 1]
  BY <1>1, <1>3, AddedStep
<1>7. Window - 1 \in 0 .. Window /\ Window - 1 \in Ages
  BY <1>3 DEF Ages
<1>8. g[Window - 1] \in Nat /\ c[Window - 1] \in Nat
  BY <1>1, <1>7, SumsNat DEF Counts
<1>9. QED
  BY <1>1, <1>2, <1>5, <1>6, <1>8

-----------------------------------------------------------------------------
(* The limit.  A login that has passed the check and not yet recorded what   *)
(* came of it counts as an attempt.                                          *)

Stages == {"no", "check", "verify", "record", "reset", "token"}
Login == [at : Stages, who : SUBSET Accounts]
Tried(l) == {t \in Tabs : l[t].at \in {"verify", "record"}}

AttemptsInv ==
  /\ failed \in Counts /\ opened \in Nat /\ login \in [Tabs -> Login]
  /\ \A t \in Tabs : login[t].at \in {"reset", "token"} => \E u \in Accounts : login[t].who = {u}
  /\ Attempts + Cardinality(Tried(login)) <= MAX_ATTEMPTS + Cardinality(Tabs) - 1 + opened
  /\ account \subseteq Accounts

LEMMA TriedIs ==
  ASSUME LoginsAssumption, NEW l
  PROVE  /\ IsFiniteSet(Tried(l)) /\ Cardinality(Tried(l)) \in Nat
         /\ Cardinality(Tabs) \in Nat /\ Cardinality(Tried(l)) <= Cardinality(Tabs)
<1>1. Tried(l) \subseteq Tabs /\ IsFiniteSet(Tabs)
  BY DEF Tried, LoginsAssumption
<1>2. IsFiniteSet(Tried(l)) /\ Cardinality(Tried(l)) <= Cardinality(Tabs)
  BY <1>1, FS_Subset
<1>3. QED
  BY <1>1, <1>2, FS_CardinalityType

(* One login goes on. *)
LEMMA TriedGoes ==
  ASSUME LoginsAssumption, NEW l, DOMAIN l = Tabs, NEW t \in Tabs, NEW x, NEW m, m = [l EXCEPT ![t] = x]
  PROVE  /\ x.at \in {"verify", "record"} => Cardinality(Tried(m)) <= Cardinality(Tried(l)) + 1
         /\ x.at \notin {"verify", "record"} \/ l[t].at \in {"verify", "record"} =>
              Cardinality(Tried(m)) <= Cardinality(Tried(l))
         /\ x.at \notin {"verify", "record"} /\ l[t].at \in {"verify", "record"} =>
              Cardinality(Tried(m)) = Cardinality(Tried(l)) - 1
<1>1. \A u \in Tabs : m[u] = IF u = t THEN x ELSE l[u]
  OBVIOUS
<1>2. /\ IsFiniteSet(Tried(l)) /\ Cardinality(Tried(l)) \in Nat
      /\ IsFiniteSet(Tried(m)) /\ Cardinality(Tried(m)) \in Nat
  BY TriedIs
<1>3. CASE x.at \in {"verify", "record"} /\ l[t].at \notin {"verify", "record"}
  <2>1. Tried(m) = Tried(l) \union {t} /\ t \notin Tried(l)
    BY <1>1, <1>3 DEF Tried
  <2>2. Cardinality(Tried(m)) = Cardinality(Tried(l)) + 1
    BY <1>2, <2>1, FS_AddElement
  <2>3. QED
    BY <1>2, <1>3, <2>2
<1>4. CASE x.at \in {"verify", "record"} <=> l[t].at \in {"verify", "record"}
  <2>1. Tried(m) = Tried(l)
    BY <1>1, <1>4 DEF Tried
  <2>2. QED
    BY <1>2, <1>4, <2>1
<1>5. CASE x.at \notin {"verify", "record"} /\ l[t].at \in {"verify", "record"}
  <2>1. Tried(m) = Tried(l) \ {t} /\ t \in Tried(l)
    BY <1>1, <1>5 DEF Tried
  <2>2. Cardinality(Tried(m)) = Cardinality(Tried(l)) - 1
    BY <1>2, <2>1, FS_RemoveElement
  <2>3. QED
    BY <1>2, <1>5, <2>2
<1>6. QED
  BY <1>3, <1>4, <1>5

LEMMA AttemptsNat ==
  ASSUME LoginsAssumption, NEW c \in Counts
  PROVE  Within(c) \in Nat
BY WithinIs

LEMMA LimitStarts == ASSUME LoginsAssumption, LoginsInit PROVE AttemptsInv
<1>1. NoLogin \in Login /\ NoLogin.at = "no"
  BY DEF NoLogin, Login, Stages
<1>2. login \in [Tabs -> Login] /\ \A t \in Tabs : login[t].at = "no"
  BY <1>1 DEF LoginsInit
<1>3. failed \in Counts /\ \A a \in Ages : failed[a] = 0
  BY DEF LoginsInit, Counts
<1>4. Attempts = 0
  BY <1>3, NoAttempts DEF Attempts
<1>5. Tried(login) = {}
  BY <1>2 DEF Tried
<1>6. Cardinality(Tried(login)) = 0
  BY <1>5, FS_EmptySet
<1>7. MAX_ATTEMPTS \in Nat /\ MAX_ATTEMPTS >= 1 /\ Cardinality(Tabs) \in Nat
  BY TriedIs DEF LoginsAssumption
<1>8. opened = 0 /\ account \subseteq Accounts
  BY DEF LoginsInit
<1>9. QED
  BY <1>2, <1>3, <1>4, <1>6, <1>7, <1>8 DEF AttemptsInv

(* A step with which neither attempts nor logins grow in number. *)
LEMMA LimitStays ==
  ASSUME LoginsAssumption, AttemptsInv, opened' = opened, failed' = failed,
         account' \subseteq Accounts, login' = login
  PROVE  AttemptsInv'
BY DEF AttemptsInv, Attempts

LEMMA LoginSteps ==
  ASSUME LoginsAssumption, AttemptsInv, NEW t \in Tabs, NEW x \in Login,
         login' = [login EXCEPT ![t] = x],
         x.at \in {"reset", "token"} => \E u \in Accounts : x.who = {u},
         account' = account, failed' \in Counts, opened' \in Nat,
         Attempts' + Cardinality(Tried(login')) <= MAX_ATTEMPTS + Cardinality(Tabs) - 1 + opened'
  PROVE  AttemptsInv'
<1>1. login' \in [Tabs -> Login] /\ \A u \in Tabs : login'[u] = IF u = t THEN x ELSE login[u]
  BY DEF AttemptsInv
<1>2. QED
  BY <1>1 DEF AttemptsInv

LEMMA AttemptsStep ==
  ASSUME LoginsAssumption, AttemptsInv, [LoginsNext]_loginVars
  PROVE  AttemptsInv'
<1>1. /\ MAX_ATTEMPTS \in Nat /\ MAX_ATTEMPTS >= 1 /\ opened \in Nat
      /\ failed \in Counts /\ Attempts = Within(failed) /\ Attempts' = Within(failed')
      /\ Attempts \in Nat /\ DOMAIN login = Tabs
  BY AttemptsNat DEF LoginsAssumption, AttemptsInv, Attempts
<1>2. /\ Cardinality(Tabs) \in Nat
      /\ Cardinality(Tried(login)) \in Nat /\ Cardinality(Tried(login)) <= Cardinality(Tabs)
      /\ Cardinality(Tried(login')) \in Nat /\ Cardinality(Tried(login')) <= Cardinality(Tabs)
  BY TriedIs
<1>3. Attempts + Cardinality(Tried(login)) <= MAX_ATTEMPTS + Cardinality(Tabs) - 1 + opened
  BY DEF AttemptsInv
<1>4. CASE UNCHANGED loginVars
  BY <1>4, LimitStays DEF loginVars, AttemptsInv
<1>5. CASE Tick
  <2>1. /\ failed' \in Counts /\ \A a \in Ages : failed'[a] = IF a = 0 THEN 0 ELSE failed[a - 1]
        /\ UNCHANGED <<opened, login, account>>
    <3>1. \A a \in Ages : a # 0 => a - 1 \in Ages
      BY DEF Ages, LoginsAssumption
    <3>2. QED
      BY <1>1, <1>5, <3>1 DEF Tick, Counts
  <2>2. Attempts' <= Attempts /\ Attempts' \in Nat
    BY <1>1, <2>1, OneOlder, AttemptsNat
  <2>3. Attempts' + Cardinality(Tried(login')) <= MAX_ATTEMPTS + Cardinality(Tabs) - 1 + opened'
    BY <1>1, <1>2, <1>3, <2>1, <2>2
  <2>4. QED
    BY <2>1, <2>3 DEF AttemptsInv
<1>6. ASSUME NEW t \in Tabs, HandleLogin(t) PROVE AttemptsInv'
  <2> DEFINE x == [login[t] EXCEPT !.at = "check"]
  <2>1. x \in Login /\ x.at = "check"
    BY DEF AttemptsInv, Login, Stages
  <2>2. login' = [login EXCEPT ![t] = x] /\ UNCHANGED <<failed, opened, account>>
    BY <1>6 DEF HandleLogin, AttemptsInv
  <2> HIDE DEF x
  <2>3. Cardinality(Tried(login')) <= Cardinality(Tried(login))
    BY <1>1, <2>1, <2>2, TriedGoes
  <2>4. Attempts' = Attempts
    BY <2>2 DEF Attempts
  <2>5. Attempts' + Cardinality(Tried(login')) <= MAX_ATTEMPTS + Cardinality(Tabs) - 1 + opened'
    BY <1>1, <1>2, <1>3, <2>2, <2>3, <2>4
  <2>6. QED
    BY <1>1, <2>1, <2>2, <2>5, LoginSteps
<1>7. ASSUME NEW t \in Tabs, CheckRateLimit(t) PROVE AttemptsInv'
  <2>1. PICK at \in {"verify", "no"} :
          /\ login' = [login EXCEPT ![t] = [at |-> at, who |-> {}]]
          /\ \/ opened' = opened /\ (at = "verify" => Attempts < MAX_ATTEMPTS)
             \/ opened' = opened + 1
    BY <1>7 DEF CheckRateLimit, Steps
  <2> DEFINE x == [at |-> at, who |-> {}]
  <2>2. x \in Login /\ x.at = at
    BY DEF Login, Stages
  <2> HIDE DEF x
  <2>3. UNCHANGED <<failed, account>> /\ opened' \in Nat /\ opened' >= opened
    BY <1>1, <1>7, <2>1 DEF CheckRateLimit
  <2>4. Attempts' = Attempts
    BY <2>3 DEF Attempts
  <2>5. login' = [login EXCEPT ![t] = x]
    BY <2>1 DEF x
  <2>6. Attempts' + Cardinality(Tried(login')) <= MAX_ATTEMPTS + Cardinality(Tabs) - 1 + opened'
    <3>1. CASE at = "no"
      <4>1. Cardinality(Tried(login')) <= Cardinality(Tried(login))
        BY <1>1, <2>2, <2>5, <3>1, TriedGoes
      <4>2. QED
        BY <1>1, <1>2, <1>3, <2>3, <2>4, <4>1
    <3>2. CASE at = "verify" /\ opened' = opened /\ Attempts < MAX_ATTEMPTS
      BY <1>1, <1>2, <2>4, <3>2
    <3>3. CASE at = "verify" /\ opened' = opened + 1
      <4>1. Cardinality(Tried(login')) <= Cardinality(Tried(login)) + 1
        BY <1>1, <2>2, <2>5, <3>3, TriedGoes
      <4>2. QED
        BY <1>1, <1>2, <1>3, <2>4, <3>3, <4>1
    <3>4. QED
      BY <2>1, <3>1, <3>2, <3>3
  <2>7. QED
    BY <2>2, <2>3, <2>5, <2>6, <1>1, LoginSteps
<1>8. ASSUME NEW t \in Tabs, Verify(t) PROVE AttemptsInv'
  <2>1. PICK x : /\ login' = [login EXCEPT ![t] = x]
                 /\ \/ x = [at |-> "record", who |-> {}]
                    \/ \E u \in account : x = [at |-> "reset", who |-> {u}]
    BY <1>8 DEF Verify, Steps
  <2>2. x \in Login /\ (x.at \in {"reset", "token"} => \E u \in Accounts : x.who = {u})
    BY <2>1 DEF Login, Stages, AttemptsInv
  <2>3. UNCHANGED <<failed, opened, account>> /\ login[t].at = "verify"
    BY <1>8 DEF Verify
  <2>4. Cardinality(Tried(login')) <= Cardinality(Tried(login))
    BY <1>1, <2>1, <2>3, TriedGoes
  <2>5. Attempts' = Attempts
    BY <2>3 DEF Attempts
  <2>6. Attempts' + Cardinality(Tried(login')) <= MAX_ATTEMPTS + Cardinality(Tabs) - 1 + opened'
    BY <1>1, <1>2, <1>3, <2>3, <2>4, <2>5
  <2>7. QED
    BY <1>1, <2>1, <2>2, <2>3, <2>6, LoginSteps
<1>9. ASSUME NEW t \in Tabs, RecordFailedLogin(t) PROVE AttemptsInv'
  <2> DEFINE x == [at |-> "no", who |-> {}]
  <2>1. x \in Login /\ x.at = "no"
    BY DEF Login, Stages
  <2> HIDE DEF x
  <2>2. /\ login' = [login EXCEPT ![t] = x] /\ UNCHANGED <<opened, account>>
        /\ login[t].at = "record"
    BY <1>9 DEF RecordFailedLogin, Steps, x
  <2>3. Cardinality(Tried(login')) = Cardinality(Tried(login)) - 1
    BY <1>1, <2>1, <2>2, TriedGoes
  <2>4. failed' \in Counts /\ Attempts' \in Nat /\ Attempts' <= Attempts + 1
    <3>1. CASE failed' = failed
      BY <1>1, <3>1
    <3>2. CASE failed' = [failed EXCEPT ![0] = @ + 1]
      <4>1. failed' \in Counts
        <5>1. failed[0] + 1 \in Nat
          <6>1. 0 \in Ages
            BY DEF Ages, LoginsAssumption
          <6>2. QED
            BY <1>1, <6>1 DEF Counts
        <5>2. QED
          BY <1>1, <3>2, <5>1 DEF Counts
      <4>2. Within(failed') = Within(failed) + 1
        BY <1>1, <3>2, <4>1, OneMore
      <4>3. QED
        BY <1>1, <4>1, <4>2
    <3>3. QED
      BY <1>9, <3>1, <3>2 DEF RecordFailedLogin
  <2>5. Attempts' + Cardinality(Tried(login')) <= MAX_ATTEMPTS + Cardinality(Tabs) - 1 + opened'
    BY <1>1, <1>2, <1>3, <2>2, <2>3, <2>4
  <2>6. QED
    BY <1>1, <2>1, <2>2, <2>4, <2>5, LoginSteps
<1>10. ASSUME NEW t \in Tabs, ResetRateLimit(t) PROVE AttemptsInv'
  <2> DEFINE x == [at |-> "token", who |-> login[t].who]
  <2>1. /\ login' = [login EXCEPT ![t] = x] /\ UNCHANGED <<opened, account>>
        /\ login[t].at = "reset"
    BY <1>10 DEF ResetRateLimit, Steps
  <2>2. x \in Login /\ x.at = "token" /\ x.who = login[t].who
    BY DEF AttemptsInv, Login, Stages
  <2> HIDE DEF x
  <2>3. Cardinality(Tried(login')) <= Cardinality(Tried(login))
    BY <1>1, <2>1, <2>2, TriedGoes
  <2>4. failed' \in Counts /\ Attempts' \in Nat /\ Attempts' <= Attempts
    <3>1. CASE failed' = failed
      BY <1>1, <3>1
    <3>2. CASE failed' = [a \in Ages |-> 0]
      <4>1. failed' \in Counts /\ \A a \in Ages : failed'[a] = 0
        BY <3>2 DEF Counts
      <4>2. Within(failed') = 0
        BY <4>1, NoAttempts
      <4>3. QED
        BY <1>1, <4>1, <4>2
    <3>3. QED
      BY <1>10, <3>1, <3>2 DEF ResetRateLimit
  <2>5. Attempts' + Cardinality(Tried(login')) <= MAX_ATTEMPTS + Cardinality(Tabs) - 1 + opened'
    BY <1>1, <1>2, <1>3, <2>1, <2>3, <2>4
  <2>6. \E u \in Accounts : x.who = {u}
    BY <2>1, <2>2 DEF AttemptsInv
  <2>7. QED
    BY <1>1, <2>1, <2>2, <2>4, <2>5, <2>6, LoginSteps
<1>11. ASSUME NEW t \in Tabs, LoggedIn(t) PROVE AttemptsInv'
  <2>1. NoLogin \in Login /\ NoLogin.at = "no"
    BY DEF NoLogin, Login, Stages
  <2>2. login' = [login EXCEPT ![t] = NoLogin] /\ UNCHANGED <<failed, opened, account>>
    BY <1>11 DEF LoggedIn
  <2>3. Cardinality(Tried(login')) <= Cardinality(Tried(login))
    BY <1>1, <2>1, <2>2, TriedGoes
  <2>4. Attempts' = Attempts
    BY <2>2 DEF Attempts
  <2>5. Attempts' + Cardinality(Tried(login')) <= MAX_ATTEMPTS + Cardinality(Tabs) - 1 + opened'
    BY <1>1, <1>2, <1>3, <2>2, <2>3, <2>4
  <2>6. QED
    BY <1>1, <2>1, <2>2, <2>5, LoginSteps
<1>12. CASE \/ Expire \/ DeleteUser
            \/ \E t \in Tabs : \/ Logout(t) \/ Visit(t) \/ Middleware(t) \/ Me(t)
                               \/ MeFails(t) \/ RefreshUser(t)
  <2>1. UNCHANGED <<failed, opened, login>> /\ account' \subseteq account
    BY <1>12 DEF Expire, DeleteUser, Logout, Visit, Middleware, Me, MeFails, RefreshUser
  <2>2. QED
    BY <2>1, LimitStays DEF AttemptsInv
<1>13. QED
  BY <1>4, <1>5, <1>6, <1>7, <1>8, <1>9, <1>10, <1>11, <1>12 DEF LoginsNext

-----------------------------------------------------------------------------
(* Where the tabs are.                                                       *)

Paths == {"/", "/login", "/super"}
Place == [path : Paths, waits : {"middleware", "me", "user", "blank"}, hops : 0 .. 3, saw : SUBSET Accounts]

(* How many redirects a tab may still meet, with cookie c.                   *)
Owes(c, k, p, w) ==
  IF w \in {"user", "blank"} THEN 0
  ELSE IF c = {} THEN IF p = "/login" THEN 0 ELSE IF w = "me" /\ p = "/super" THEN 2 ELSE 1
  ELSE IF p = (IF k THEN Home(c) ELSE "/login") THEN 0 ELSE 1

Rested(x, k) == IF x.path = "/login" THEN k => x.saw = {} ELSE x.path = Home(x.saw) /\ x.saw # {}

(* A tab with place x, if the cookie is c, tokens verify at both ends iff k, *)
(* and the user of the token is sound iff s.                                 *)
Placed(x, c, k, s) ==
  /\ x \in Place
  /\ x.waits = "me" => k /\ x.path # "/login"
  /\ x.waits = "user" => Rested(x, k) /\ (x.path # "/login" => k)
  /\ s => x.hops + Owes(c, k, x.path, x.waits) <= IF c = {} THEN 2 ELSE 1

PlaceInv ==
  /\ keyed \in BOOLEAN /\ (cookie = {} \/ \E u \in Accounts : cookie = {u})
  /\ tab = [t \in Tabs |-> tab[t]]
  /\ \A t \in Tabs : Placed(tab[t], cookie, keyed, Sound)

LEMMA OwesIs ==
  ASSUME NEW c, NEW k \in BOOLEAN, NEW p, NEW w
  PROVE  Owes(c, k, p, w) \in 0 .. 2 /\ (c # {} => Owes(c, k, p, w) \in 0 .. 1)
BY DEF Owes

(* Whoever acts lets every tab begin to count its redirects again. *)
LEMMA Anew ==
  ASSUME NEW x, NEW c, NEW k \in BOOLEAN, NEW s, Placed(x, c, k, s), NEW d, NEW r
  PROVE  Placed([x EXCEPT !.hops = 0], d, k, r)
<1> DEFINE y == [x EXCEPT !.hops = 0]
<1>1. y \in Place /\ y.hops = 0 /\ y.path = x.path /\ y.waits = x.waits /\ y.saw = x.saw
  BY DEF Placed, Place
<1> HIDE DEF y
<1>2. y.hops + Owes(d, k, y.path, y.waits) <= IF d = {} THEN 2 ELSE 1
  <2>1. Owes(d, k, y.path, y.waits) \in 0 .. 2 /\ (d # {} => Owes(d, k, y.path, y.waits) \in 0 .. 1)
    BY OwesIs
  <2>2. QED
    BY <1>1, <2>1
<1>3. QED
  BY <1>1, <1>2 DEF Placed, Rested, y

LEMMA OpensAt ==
  ASSUME NEW p \in Paths, NEW c, NEW k \in BOOLEAN, NEW s
  PROVE  Placed([path |-> p, waits |-> "middleware", hops |-> 0, saw |-> {}], c, k, s)
<1> DEFINE y == [path |-> p, waits |-> "middleware", hops |-> 0, saw |-> {}]
<1>1. y \in Place /\ y.hops = 0 /\ y.path = p /\ y.waits = "middleware"
  BY DEF Place
<1> HIDE DEF y
<1>2. y.hops + Owes(c, k, y.path, y.waits) <= IF c = {} THEN 2 ELSE 1
  <2>1. Owes(c, k, y.path, y.waits) \in 0 .. 2 /\ (c # {} => Owes(c, k, y.path, y.waits) \in 0 .. 1)
    BY OwesIs
  <2>2. QED
    BY <1>1, <2>1
<1>3. QED
  BY <1>1, <1>2 DEF Placed, y

LEMMA PlaceStarts == ASSUME LoginsInit PROVE PlaceInv
<1>1. ASSUME NEW t \in Tabs PROVE Placed(tab[t], {}, keyed, Sound)
  <2> DEFINE x == [path |-> "/login", waits |-> "user", hops |-> 0, saw |-> {}]
  <2>1. x \in Place /\ x.path = "/login" /\ x.waits = "user" /\ x.hops = 0 /\ x.saw = {}
    BY DEF Place, Paths
  <2>2. tab[t] = x
    BY DEF LoginsInit
  <2> HIDE DEF x
  <2>3. QED
    BY <2>1, <2>2 DEF Placed, Rested, Owes
<1>2. QED
  BY <1>1 DEF LoginsInit, PlaceInv

(* One tab goes to another place. *)
LEMMA PlaceGoes ==
  ASSUME PlaceInv, NEW t \in Tabs, NEW x, tab' = [tab EXCEPT ![t] = x],
         Placed(x, cookie, keyed, Sound), UNCHANGED <<account, cookie, keyed>>
  PROVE  PlaceInv'
<1>1. Sound' = Sound
  BY DEF Sound
<1>2. \A u \in Tabs : tab'[u] = IF u = t THEN x ELSE tab[u]
  BY DEF PlaceInv
<1>3. QED
  BY <1>1, <1>2 DEF PlaceInv

LEMMA PlaceStays ==
  ASSUME PlaceInv, UNCHANGED <<account, cookie, keyed, tab>>
  PROVE  PlaceInv'
BY DEF PlaceInv, Sound

(* A redirect that the tab owed. *)
LEMMA Redirected ==
  ASSUME PlaceInv, NEW t \in Tabs, NEW p \in Paths, Redirects(t, p),
         UNCHANGED <<account, cookie, keyed>>,
         Sound => Owes(cookie, keyed, p, "middleware") + 1
                    <= Owes(cookie, keyed, tab[t].path, tab[t].waits)
  PROVE  PlaceInv'
<1>1. Placed(tab[t], cookie, keyed, Sound) /\ keyed \in BOOLEAN
  BY DEF PlaceInv
<1>2. PICK h \in 0 .. 3 : h = tab[t].hops
  BY <1>1 DEF Placed, Place
<1>3. More(h) \in 0 .. 3 /\ More(h) <= h + 1
  BY DEF More
<1> DEFINE x == [path |-> p, waits |-> "middleware", hops |-> More(h), saw |-> {}]
<1>4. tab' = [tab EXCEPT ![t] = x]
  BY <1>2 DEF Redirects, PlaceInv
<1>5. x \in Place /\ x.path = p /\ x.waits = "middleware" /\ x.hops = More(h)
  BY <1>3 DEF Place
<1> HIDE DEF x
<1>6. ASSUME Sound PROVE More(h) + Owes(cookie, keyed, p, "middleware") <= IF cookie = {} THEN 2 ELSE 1
  <2>1. h + Owes(cookie, keyed, tab[t].path, tab[t].waits) <= IF cookie = {} THEN 2 ELSE 1
    BY <1>1, <1>2, <1>6 DEF Placed
  <2>2. Owes(cookie, keyed, tab[t].path, tab[t].waits) \in 0 .. 2 /\ Owes(cookie, keyed, p, "middleware") \in 0 .. 2
    BY <1>1, OwesIs
  <2>3. QED
    BY <1>3, <1>6, <2>1, <2>2
<1>7. Placed(x, cookie, keyed, Sound)
  BY <1>5, <1>6 DEF Placed
<1>8. QED
  BY <1>4, <1>7, PlaceGoes

(* A tab comes to rest where it belongs. *)
LEMMA Rest ==
  ASSUME PlaceInv, NEW t \in Tabs, Rests(t), UNCHANGED <<account, cookie, keyed>>,
         IF tab[t].path = "/login" THEN keyed => cookie = {}
         ELSE tab[t].path = Home(cookie) /\ cookie # {} /\ keyed
  PROVE  PlaceInv'
<1>1. Placed(tab[t], cookie, keyed, Sound) /\ cookie \in SUBSET Accounts
  BY DEF PlaceInv
<1> DEFINE x == [tab[t] EXCEPT !.waits = "user", !.saw = cookie]
<1>2. tab' = [tab EXCEPT ![t] = x]
  BY DEF Rests, PlaceInv
<1>3. /\ x \in Place /\ x.path = tab[t].path /\ x.waits = "user" /\ x.hops = tab[t].hops
      /\ x.saw = cookie
  BY <1>1 DEF Placed, Place
<1> HIDE DEF x
<1>4. ASSUME Sound PROVE x.hops + Owes(cookie, keyed, x.path, x.waits) <= IF cookie = {} THEN 2 ELSE 1
  <2>1. tab[t].hops + Owes(cookie, keyed, tab[t].path, tab[t].waits) <= IF cookie = {} THEN 2 ELSE 1
    BY <1>1, <1>4 DEF Placed
  <2>2. Owes(cookie, keyed, tab[t].path, tab[t].waits) \in 0 .. 2 /\ tab[t].hops \in 0 .. 3
    BY <1>1, OwesIs DEF PlaceInv, Placed, Place
  <2>3. Owes(cookie, keyed, x.path, x.waits) = 0
    BY <1>3 DEF Owes
  <2>4. QED
    BY <1>3, <2>1, <2>2, <2>3
<1>5. Placed(x, cookie, keyed, Sound)
  BY <1>3, <1>4 DEF Placed, Rested
<1>6. QED
  BY <1>2, <1>5, PlaceGoes

(* The cookie, and whose it is. *)
LEMMA CookieIs ==
  ASSUME LoginsAssumption, PlaceInv
  PROVE  /\ \A S : Is(cookie, S) <=> \E u \in S : cookie = {u}
         /\ Sound /\ cookie # {} /\ ~Is(cookie, SuperAccounts) => Is(cookie, OrgAccounts)
         /\ Is(cookie, OrgAccounts) => ~Is(cookie, SuperAccounts)
         /\ Home(cookie) \in {"/", "/super"}
         /\ Home(cookie) = "/super" <=> Is(cookie, SuperAccounts)
<1>1. cookie = {} \/ \E u \in Accounts : cookie = {u}
  BY DEF PlaceInv
<1>2. \A S : Is(cookie, S) <=> \E u \in S : cookie = {u}
  BY <1>1 DEF Is
<1>3. Home(cookie) \in {"/", "/super"} /\ (Home(cookie) = "/super" <=> Is(cookie, SuperAccounts))
  BY DEF Home
<1>4. Sound /\ cookie # {} /\ ~Is(cookie, SuperAccounts) => Is(cookie, OrgAccounts)
  BY <1>1 DEF Sound, Is
<1>5. Is(cookie, OrgAccounts) => ~Is(cookie, SuperAccounts)
  BY <1>1 DEF Is, LoginsAssumption
<1>6. QED
  BY <1>2, <1>3, <1>4, <1>5

LEMMA PlaceMiddleware ==
  ASSUME LoginsAssumption, PlaceInv, NEW t \in Tabs, Middleware(t)
  PROVE  PlaceInv'
<1> DEFINE p == tab[t].path
           user == IF keyed THEN cookie ELSE {}
<1>1. /\ Placed(tab[t], cookie, keyed, Sound) /\ keyed \in BOOLEAN /\ p \in Paths
      /\ UNCHANGED <<account, cookie, keyed>> /\ tab[t].waits = "middleware"
  BY DEF PlaceInv, Placed, Place, Middleware
<1>2. \/ p # "/login" /\ user = {} /\ Redirects(t, "/login")
      \/ p = "/login" /\ user # {} /\ Redirects(t, Home(user))
      \/ p = "/super" /\ user # {} /\ ~Is(user, SuperAccounts) /\ Redirects(t, "/")
      \/ p = "/" /\ Is(user, SuperAccounts) /\ Redirects(t, "/super")
      \/ p = "/" /\ user # {} /\ ~Is(user, SuperAccounts \union OrgAccounts) /\ Redirects(t, "/login")
      \/ p = "/login" /\ user = {} /\ Rests(t)
      \/ /\ ~(p # "/login" /\ user = {}) /\ ~(p = "/login" /\ user # {})
         /\ ~(p = "/super" /\ user # {} /\ ~Is(user, SuperAccounts))
         /\ ~(p = "/" /\ Is(user, SuperAccounts))
         /\ ~(p = "/" /\ user # {} /\ ~Is(user, SuperAccounts \union OrgAccounts))
         /\ ~(p = "/login" /\ user = {})
         /\ tab' = [tab EXCEPT ![t].waits = "me"]
  BY DEF Middleware
<1>3. user # {} => keyed /\ user = cookie
  OBVIOUS
<1>4. user = {} => cookie = {} \/ ~keyed
  OBVIOUS
<1> HIDE DEF p, user
<1>5. tab[t].path = p
  BY DEF p
<1>6. CASE p # "/login" /\ user = {} /\ Redirects(t, "/login")
  <2>1. Owes(cookie, keyed, "/login", "middleware") + 1 <= Owes(cookie, keyed, p, "middleware")
    BY <1>4, <1>6 DEF Owes
  <2>2. QED
    BY <1>1, <1>5, <1>6, <2>1, Redirected DEF Paths
<1>7. CASE p = "/login" /\ user # {} /\ Redirects(t, Home(user))
  <2>1. Owes(cookie, keyed, Home(cookie), "middleware") + 1 <= Owes(cookie, keyed, p, "middleware")
    BY <1>3, <1>7, CookieIs DEF Owes
  <2>2. Home(cookie) \in Paths
    BY CookieIs DEF Paths
  <2>3. QED
    BY <1>1, <1>3, <1>5, <1>7, <2>1, <2>2, Redirected
<1>8. CASE p = "/super" /\ user # {} /\ ~Is(user, SuperAccounts) /\ Redirects(t, "/")
  <2>1. Owes(cookie, keyed, "/", "middleware") + 1 <= Owes(cookie, keyed, p, "middleware")
    BY <1>3, <1>8, CookieIs DEF Owes
  <2>2. QED
    BY <1>1, <1>5, <1>8, <2>1, Redirected DEF Paths
<1>9. CASE p = "/" /\ Is(user, SuperAccounts) /\ Redirects(t, "/super")
  <2>1. user # {}
    BY <1>9 DEF Is
  <2>2. Owes(cookie, keyed, "/super", "middleware") + 1 <= Owes(cookie, keyed, p, "middleware")
    BY <1>3, <1>9, <2>1, CookieIs DEF Owes
  <2>3. QED
    BY <1>1, <1>5, <1>9, <2>2, Redirected DEF Paths
<1>10. CASE /\ p = "/" /\ user # {} /\ ~Is(user, SuperAccounts \union OrgAccounts)
            /\ Redirects(t, "/login")
  <2>1. ~Sound
    BY <1>3, <1>10 DEF Sound, Is
  <2>2. QED
    BY <1>1, <1>5, <1>10, <2>1, Redirected DEF Paths
<1>11. CASE p = "/login" /\ user = {} /\ Rests(t)
  BY <1>1, <1>4, <1>5, <1>11, Rest
<1>12. CASE /\ ~(p # "/login" /\ user = {}) /\ ~(p = "/login" /\ user # {})
            /\ ~(p = "/super" /\ user # {} /\ ~Is(user, SuperAccounts))
            /\ ~(p = "/" /\ Is(user, SuperAccounts))
            /\ ~(p = "/" /\ user # {} /\ ~Is(user, SuperAccounts \union OrgAccounts))
            /\ ~(p = "/login" /\ user = {})
            /\ tab' = [tab EXCEPT ![t].waits = "me"]
  <2>1. p # "/login" /\ keyed /\ user = cookie /\ cookie # {}
    BY <1>3, <1>12
  <2>2. p = Home(cookie)
    BY <1>1, <1>5, <1>12, <2>1, CookieIs DEF Paths
  <2> DEFINE x == [tab[t] EXCEPT !.waits = "me"]
  <2>3. tab' = [tab EXCEPT ![t] = x]
    BY <1>12 DEF PlaceInv
  <2>4. x \in Place /\ x.path = p /\ x.waits = "me" /\ x.hops = tab[t].hops
    BY <1>1, <1>5 DEF Placed, Place
  <2> HIDE DEF x
  <2>5. Owes(cookie, keyed, p, "me") = 0 /\ Owes(cookie, keyed, p, "middleware") = 0
    BY <2>1, <2>2 DEF Owes
  <2>6. Placed(x, cookie, keyed, Sound)
    BY <1>1, <1>5, <2>1, <2>4, <2>5 DEF Placed
  <2>7. QED
    BY <1>1, <2>3, <2>6, PlaceGoes
<1>13. QED
  BY <1>2, <1>6, <1>7, <1>8, <1>9, <1>10, <1>11, <1>12

LEMMA PlaceMe ==
  ASSUME LoginsAssumption, PlaceInv, NEW t \in Tabs, Me(t)
  PROVE  PlaceInv'
<1> DEFINE p == tab[t].path
           user == cookie \intersect account
<1>1. /\ Placed(tab[t], cookie, keyed, Sound) /\ p \in Paths /\ keyed /\ p # "/login"
      /\ UNCHANGED <<account, cookie, keyed>> /\ tab[t].waits = "me"
  BY DEF PlaceInv, Placed, Place, Me
<1>2. \/ p = "/" /\ user = {} /\ Redirects(t, "/login")
      \/ p = "/" /\ Is(user, SuperAccounts) /\ Redirects(t, "/super")
      \/ p = "/super" /\ ~Is(user, SuperAccounts) /\ Redirects(t, "/")
      \/ /\ ~(p = "/" /\ user = {}) /\ ~(p = "/" /\ Is(user, SuperAccounts))
         /\ ~(p = "/super" /\ ~Is(user, SuperAccounts)) /\ Rests(t)
  BY DEF Me
<1>3. Sound => user = cookie
  BY DEF Sound
<1>4. user # {} => user = cookie /\ cookie # {}
  BY DEF PlaceInv
<1> HIDE DEF p, user
<1>5. tab[t].path = p
  BY DEF p
<1>6. CASE p = "/" /\ user = {} /\ Redirects(t, "/login")
  <2>1. Sound => Owes(cookie, keyed, "/login", "middleware") + 1 <= Owes(cookie, keyed, p, "me")
    BY <1>3, <1>6 DEF Owes
  <2>2. QED
    BY <1>1, <1>5, <1>6, <2>1, Redirected DEF Paths
<1>7. CASE p = "/" /\ Is(user, SuperAccounts) /\ Redirects(t, "/super")
  <2>1. user # {}
    BY <1>7 DEF Is
  <2>2. Owes(cookie, keyed, "/super", "middleware") + 1 <= Owes(cookie, keyed, p, "me")
    BY <1>1, <1>4, <1>7, <2>1, CookieIs DEF Owes
  <2>3. QED
    BY <1>1, <1>5, <1>7, <2>2, Redirected DEF Paths
<1>8. CASE p = "/super" /\ ~Is(user, SuperAccounts) /\ Redirects(t, "/")
  <2>1. ASSUME Sound PROVE Owes(cookie, keyed, "/", "middleware") + 1 <= Owes(cookie, keyed, p, "me")
    <3>1. user = cookie
      BY <1>3, <2>1
    <3>2. CASE cookie = {}
      BY <1>8, <3>2 DEF Owes
    <3>3. CASE cookie # {}
      BY <1>1, <1>8, <3>1, <3>3, CookieIs DEF Owes
    <3>4. QED
      BY <3>2, <3>3
  <2>2. QED
    BY <1>1, <1>5, <1>8, <2>1, Redirected DEF Paths
<1>9. CASE /\ ~(p = "/" /\ user = {}) /\ ~(p = "/" /\ Is(user, SuperAccounts))
           /\ ~(p = "/super" /\ ~Is(user, SuperAccounts)) /\ Rests(t)
  <2>1. user # {}
    BY <1>1, <1>9 DEF Paths, Is
  <2>2. p = Home(cookie) /\ cookie # {}
    BY <1>1, <1>4, <1>9, <2>1, CookieIs DEF Paths
  <2>3. QED
    BY <1>1, <1>5, <1>9, <2>2, Rest
<1>10. QED
  BY <1>2, <1>6, <1>7, <1>8, <1>9

(* The call fails, or is made again: the count begins anew. *)
LEMMA PlaceAsks ==
  ASSUME PlaceInv, NEW t \in Tabs, MeFails(t) \/ RefreshUser(t)
  PROVE  PlaceInv'
<1>1. /\ Placed(tab[t], cookie, keyed, Sound) /\ keyed \in BOOLEAN /\ tab[t] \in Place
      /\ UNCHANGED <<account, cookie, keyed>>
  BY DEF PlaceInv, Placed, MeFails, RefreshUser
<1>2. ASSUME NEW x, tab' = [tab EXCEPT ![t] = x], Placed(x, cookie, keyed, Sound)
      PROVE  PlaceInv'
  BY <1>1, <1>2, PlaceGoes
<1>3. CASE MeFails(t) /\ tab[t].path = "/"
  <2> DEFINE x == [path |-> "/login", waits |-> "middleware", hops |-> 0, saw |-> {}]
  <2>1. tab' = [tab EXCEPT ![t] = x]
    BY <1>3 DEF MeFails, Opens
  <2>2. Placed(x, cookie, keyed, Sound)
    BY <1>1, OpensAt DEF Paths
  <2>3. QED
    BY <1>2, <2>1, <2>2
<1>4. CASE MeFails(t) /\ tab[t].path # "/"
  <2> DEFINE x == [tab[t] EXCEPT !.waits = "blank"]
  <2>1. tab' = [tab EXCEPT ![t] = x]
    BY <1>4 DEF MeFails, PlaceInv
  <2>2. x \in Place /\ x.waits = "blank" /\ x.hops = tab[t].hops
    BY <1>1 DEF Place
  <2> HIDE DEF x
  <2>3. Owes(cookie, keyed, x.path, x.waits) = 0
    BY <2>2 DEF Owes
  <2>4. Sound => tab[t].hops + Owes(cookie, keyed, tab[t].path, tab[t].waits)
                   <= IF cookie = {} THEN 2 ELSE 1
    BY <1>1 DEF Placed
  <2>5. Owes(cookie, keyed, tab[t].path, tab[t].waits) \in 0 .. 2 /\ tab[t].hops \in 0 .. 3
    BY <1>1, OwesIs DEF Place
  <2>6. Sound => x.hops + Owes(cookie, keyed, x.path, x.waits) <= IF cookie = {} THEN 2 ELSE 1
    BY <2>2, <2>3, <2>4, <2>5
  <2>7. Placed(x, cookie, keyed, Sound)
    BY <2>2, <2>6 DEF Placed
  <2>8. QED
    BY <1>2, <2>1, <2>7
<1>5. CASE RefreshUser(t)
  <2> DEFINE x == [path |-> "/", waits |-> "me", hops |-> 0, saw |-> {}]
  <2>1. tab' = [tab EXCEPT ![t] = x] /\ keyed
    BY <1>1, <1>5 DEF RefreshUser, Placed
  <2>2. x \in Place /\ x.waits = "me" /\ x.hops = 0 /\ x.path = "/"
    BY DEF Place, Paths
  <2> HIDE DEF x
  <2>3. x.hops + Owes(cookie, keyed, x.path, x.waits) <= IF cookie = {} THEN 2 ELSE 1
    <3>1. /\ Owes(cookie, keyed, x.path, x.waits) \in 0 .. 2
          /\ cookie # {} => Owes(cookie, keyed, x.path, x.waits) \in 0 .. 1
      BY <1>1, OwesIs
    <3>2. QED
      BY <2>2, <3>1
  <2>4. Placed(x, cookie, keyed, Sound)
    BY <2>1, <2>2, <2>3 DEF Placed
  <2>5. QED
    BY <1>2, <2>1, <2>4
<1>6. QED
  BY <1>3, <1>4, <1>5

(* The cookie changes. *)
LEMMA PlaceCookie ==
  ASSUME PlaceInv, NEW c, c = {} \/ \E u \in Accounts : c = {u}, NEW tabs,
         \A t \in Tabs : \E s : Placed(tabs[t], cookie, keyed, s), SetCookie(c, tabs), keyed' = keyed
  PROVE  PlaceInv'
<1>1. \A t \in Tabs : tab'[t] = [tabs[t] EXCEPT !.hops = 0]
  BY DEF SetCookie
<1>2. keyed \in BOOLEAN /\ cookie' = c /\ tab' = [t \in Tabs |-> tab'[t]]
  BY DEF PlaceInv, SetCookie
<1>3. ASSUME NEW t \in Tabs, NEW r PROVE Placed(tab'[t], c, keyed, r)
  <2>1. PICK s : Placed(tabs[t], cookie, keyed, s)
    OBVIOUS
  <2>2. QED
    BY <1>1, <1>2, <2>1, Anew
<1>4. QED
  BY <1>2, <1>3 DEF PlaceInv

LEMMA PlaceStep ==
  ASSUME LoginsAssumption, AttemptsInv, PlaceInv, [LoginsNext]_loginVars
  PROVE  PlaceInv'
<1>1. keyed \in BOOLEAN /\ \A t \in Tabs : Placed(tab[t], cookie, keyed, Sound)
  BY DEF PlaceInv
<1>2. ASSUME NEW t \in Tabs, NEW p \in Paths
      PROVE  \A u \in Tabs : \E s : Placed(Opens(t, p)[u], cookie, keyed, s)
  <2> DEFINE x == [path |-> p, waits |-> "middleware", hops |-> 0, saw |-> {}]
  <2>1. Placed(x, cookie, keyed, Sound)
    BY <1>1, OpensAt
  <2>2. \A u \in Tabs : Opens(t, p)[u] = IF u = t THEN x ELSE tab[u]
    BY DEF Opens, PlaceInv
  <2> HIDE DEF x
  <2>3. QED
    BY <1>1, <2>1, <2>2
<1>3. CASE UNCHANGED loginVars
  BY <1>3, PlaceStays DEF loginVars
<1>4. ASSUME \/ Tick
             \/ \E t \in Tabs : \/ HandleLogin(t) \/ CheckRateLimit(t) \/ Verify(t)
                                \/ RecordFailedLogin(t) \/ ResetRateLimit(t)
      PROVE  PlaceInv'
  <2>1. UNCHANGED <<account, cookie, keyed, tab>>
    BY <1>4 DEF Tick, HandleLogin, CheckRateLimit, Verify, RecordFailedLogin, ResetRateLimit
  <2>2. QED
    BY <2>1, PlaceStays
<1>5. ASSUME NEW t \in Tabs, LoggedIn(t) PROVE PlaceInv'
  <2>1. PICK c : c = login[t].who
    OBVIOUS
  <2>2. \E u \in Accounts : c = {u}
    BY <1>5, <2>1 DEF LoggedIn, AttemptsInv
  <2>3. PICK p \in Paths : p = Home(c)
    BY DEF Home, Paths
  <2>4. SetCookie(c, Opens(t, p)) /\ keyed' = keyed
    BY <1>5, <2>1, <2>3 DEF LoggedIn
  <2>5. QED
    BY <1>2, <2>2, <2>4, PlaceCookie
<1>6. ASSUME NEW t \in Tabs, Logout(t) PROVE PlaceInv'
  <2>1. SetCookie({}, Opens(t, "/login")) /\ keyed' = keyed /\ "/login" \in Paths
    BY <1>6 DEF Logout, Paths
  <2>2. QED
    BY <1>2, <2>1, PlaceCookie
<1>7. CASE Expire
  BY <1>1, <1>7, PlaceCookie DEF Expire
<1>8. ASSUME NEW t \in Tabs, Visit(t) PROVE PlaceInv'
  <2>1. PICK p \in Paths : tab' = Opens(t, p)
    BY <1>8 DEF Visit, Paths
  <2> DEFINE x == [path |-> p, waits |-> "middleware", hops |-> 0, saw |-> {}]
  <2>2. tab' = [tab EXCEPT ![t] = x] /\ UNCHANGED <<account, cookie, keyed>>
    BY <1>8, <2>1 DEF Visit, Opens
  <2>3. Placed(x, cookie, keyed, Sound)
    BY <1>1, OpensAt
  <2>4. QED
    BY <2>2, <2>3, PlaceGoes
<1>9. CASE DeleteUser
  <2>1. UNCHANGED <<cookie, keyed>> /\ tab' = [t \in Tabs |-> [tab[t] EXCEPT !.hops = 0]]
    BY <1>9 DEF DeleteUser
  <2>2. ASSUME NEW t \in Tabs, NEW r PROVE Placed(tab'[t], cookie, keyed, r)
    BY <1>1, <2>1, Anew
  <2>3. QED
    BY <2>1, <2>2 DEF PlaceInv
<1>10. QED
  BY <1>3, <1>4, <1>5, <1>6, <1>7, <1>8, <1>9, PlaceMiddleware, PlaceMe,
     PlaceAsks DEF LoginsNext

(* What logging in promises (lib/auth.js, middleware.js, the pages): failed  *)
(* attempts pass the limit only by logins that run side by side and by       *)
(* checks that failed; nobody is sent back and forth between middleware and  *)
(* pages once api/auth/me answers; and a tab comes to rest where its user    *)
(* belongs.                                                                  *)
THEOREM SessionsHoldAlways == ASSUME LoginsAssumption PROVE LoginsSpec => []SessionsHold
<1>1. LoginsInit => AttemptsInv /\ PlaceInv
  BY LimitStarts, PlaceStarts
<1>2. AttemptsInv /\ PlaceInv /\ [LoginsNext]_loginVars => (AttemptsInv /\ PlaceInv)'
  BY AttemptsStep, PlaceStep
<1>3. AttemptsInv /\ PlaceInv => SessionsHold
  <2> SUFFICES ASSUME AttemptsInv, PlaceInv PROVE SessionsHold
    OBVIOUS
  <2>1. LimitSlack
    <3>1. Cardinality(Tried(login)) \in Nat /\ Cardinality(Tabs) \in Nat
      BY TriedIs
    <3>2. Attempts \in Nat
      BY AttemptsNat DEF AttemptsInv, Attempts
    <3>3. QED
      BY <3>1, <3>2 DEF AttemptsInv, LimitSlack, LoginsAssumption
  <2>2. FewRedirects
    <3> SUFFICES ASSUME Sound, NEW t \in Tabs PROVE tab[t].hops <= IF cookie = {} THEN 2 ELSE 1
      BY DEF FewRedirects
    <3>1. tab[t].hops + Owes(cookie, keyed, tab[t].path, tab[t].waits) <= IF cookie = {} THEN 2 ELSE 1
      BY DEF PlaceInv, Placed
    <3>2. Owes(cookie, keyed, tab[t].path, tab[t].waits) \in 0 .. 2 /\ tab[t].hops \in 0 .. 3
      BY OwesIs DEF PlaceInv, Placed, Place
    <3>3. QED
      BY <3>1, <3>2
  <2>3. AtHome
    BY DEF PlaceInv, Placed, Rested, AtHome
  <2>4. QED
    BY <2>1, <2>2, <2>3 DEF SessionsHold
<1>4. QED
  BY <1>1, <1>2, <1>3, PTL DEF LoginsSpec

(***************************************************************************)
(* Roles, permissions and users.  What a request has still to run is a      *)
(* sequence of statements that can be told from what they do and to which   *)
(* row: no two of a request do the same to the same, those on a row go from *)
(* one level to a higher one, and those after which it may still be refused *)
(* come first.                                                              *)
(***************************************************************************)

RoleVerbs == {"count", "insertRole", "upsertRole", "ungrant", "grant", "deleteRole"}
UserVerbs == {"insertUser", "unassign", "assign", "setLegacy", "deleteUser"}
PermVerbs == {"insertPermission", "deletePermission"}
Verbs == {"check", "find"} \union RoleVerbs \union UserVerbs \union PermVerbs
First == {"check", "find", "count", "insertRole", "insertUser"}
Level(do) ==
  IF do = "check" THEN 0 ELSE IF do = "find" THEN 1
  ELSE IF do \in {"grant", "deleteRole", "assign"} THEN 3
  ELSE IF do \in {"setLegacy", "deleteUser"} THEN 4 ELSE 2

Names == Roles \union Members \union Perms \union Clients
Stmts == [do : Verbs, on : Names, arg : SUBSET (Roles \union Perms)]

Precedes(a, b) == a.on = b.on \/ b.do \in First => Level(a.do) < Level(b.do)
Says(e, ask) ==
  /\ e.do \in RoleVerbs => e.on \in Roles /\ e.on \in DOMAIN ask
  /\ e.do \in UserVerbs => e.on \in Members /\ e.on \in DOMAIN ask
  /\ e.do \in PermVerbs => e.on \in Perms /\ DOMAIN ask = {}
  /\ e.do = "grant" => e.arg \subseteq Perms
  /\ e.do \in {"insertUser", "assign", "setLegacy"} => e.arg \subseteq Roles
  /\ e.do = "setLegacy" => e.arg # {}
  /\ e.do = "deleteRole" => DOMAIN ask = {e.on}
Ordered(q) == \A i, j \in 1 .. Len(q) : i < j => Precedes(q[i], q[j])
Formed(q, ask) == Ordered(q) /\ \A i \in 1 .. Len(q) : Says(q[i], ask)

Has(q, do, x) == \E i \in 1 .. Len(q) : q[i].do = do /\ q[i].on = x
Args(q, do, x) == UNION {q[i].arg : i \in {j \in 1 .. Len(q) : q[j].do = do /\ q[j].on = x}}
May(q) == \E i \in 1 .. Len(q) : q[i].do \in First

AsksFor(ask) ==
  /\ DOMAIN ask \subseteq Roles \union Members
  /\ \A r \in Roles : r \in DOMAIN ask => ask[r] \subseteq Perms
  /\ \A m \in Members : m \in DOMAIN ask => ask[m] \subseteq Roles

RowTypes ==
  /\ DOMAIN grants \subseteq Roles /\ \A r \in DOMAIN grants : grants[r] \subseteq Perms
  /\ DOMAIN users \subseteq Members
  /\ \A m \in DOMAIN users : users[m] \in [held : SUBSET Roles, legacy : SUBSET Roles]
WantTypes ==
  /\ DOMAIN want = Roles \union Members
  /\ \A x \in DOMAIN want : DOMAIN want[x] = {"known", "set"}
  /\ \A r \in Roles : want[r].set \subseteq Perms
  /\ \A m \in Members : want[m].set \subseteq Roles
RequestTypes ==
  /\ DOMAIN serving = Clients
  /\ \A c \in Clients : LET s == serving[c] IN
       /\ DOMAIN s = {"todo", "ask", "clear"} /\ s.todo \in Seq(Stmts)
       /\ AsksFor(s.ask) /\ Formed(s.todo, s.ask)

(* What a request that nobody met has still to do leads to what it asks for. *)
Resets(q, r) == Has(q, "ungrant", r) \/ Has(q, "insertRole", r) \/ Has(q, "upsertRole", r)
RolePlan(q, r, A, g) == LET left == Args(q, "grant", r) IN
  ~Has(q, "deleteRole", r) =>
    /\ Resets(q, r) => left = A
    /\ Has(q, "upsertRole", r) => r \notin DOMAIN g
    /\ ~Resets(q, r) /\ r \in DOMAIN g => g[r] \union left = A
MemberPlan(q, m, A, u) ==
  LET left == Args(q, "assign", m)
      first == Args(q, "insertUser", m)
      sets == Has(q, "setLegacy", m)
  IN /\ Args(q, "setLegacy", m) \subseteq A
     /\ ~Has(q, "deleteUser", m) =>
          /\ Has(q, "unassign", m) => left = A /\ (A = {} \/ sets)
          /\ Has(q, "insertUser", m) =>
               /\ ~sets /\ first \subseteq A
               /\ left = A \/ (left = {} /\ first = A)
          /\ ~Has(q, "unassign", m) /\ ~Has(q, "insertUser", m) /\ m \in DOMAIN u =>
               \/ u[m].held \union left = A /\ (A = {} \/ sets \/ u[m].legacy \subseteq A)
               \/ left = {} /\ u[m].held = {} /\ u[m].legacy = A /\ ~sets
Plan(q, ask, g, u) ==
  /\ \A r \in Roles : r \in DOMAIN ask => RolePlan(q, r, ask[r], g)
  /\ \A m \in Members : m \in DOMAIN ask => MemberPlan(q, m, ask[m], u)
PlanInv ==
  \A c \in Clients :
    serving[c].todo # <<>> /\ serving[c].clear => Plan(serving[c].todo, serving[c].ask, grants, users)

AloneInv ==
  \A c, d \in Clients : \A x \in Roles \union Members :
    c # d /\ Edits(c, x) /\ Edits(d, x) => ~serving[c].clear

(* Whom nobody has begun to edit is as was asked last. *)
Begun(c, x) == Edits(c, x) /\ ~May(serving[c].todo)
Idle(x) == \A c \in Clients : ~Begun(c, x)
RoleFits(g, r, S) == r \in DOMAIN g => g[r] = S
MemberFits(u, m, S) ==
  m \in DOMAIN u =>
    /\ u[m].held = {} \/ u[m].legacy \subseteq u[m].held
    /\ S # {} => u[m].held \union u[m].legacy = S
FitsInv ==
  /\ \A r \in Roles : want[r].known /\ Idle(r) => RoleFits(grants, r, want[r].set)
  /\ \A m \in Members : want[m].known /\ Idle(m) => MemberFits(users, m, want[m].set)

AccountsInv == RowTypes /\ WantTypes /\ RequestTypes /\ PlanInv /\ AloneInv /\ FitsInv

LEMMA ArgsAre ==
  ASSUME NEW q, NEW do, NEW x, NEW p
  PROVE  p \in Args(q, do, x) <=> \E i \in 1 .. Len(q) : q[i].do = do /\ q[i].on = x /\ p \in q[i].arg
BY DEF Args

(* One sequence of statements after another. *)
LEMMA Places ==
  ASSUME NEW s \in Seq(Stmts), NEW t \in Seq(Stmts)
  PROVE  /\ s \o t \in Seq(Stmts) /\ Len(s \o t) = Len(s) + Len(t) /\ Len(s) \in Nat /\ Len(t) \in Nat
         /\ \A i \in 1 .. Len(s) : i \in 1 .. Len(s \o t) /\ (s \o t)[i] = s[i]
         /\ \A j \in 1 .. Len(t) : Len(s) + j \in 1 .. Len(s \o t) /\ (s \o t)[Len(s) + j] = t[j]
         /\ \A k \in 1 .. Len(s \o t) :
              k \in 1 .. Len(s) \/ \E j \in 1 .. Len(t) : k = Len(s) + j
<1>1. /\ s \o t \in Seq(Stmts) /\ Len(s \o t) = Len(s) + Len(t) /\ Len(s) \in Nat /\ Len(t) \in Nat
      /\ \A i \in 1 .. Len(s) + Len(t) : (s \o t)[i] = IF i <= Len(s) THEN s[i] ELSE t[i - Len(s)]
  BY ConcatProperties
<1>2. ASSUME NEW i \in 1 .. Len(s) PROVE i \in 1 .. Len(s \o t) /\ (s \o t)[i] = s[i]
  BY <1>1
<1>3. ASSUME NEW j \in 1 .. Len(t) PROVE Len(s) + j \in 1 .. Len(s \o t) /\ (s \o t)[Len(s) + j] = t[j]
  <2>1. Len(s) + j \in 1 .. Len(s) + Len(t) /\ ~(Len(s) + j <= Len(s)) /\ (Len(s) + j) - Len(s) = j
    BY <1>1
  <2>2. QED
    BY <1>1, <2>1
<1>4. ASSUME NEW k \in 1 .. Len(s \o t)
      PROVE  k \in 1 .. Len(s) \/ \E j \in 1 .. Len(t) : k = Len(s) + j
  <2>1. CASE k > Len(s)
    <3>1. k - Len(s) \in 1 .. Len(t) /\ k = Len(s) + (k - Len(s))
      BY <1>1, <2>1
    <3>2. QED
      BY <3>1
  <2>2. CASE ~(k > Len(s))
    BY <1>1, <2>2
  <2>3. QED
    BY <2>1, <2>2
<1>5. QED
  BY <1>1, <1>2, <1>3, <1>4

LEMMA Joined ==
  ASSUME NEW s \in Seq(Stmts), NEW t \in Seq(Stmts), NEW do, NEW x
  PROVE  /\ Has(s \o t, do, x) <=> Has(s, do, x) \/ Has(t, do, x)
         /\ Args(s \o t, do, x) = Args(s, do, x) \union Args(t, do, x)
         /\ May(s \o t) <=> May(s) \/ May(t)
<1>1. Has(s \o t, do, x) <=> Has(s, do, x) \/ Has(t, do, x)
  <2>1. ASSUME Has(s \o t, do, x) PROVE Has(s, do, x) \/ Has(t, do, x)
    <3>1. PICK k \in 1 .. Len(s \o t) : (s \o t)[k].do = do /\ (s \o t)[k].on = x
      BY <2>1 DEF Has
    <3>2. CASE k \in 1 .. Len(s)
      <4>1. (s \o t)[k] = s[k]
        BY <3>2, Places
      <4>2. QED
        BY <3>1, <3>2, <4>1 DEF Has
    <3>3. ASSUME NEW j \in 1 .. Len(t), k = Len(s) + j PROVE Has(t, do, x)
      <4>1. (s \o t)[k] = t[j]
        BY <3>3, Places
      <4>2. QED
        BY <3>1, <4>1 DEF Has
    <3>4. k \in 1 .. Len(s) \/ \E j \in 1 .. Len(t) : k = Len(s) + j
      BY Places
    <3>5. QED
      BY <3>2, <3>3, <3>4
  <2>2. ASSUME Has(s, do, x) PROVE Has(s \o t, do, x)
    <3>1. PICK i \in 1 .. Len(s) : s[i].do = do /\ s[i].on = x
      BY <2>2 DEF Has
    <3>2. i \in 1 .. Len(s \o t) /\ (s \o t)[i] = s[i]
      BY Places
    <3>3. QED
      BY <3>1, <3>2 DEF Has
  <2>3. ASSUME Has(t, do, x) PROVE Has(s \o t, do, x)
    <3>1. PICK j \in 1 .. Len(t) : t[j].do = do /\ t[j].on = x
      BY <2>3 DEF Has
    <3>2. Len(s) + j \in 1 .. Len(s \o t) /\ (s \o t)[Len(s) + j] = t[j]
      BY Places
    <3>3. QED
      BY <3>1, <3>2 DEF Has
  <2>4. QED
    BY <2>1, <2>2, <2>3
<1>2. May(s \o t) <=> May(s) \/ May(t)
  <2>1. ASSUME May(s \o t) PROVE May(s) \/ May(t)
    <3>1. PICK k \in 1 .. Len(s \o t) : (s \o t)[k].do \in First
      BY <2>1 DEF May
    <3>2. CASE k \in 1 .. Len(s)
      <4>1. (s \o t)[k] = s[k]
        BY <3>2, Places
      <4>2. QED
        BY <3>1, <3>2, <4>1 DEF May
    <3>3. ASSUME NEW j \in 1 .. Len(t), k = Len(s) + j PROVE May(t)
      <4>1. (s \o t)[k] = t[j]
        BY <3>3, Places
      <4>2. QED
        BY <3>1, <4>1 DEF May
    <3>4. k \in 1 .. Len(s) \/ \E j \in 1 .. Len(t) : k = Len(s) + j
      BY Places
    <3>5. QED
      BY <3>2, <3>3, <3>4
  <2>2. ASSUME May(s) \/ May(t) PROVE May(s \o t)
    <3>1. CASE May(s)
      <4>1. PICK i \in 1 .. Len(s) : s[i].do \in First
        BY <3>1 DEF May
      <4>2. i \in 1 .. Len(s \o t) /\ (s \o t)[i] = s[i]
        BY Places
      <4>3. QED
        BY <4>1, <4>2 DEF May
    <3>2. CASE May(t)
      <4>1. PICK j \in 1 .. Len(t) : t[j].do \in First
        BY <3>2 DEF May
      <4>2. Len(s) + j \in 1 .. Len(s \o t) /\ (s \o t)[Len(s) + j] = t[j]
        BY Places
      <4>3. QED
        BY <4>1, <4>2 DEF May
    <3>3. QED
      BY <2>2, <3>1, <3>2
  <2>3. QED
    BY <2>1, <2>2
<1>3. ASSUME NEW p PROVE p \in Args(s \o t, do, x) <=> p \in Args(s, do, x) \/ p \in Args(t, do, x)
  <2>1. ASSUME p \in Args(s \o t, do, x) PROVE p \in Args(s, do, x) \/ p \in Args(t, do, x)
    <3> DEFINE q == s \o t
    <3>a. p \in Args(q, do, x)
      BY <2>1
    <3> HIDE DEF q
    <3>b. \E k \in 1 .. Len(q) : q[k].do = do /\ q[k].on = x /\ p \in q[k].arg
      BY <3>a, ArgsAre
    <3>1. PICK k \in 1 .. Len(q) : q[k].do = do /\ q[k].on = x /\ p \in q[k].arg
      BY <3>b
    <3> USE DEF q
    <3>2. CASE k \in 1 .. Len(s)
      <4>1. (s \o t)[k] = s[k]
        BY <3>2, Places
      <4>2. s[k].do = do /\ s[k].on = x /\ p \in s[k].arg
        BY <3>1, <4>1
      <4>3. QED
        BY <3>2, <4>2, ArgsAre
    <3>3. ASSUME NEW j \in 1 .. Len(t), k = Len(s) + j PROVE p \in Args(t, do, x)
      <4>1. (s \o t)[k] = t[j]
        BY <3>3, Places
      <4>2. t[j].do = do /\ t[j].on = x /\ p \in t[j].arg
        BY <3>1, <4>1
      <4>3. QED
        BY <4>2, ArgsAre
    <3>4. k \in 1 .. Len(s) \/ \E j \in 1 .. Len(t) : k = Len(s) + j
      BY Places
    <3>5. QED
      BY <3>2, <3>3, <3>4
  <2>2. ASSUME p \in Args(s, do, x) \/ p \in Args(t, do, x) PROVE p \in Args(s \o t, do, x)
    <3>1. \/ \E i \in 1 .. Len(s) : s[i].do = do /\ s[i].on = x /\ p \in s[i].arg
          \/ \E i \in 1 .. Len(t) : t[i].do = do /\ t[i].on = x /\ p \in t[i].arg
      BY <2>2, ArgsAre
    <3>2. ASSUME NEW i \in 1 .. Len(s), s[i].do = do /\ s[i].on = x /\ p \in s[i].arg
          PROVE  p \in Args(s \o t, do, x)
      <4>1. i \in 1 .. Len(s \o t) /\ (s \o t)[i] = s[i]
        BY Places
      <4>2. (s \o t)[i].do = do /\ (s \o t)[i].on = x /\ p \in (s \o t)[i].arg
        BY <3>2, <4>1
      <4>3. QED
        BY <4>1, <4>2, ArgsAre
    <3>3. ASSUME NEW j \in 1 .. Len(t), t[j].do = do /\ t[j].on = x /\ p \in t[j].arg
          PROVE  p \in Args(s \o t, do, x)
      <4>1. Len(s) + j \in 1 .. Len(s \o t) /\ (s \o t)[Len(s) + j] = t[j]
        BY Places
      <4>2. /\ (s \o t)[Len(s) + j].do = do /\ (s \o t)[Len(s) + j].on = x
            /\ p \in (s \o t)[Len(s) + j].arg
        BY <3>3, <4>1
      <4>3. QED
        BY <4>1, <4>2, ArgsAre
    <3>4. QED
      BY <3>1, <3>2, <3>3
  <2>3. QED
    BY <2>1, <2>2
<1>4. QED
  BY <1>1, <1>2, <1>3

(* ... is as the parts are, if every statement may follow. *)
LEMMA FormedJoined ==
  ASSUME NEW s \in Seq(Stmts), NEW t \in Seq(Stmts), NEW ask, Formed(s, ask), Formed(t, ask),
         \A i \in 1 .. Len(s), j \in 1 .. Len(t) : Precedes(s[i], t[j])
  PROVE  s \o t \in Seq(Stmts) /\ Formed(s \o t, ask)
<1>1. ASSUME NEW k \in 1 .. Len(s \o t) PROVE Says((s \o t)[k], ask)
  BY Places DEF Formed
<1>2. ASSUME NEW k \in 1 .. Len(s \o t), NEW l \in 1 .. Len(s \o t), k < l
      PROVE  Precedes((s \o t)[k], (s \o t)[l])
  <2>1. CASE k \in 1 .. Len(s) /\ l \in 1 .. Len(s)
    BY <1>2, <2>1, Places DEF Formed, Ordered
  <2>2. ASSUME k \in 1 .. Len(s), NEW j \in 1 .. Len(t), l = Len(s) + j
        PROVE  Precedes((s \o t)[k], (s \o t)[l])
    BY <2>2, Places
  <2>3. ASSUME NEW i \in 1 .. Len(t), k = Len(s) + i, NEW j \in 1 .. Len(t), l = Len(s) + j
        PROVE  Precedes((s \o t)[k], (s \o t)[l])
    <3>1. i < j
      BY <1>2, <2>3, Places
    <3>2. QED
      BY <2>3, <3>1, Places DEF Formed, Ordered
  <2>4. ASSUME NEW i \in 1 .. Len(t), k = Len(s) + i, l \in 1 .. Len(s)
        PROVE  FALSE
    BY <1>2, <2>4, Places
  <2>5. QED
    BY <2>1, <2>2, <2>3, <2>4, Places
<1>3. QED
  BY <1>1, <1>2, Places DEF Formed, Ordered

(* A single statement, and none. *)
LEMMA Single ==
  ASSUME NEW e \in Stmts, NEW ask, Says(e, ask)
  PROVE  /\ <<e>> \in Seq(Stmts) /\ Formed(<<e>>, ask) /\ Len(<<e>>) = 1 /\ <<e>>[1] = e
         /\ \A do, x : Has(<<e>>, do, x) <=> e.do = do /\ e.on = x
         /\ \A do, x : Args(<<e>>, do, x) = IF e.do = do /\ e.on = x THEN e.arg ELSE {}
         /\ May(<<e>>) <=> e.do \in First
<1>1. <<e>> \in Seq(Stmts) /\ Len(<<e>>) = 1 /\ <<e>>[1] = e /\ 1 .. 1 = {1}
  OBVIOUS
<1>2. Formed(<<e>>, ask)
  BY <1>1 DEF Formed, Ordered
<1>3. ASSUME NEW do, NEW x PROVE Has(<<e>>, do, x) <=> e.do = do /\ e.on = x
  BY <1>1 DEF Has
<1>4. May(<<e>>) <=> e.do \in First
  BY <1>1 DEF May
<1>5. ASSUME NEW do, NEW x PROVE Args(<<e>>, do, x) = IF e.do = do /\ e.on = x THEN e.arg ELSE {}
  <2>1. ASSUME NEW p PROVE p \in Args(<<e>>, do, x) <=> e.do = do /\ e.on = x /\ p \in e.arg
    BY <1>1, ArgsAre
  <2>2. QED
    BY <2>1
<1>6. QED
  BY <1>1, <1>2, <1>3, <1>4, <1>5

LEMMA None ==
  ASSUME NEW ask
  PROVE  /\ <<>> \in Seq(Stmts) /\ Formed(<<>>, ask) /\ Len(<<>>) = 0 /\ ~May(<<>>)
         /\ \A do, x : ~Has(<<>>, do, x) /\ Args(<<>>, do, x) = {}
<1>1. <<>> \in Seq(Stmts) /\ Len(<<>>) = 0 /\ 1 .. 0 = {}
  OBVIOUS
<1>2. Formed(<<>>, ask) /\ ~May(<<>>)
  BY <1>1 DEF Formed, Ordered, May
<1>3. ASSUME NEW do, NEW x PROVE ~Has(<<>>, do, x) /\ Args(<<>>, do, x) = {}
  <2>1. ~Has(<<>>, do, x)
    BY <1>1 DEF Has
  <2>2. ASSUME NEW p PROVE p \notin Args(<<>>, do, x)
    BY <1>1, ArgsAre
  <2>3. QED
    BY <2>1, <2>2
<1>4. QED
  BY <1>1, <1>2, <1>3

(* A loop is one statement, or none. *)
LEMMA Loop ==
  ASSUME NEW do \in Verbs, NEW on \in Names, NEW S \in SUBSET (Roles \union Perms), NEW ask,
         S # {} => Says(Stmt(do, on, S), ask)
  PROVE  /\ ForEach(do, on, S) \in Seq(Stmts) /\ Formed(ForEach(do, on, S), ask)
         /\ \A i \in 1 .. Len(ForEach(do, on, S)) : ForEach(do, on, S)[i] = Stmt(do, on, S)
         /\ \A d, x : Has(ForEach(do, on, S), d, x) <=> S # {} /\ do = d /\ on = x
         /\ \A d, x : Args(ForEach(do, on, S), d, x) = IF do = d /\ on = x THEN S ELSE {}
         /\ May(ForEach(do, on, S)) <=> S # {} /\ do \in First
<1>1. CASE S = {}
  <2>1. ForEach(do, on, S) = <<>>
    BY <1>1 DEF ForEach
  <2>2. \A i \in 1 .. Len(<<>>) : FALSE
    OBVIOUS
  <2>3. QED
    BY <1>1, <2>1, <2>2, None
<1>2. CASE S # {}
  <2>1. ForEach(do, on, S) = <<Stmt(do, on, S)>>
    BY <1>2 DEF ForEach
  <2>2. /\ Stmt(do, on, S) \in Stmts /\ Stmt(do, on, S).do = do
        /\ Stmt(do, on, S).on = on /\ Stmt(do, on, S).arg = S
    BY DEF Stmt, Stmts
  <2>3. \A i \in 1 .. Len(<<Stmt(do, on, S)>>) : i = 1
    OBVIOUS
  <2>4. QED
    BY <1>2, <2>1, <2>2, <2>3, Single
<1>3. QED
  BY <1>1, <1>2

(* What is left when the first statement has run. *)
LEMMA TailIs ==
  ASSUME NEW q \in Seq(Stmts), q # <<>>
  PROVE  /\ Tail(q) \in Seq(Stmts) /\ Head(q) = q[1] /\ Head(q) \in Stmts /\ q = <<Head(q)>> \o Tail(q)
         /\ Len(q) \in Nat /\ 1 \in 1 .. Len(q) /\ Len(Tail(q)) = Len(q) - 1
         /\ \A j \in 1 .. Len(Tail(q)) : j + 1 \in 1 .. Len(q) /\ Tail(q)[j] = q[j + 1] /\ 1 < j + 1
<1>1. /\ Len(q) \in Nat /\ Len(q) > 0 /\ Head(q) = q[1] /\ q[1] \in Stmts
  OBVIOUS
<1>2. /\ Tail(q) \in Seq(Stmts) /\ Len(Tail(q)) = Len(q) - 1
      /\ \A j \in 1 .. Len(q) - 1 : Tail(q)[j] = q[j + 1]
  BY <1>1, HeadTailProperties
<1>3. q = <<Head(q)>> \o Tail(q)
  <2>1. /\ <<Head(q)>> \in Seq(Stmts) /\ Len(<<Head(q)>>) = 1 /\ <<Head(q)>>[1] = q[1]
    BY <1>1
  <2>2. /\ <<Head(q)>> \o Tail(q) \in Seq(Stmts) /\ Len(<<Head(q)>> \o Tail(q)) = 1 + (Len(q) - 1)
        /\ \A i \in 1 .. 1 + (Len(q) - 1) : (<<Head(q)>> \o Tail(q))[i] =
              IF i <= 1 THEN <<Head(q)>>[i] ELSE Tail(q)[i - 1]
    BY <1>2, <2>1, ConcatProperties
  <2>3. ASSUME NEW i \in 1 .. Len(q) PROVE (<<Head(q)>> \o Tail(q))[i] = q[i]
    <3>1. CASE i = 1
      BY <1>1, <2>1, <2>2, <3>1
    <3>2. CASE i # 1
      <4>1. i - 1 \in 1 .. Len(q) - 1 /\ ~(i <= 1) /\ (i - 1) + 1 = i /\ i \in 1 .. 1 + (Len(q) - 1)
        BY <1>1, <3>2
      <4>2. QED
        BY <1>2, <2>2, <4>1
    <3>3. QED
      BY <3>1, <3>2
  <2>4. Len(<<Head(q)>> \o Tail(q)) = Len(q)
    BY <1>1, <2>2
  <2>5. QED
    BY <2>2, <2>3, <2>4, SeqEqual
<1>4. QED
  BY <1>1, <1>2, <1>3

LEMMA Levels ==
  /\ \A d \in First : d # "check" /\ d # "find" => Level(d) = 2
  /\ \A d \in Verbs : Level(d) \in 0 .. 4
  /\ \A d \in First : Level(d) <= 2
  /\ \A d \in Verbs : d \notin First => Level(d) >= 2
BY DEF Level, First, Verbs, RoleVerbs, UserVerbs, PermVerbs

LEMMA HeadGone ==
  ASSUME NEW q \in Seq(Stmts), q # <<>>, NEW ask, Formed(q, ask)
  PROVE  LET h == Head(q)
             t == Tail(q)
         IN /\ h \in Stmts /\ Says(h, ask) /\ t \in Seq(Stmts) /\ Formed(t, ask)
            /\ \A d, x : Has(q, d, x) <=> (h.do = d /\ h.on = x) \/ Has(t, d, x)
            /\ \A d, x : Args(q, d, x) = (IF h.do = d /\ h.on = x THEN h.arg ELSE {}) \union Args(t, d, x)
            /\ May(q) <=> h.do \in First \/ May(t)
            /\ \A j \in 1 .. Len(t) : Precedes(h, t[j])
            /\ \A d, x : x = h.on /\ ~(Level(h.do) < Level(d)) => ~Has(t, d, x) /\ Args(t, d, x) = {}
            /\ May(t) => h.do \in {"check", "find"}
<1> DEFINE h == Head(q)
           t == Tail(q)
<1>1. /\ t \in Seq(Stmts) /\ h = q[1] /\ h \in Stmts /\ q = <<h>> \o t
      /\ Len(q) \in Nat /\ 1 \in 1 .. Len(q)
      /\ \A j \in 1 .. Len(t) : j + 1 \in 1 .. Len(q) /\ t[j] = q[j + 1] /\ 1 < j + 1
  BY TailIs
<1>2. Says(h, ask)
  BY <1>1 DEF Formed
<1>3. \A j \in 1 .. Len(t) : Precedes(h, t[j])
  BY <1>1 DEF Formed, Ordered
<1>4. Formed(t, ask)
  <2>1. \A j \in 1 .. Len(t) : Says(t[j], ask)
    BY <1>1 DEF Formed
  <2>2. ASSUME NEW i \in 1 .. Len(t), NEW j \in 1 .. Len(t), i < j PROVE Precedes(t[i], t[j])
    <3>1. i + 1 < j + 1
      BY <1>1, <2>2
    <3>2. QED
      BY <1>1, <3>1 DEF Formed, Ordered
  <2>3. QED
    BY <2>1, <2>2 DEF Formed, Ordered
<1> HIDE DEF h, t
<1>5. /\ <<h>> \in Seq(Stmts)
      /\ \A d, x : Has(<<h>>, d, x) <=> h.do = d /\ h.on = x
      /\ \A d, x : Args(<<h>>, d, x) = IF h.do = d /\ h.on = x THEN h.arg ELSE {}
      /\ May(<<h>>) <=> h.do \in First
  BY <1>1, <1>2, Single
<1> DEFINE u == <<h>>
<1>u. /\ u \in Seq(Stmts) /\ q = u \o t
      /\ \A d, x : Has(u, d, x) <=> h.do = d /\ h.on = x
      /\ \A d, x : Args(u, d, x) = IF h.do = d /\ h.on = x THEN h.arg ELSE {}
      /\ May(u) <=> h.do \in First
  BY <1>1, <1>5
<1> HIDE DEF u
<1>6. ASSUME NEW d, NEW x
      PROVE  /\ Has(q, d, x) <=> (h.do = d /\ h.on = x) \/ Has(t, d, x)
             /\ Args(q, d, x) = (IF h.do = d /\ h.on = x THEN h.arg ELSE {}) \union Args(t, d, x)
             /\ May(q) <=> h.do \in First \/ May(t)
  <2>1. /\ Has(u \o t, d, x) <=> Has(u, d, x) \/ Has(t, d, x)
        /\ Args(u \o t, d, x) = Args(u, d, x) \union Args(t, d, x)
        /\ May(u \o t) <=> May(u) \/ May(t)
    <3>1. u \in Seq(Stmts) /\ t \in Seq(Stmts)
      BY <1>1, <1>u
    <3>2. QED
      BY <3>1, Joined
  <2>2. QED
    BY <1>u, <2>1
<1>7. ASSUME NEW d, NEW x, x = h.on, ~(Level(h.do) < Level(d)) PROVE ~Has(t, d, x) /\ Args(t, d, x) = {}
  <2>1. ~Has(t, d, x)
    BY <1>3, <1>7 DEF Has, Precedes
  <2>2. ASSUME NEW p, p \in Args(t, d, x) PROVE FALSE
    <3>1. \E i \in 1 .. Len(t) : t[i].do = d /\ t[i].on = x /\ p \in t[i].arg
      BY <2>2, ArgsAre
    <3>2. QED
      BY <2>1, <3>1 DEF Has
  <2>3. QED
    BY <2>1, <2>2
<1>8. ASSUME May(t) PROVE h.do \in {"check", "find"}
  <2>1. PICK j \in 1 .. Len(t) : t[j].do \in First
    BY <1>8 DEF May
  <2>2. Level(h.do) < Level(t[j].do)
    BY <1>3, <2>1 DEF Precedes
  <2>3. h.do \in Verbs
    BY <1>1 DEF Stmts
  <2>4. Level(t[j].do) <= 2 /\ Level(t[j].do) \in 0 .. 4 /\ Level(h.do) \in 0 .. 4
    BY <2>1, <2>3, Levels DEF First, Verbs, RoleVerbs, UserVerbs, PermVerbs
  <2>5. Level(h.do) < 2
    BY <2>2, <2>4
  <2>6. QED
    BY <2>3, <2>5, Levels
<1>9. QED
  BY <1>1, <1>2, <1>3, <1>4, <1>6, <1>7, <1>8 DEF h, t

(* What is left of a loop, with what follows it. *)
(* A statement is still to run as before. *)
AsIs(l, q, d, y) == (Has(l, d, y) <=> Has(q, d, y)) /\ Args(l, d, y) = Args(q, d, y)

LoopLeaves(q, S) == ForEach(Head(q).do, Head(q).on, S) \o Tail(q)
LeftOfLoop(q, ask, S, h, l) ==
  /\ l \in Seq(Stmts) /\ Formed(l, ask) /\ ~May(l) /\ ~May(q)
  /\ Args(q, h.do, h.on) = h.arg /\ Args(l, h.do, h.on) = S
  /\ \A d, x : d # h.do \/ x # h.on => AsIs(l, q, d, x)

LEMMA LoopGoesOn ==
  ASSUME NEW q \in Seq(Stmts), q # <<>>, NEW ask, Formed(q, ask), NEW S,
         Head(q).do \in {"grant", "assign"}, S \subseteq Head(q).arg
  PROVE  LeftOfLoop(q, ask, S, Head(q), LoopLeaves(q, S))
<1> DEFINE h == Head(q)
           t == Tail(q)
           f == ForEach(h.do, h.on, S)
<1>1. /\ h \in Stmts /\ Says(h, ask) /\ t \in Seq(Stmts) /\ Formed(t, ask)
      /\ \A d, x : Has(q, d, x) <=> (h.do = d /\ h.on = x) \/ Has(t, d, x)
      /\ \A d, x : Args(q, d, x) = (IF h.do = d /\ h.on = x THEN h.arg ELSE {}) \union Args(t, d, x)
      /\ May(q) <=> h.do \in First \/ May(t)
      /\ \A j \in 1 .. Len(t) : Precedes(h, t[j])
      /\ \A d, x : x = h.on /\ ~(Level(h.do) < Level(d)) => ~Has(t, d, x) /\ Args(t, d, x) = {}
      /\ May(t) => h.do \in {"check", "find"}
  BY HeadGone
<1>2. h.do \in {"grant", "assign"} /\ S \subseteq h.arg
  OBVIOUS
<1> HIDE DEF h, t
<1>3. /\ h.do \in Verbs /\ h.on \in Names /\ h.arg \in SUBSET (Roles \union Perms)
      /\ S \in SUBSET (Roles \union Perms)
  BY <1>1, <1>2 DEF Stmts
<1>4. Says(Stmt(h.do, h.on, S), ask)
  <2>1. /\ Stmt(h.do, h.on, S).do = h.do /\ Stmt(h.do, h.on, S).on = h.on
        /\ Stmt(h.do, h.on, S).arg = S
    BY DEF Stmt
  <2>2. h.do = "grant" => S \subseteq Perms
    BY <1>1, <1>2 DEF Says
  <2>3. h.do = "assign" => S \subseteq Roles
    BY <1>1, <1>2 DEF Says
  <2>4. CASE h.do = "grant"
    BY <1>1, <2>1, <2>2, <2>4 DEF Says, RoleVerbs, UserVerbs, PermVerbs
  <2>5. CASE h.do = "assign"
    BY <1>1, <2>1, <2>3, <2>5 DEF Says, RoleVerbs, UserVerbs, PermVerbs
  <2>6. QED
    BY <1>2, <2>4, <2>5
<1>5. /\ f \in Seq(Stmts) /\ Formed(f, ask)
      /\ \A i \in 1 .. Len(f) : f[i] = Stmt(h.do, h.on, S)
      /\ \A d, x : Has(f, d, x) <=> S # {} /\ h.do = d /\ h.on = x
      /\ \A d, x : Args(f, d, x) = IF h.do = d /\ h.on = x THEN S ELSE {}
      /\ May(f) <=> S # {} /\ h.do \in First
  <2> DEFINE do == h.do
             on == h.on
  <2>1. do \in Verbs /\ on \in Names /\ Says(Stmt(do, on, S), ask) /\ f = ForEach(do, on, S)
    BY <1>3, <1>4
  <2> HIDE DEF do, on, f
  <2>2. /\ f \in Seq(Stmts) /\ Formed(f, ask)
        /\ \A i \in 1 .. Len(f) : f[i] = Stmt(do, on, S)
        /\ \A d, x : Has(f, d, x) <=> S # {} /\ do = d /\ on = x
        /\ \A d, x : Args(f, d, x) = IF do = d /\ on = x THEN S ELSE {}
        /\ May(f) <=> S # {} /\ do \in First
    BY <1>3, <2>1, Loop
  <2>3. QED
    BY <2>2 DEF do, on
<1> HIDE DEF f
<1>6. \A i \in 1 .. Len(f), j \in 1 .. Len(t) : Precedes(f[i], t[j])
  <2>1. \A j \in 1 .. Len(t) : Precedes(Stmt(h.do, h.on, S), t[j])
    BY <1>1 DEF Precedes, Stmt
  <2>2. QED
    BY <1>5, <2>1
<1>7. f \o t \in Seq(Stmts) /\ Formed(f \o t, ask)
  BY <1>1, <1>5, <1>6, FormedJoined
<1>8. h.do \notin First
  BY <1>2 DEF First
<1>9. ~May(t) /\ ~May(f) /\ ~May(q)
  BY <1>1, <1>2, <1>5, <1>8
<1>10. ASSUME NEW d, NEW x
       PROVE  /\ Has(f \o t, d, x) <=> Has(f, d, x) \/ Has(t, d, x)
              /\ Args(f \o t, d, x) = Args(f, d, x) \union Args(t, d, x)
              /\ May(f \o t) <=> May(f) \/ May(t)
  BY <1>1, <1>5, Joined
<1>11. Args(t, h.do, h.on) = {}
  <2>1. ~(Level(h.do) < Level(h.do))
    BY <1>3, Levels
  <2>2. QED
    BY <1>1, <2>1
<1>12. Args(q, h.do, h.on) = h.arg /\ Args(f \o t, h.do, h.on) = S
  <2>1. Args(q, h.do, h.on) = h.arg \union Args(t, h.do, h.on)
    BY <1>1
  <2>2. Args(f \o t, h.do, h.on) = Args(f, h.do, h.on) \union Args(t, h.do, h.on)
    BY <1>10
  <2>3. Args(f, h.do, h.on) = S
    BY <1>5
  <2>4. QED
    BY <1>11, <2>1, <2>2, <2>3
<1>13. ASSUME NEW d, NEW x, d # h.do \/ x # h.on
       PROVE  AsIs(f \o t, q, d, x)
  <2>1. /\ Has(q, d, x) <=> Has(t, d, x)
        /\ Args(q, d, x) = {} \union Args(t, d, x)
    BY <1>1, <1>13
  <2>2. ~Has(f, d, x) /\ Args(f, d, x) = {}
    BY <1>5, <1>13
  <2>3. QED
    BY <1>10, <2>1, <2>2 DEF AsIs
<1>14. QED
  <2>1. ~May(f \o t)
    BY <1>9, <1>10
  <2>2. LeftOfLoop(q, ask, S, h, f \o t)
    BY <1>7, <1>9, <1>12, <1>13, <2>1 DEF LeftOfLoop
  <2>3. QED
    BY <2>2 DEF h, t, f, LoopLeaves

-----------------------------------------------------------------------------
(* A request goes on, is refused, fails, deletes something, or arrives.      *)

Same(x, f, g) == (x \in DOMAIN f <=> x \in DOMAIN g) /\ (x \in DOMAIN f => f[x] = g[x])

LEMMA PlanSame ==
  ASSUME NEW q, NEW ask, NEW g, NEW u, NEW g2, NEW u2, Plan(q, ask, g, u),
         \A r \in Roles : r \in DOMAIN ask => Same(r, g, g2),
         \A m \in Members : m \in DOMAIN ask => Same(m, u, u2)
  PROVE  Plan(q, ask, g2, u2)
<1>1. ASSUME NEW r \in Roles, r \in DOMAIN ask PROVE RolePlan(q, r, ask[r], g2)
  <2>1. RolePlan(q, r, ask[r], g) /\ Same(r, g, g2)
    BY <1>1 DEF Plan
  <2>2. QED
    BY <2>1 DEF RolePlan, Same
<1>2. ASSUME NEW m \in Members, m \in DOMAIN ask PROVE MemberPlan(q, m, ask[m], u2)
  <2>1. MemberPlan(q, m, ask[m], u) /\ Same(m, u, u2)
    BY <1>2 DEF Plan
  <2>2. QED
    BY <2>1 DEF MemberPlan, Same
<1>3. QED
  BY <1>1, <1>2 DEF Plan

(* Requests of others are what they were, but that some are not clear now.   *)
Weaker(s, t) == t.todo = s.todo /\ t.ask = s.ask /\ (t.clear => s.clear)

LEMMA NoRequestIs ==
  /\ NoRequest.todo = <<>> /\ NoRequest.ask = <<>> /\ DOMAIN NoRequest = {"todo", "ask", "clear"}
  /\ NoRequest.todo \in Seq(Stmts) /\ AsksFor(NoRequest.ask) /\ Formed(NoRequest.todo, NoRequest.ask)
<1>1. /\ NoRequest.todo = <<>> /\ NoRequest.ask = <<>> /\ DOMAIN NoRequest = {"todo", "ask", "clear"}
  BY DEF NoRequest
<1>2. DOMAIN <<>> = {}
  OBVIOUS
<1>3. AsksFor(<<>>)
  BY <1>2 DEF AsksFor
<1>4. QED
  BY <1>1, <1>3, None

(* What the requests say, when one of them changes and the rows as well.     *)
LEMMA OthersKeep ==
  ASSUME AccountsInv, NEW c \in Clients, RowTypes', WantTypes',
         DOMAIN serving' = Clients, \A d \in Clients : DOMAIN serving'[d] = {"todo", "ask", "clear"},
         \A d \in Clients : d # c => Weaker(serving[d], serving'[d]),
         serving'[c].todo \in Seq(Stmts), AsksFor(serving'[c].ask),
         Formed(serving'[c].todo, serving'[c].ask),
         serving'[c].todo # <<>> /\ serving'[c].clear =>
           Plan(serving'[c].todo, serving'[c].ask, grants', users'),
         \A d \in Clients, x \in Roles \union Members :
           c # d /\ (Edits(c, x) /\ Edits(d, x))' => ~serving'[c].clear /\ ~serving'[d].clear,
         \A d \in Clients : d # c /\ serving'[d].todo # <<>> /\ serving'[d].clear =>
           /\ \A r \in Roles : r \in DOMAIN serving[d].ask => Same(r, grants, grants')
           /\ \A m \in Members : m \in DOMAIN serving[d].ask => Same(m, users, users'),
         FitsInv'
  PROVE  AccountsInv'
<1>1. RequestTypes'
  <2>1. ASSUME NEW d \in Clients
        PROVE  /\ serving'[d].todo \in Seq(Stmts) /\ AsksFor(serving'[d].ask)
               /\ Formed(serving'[d].todo, serving'[d].ask)
    <3>1. CASE d = c
      BY <3>1
    <3>2. CASE d # c
      BY <3>2 DEF AccountsInv, RequestTypes, Weaker
    <3>3. QED
      BY <3>1, <3>2
  <2>2. QED
    BY <2>1 DEF RequestTypes, AsksFor, Formed, Says, Ordered
<1>2. PlanInv'
  <2>1. ASSUME NEW d \in Clients, serving'[d].todo # <<>>, serving'[d].clear
        PROVE  Plan(serving'[d].todo, serving'[d].ask, grants', users')
    <3>1. CASE d = c
      BY <2>1, <3>1
    <3>2. CASE d # c
      <4>1. /\ serving'[d].todo = serving[d].todo /\ serving'[d].ask = serving[d].ask
            /\ serving[d].todo # <<>> /\ serving[d].clear
        BY <2>1, <3>2 DEF Weaker
      <4>2. Plan(serving[d].todo, serving[d].ask, grants, users)
        BY <4>1 DEF AccountsInv, PlanInv
      <4>3. /\ \A r \in Roles : r \in DOMAIN serving[d].ask => Same(r, grants, grants')
            /\ \A m \in Members : m \in DOMAIN serving[d].ask => Same(m, users, users')
        BY <2>1, <3>2
      <4>4. Plan(serving[d].todo, serving[d].ask, grants', users')
        BY <4>2, <4>3, PlanSame
      <4>5. QED
        BY <4>1, <4>4
    <3>3. QED
      BY <3>1, <3>2
  <2>2. QED
    BY <2>1 DEF PlanInv
<1>3. AloneInv'
  <2>1. ASSUME NEW a \in Clients, NEW b \in Clients, NEW x \in Roles \union Members,
               a # b, Edits(a, x)', Edits(b, x)'
        PROVE  ~serving'[a].clear
    <3>1. CASE a = c
      BY <2>1, <3>1
    <3>2. CASE b = c
      BY <2>1, <3>2
    <3>3. CASE a # c /\ b # c
      <4>1. Weaker(serving[a], serving'[a]) /\ Weaker(serving[b], serving'[b])
        BY <3>3
      <4>2. Edits(a, x) /\ Edits(b, x)
        BY <2>1, <4>1 DEF Weaker, Edits
      <4>3. ~serving[a].clear
        BY <2>1, <4>2 DEF AccountsInv, AloneInv
      <4>4. QED
        BY <4>1, <4>3 DEF Weaker
    <3>4. QED
      BY <3>1, <3>2, <3>3
  <2>2. QED
    BY <2>1 DEF AloneInv
<1>4. QED
  BY <1>1, <1>2, <1>3 DEF AccountsInv

LEMMA WantOf ==
  ASSUME AccountsInv, NEW c \in Clients, NEW left, Advances(c, left), NEW x \in Roles \union Members
  PROVE  /\ left # <<>> \/ x \notin DOMAIN serving[c].ask => want'[x] = want[x]
         /\ left = <<>> /\ x \in DOMAIN serving[c].ask /\ serving[c].clear
              => want'[x] = Known(serving[c].ask[x])
         /\ left = <<>> /\ x \in DOMAIN serving[c].ask /\ ~serving[c].clear => want'[x] = Unknown
         /\ DOMAIN want' = Roles \union Members
<1>1. DOMAIN want = Roles \union Members
  BY DEF AccountsInv, WantTypes
<1>2. CASE left # <<>>
  BY <1>1, <1>2 DEF Advances
<1>3. CASE left = <<>>
  <2>1. want' = [y \in DOMAIN want |->
                   Outcome(c, y, IF serving[c].clear THEN Known(serving[c].ask[y]) ELSE Unknown)]
    BY <1>3 DEF Advances
  <2>2. want'[x] = IF x \in DOMAIN serving[c].ask
                     THEN IF serving[c].clear THEN Known(serving[c].ask[x]) ELSE Unknown ELSE want[x]
    BY <1>1, <2>1 DEF Outcome
  <2>3. DOMAIN want' = Roles \union Members
    BY <1>1, <2>1
  <2>4. QED
    BY <1>3, <2>2, <2>3
<1>4. QED
  BY <1>2, <1>3

LEMMA KnownIs ==
  ASSUME NEW S
  PROVE  /\ Known(S).known /\ Known(S).set = S /\ DOMAIN Known(S) = {"known", "set"}
         /\ ~Unknown.known /\ Unknown.set = {} /\ DOMAIN Unknown = {"known", "set"}
BY DEF Known, Unknown

LEMMA WantTypesAre ==
  ASSUME DOMAIN want' = Roles \union Members,
         \A x \in Roles \union Members : DOMAIN want'[x] = {"known", "set"},
         \A r \in Roles : want'[r].set \subseteq Perms,
         \A m \in Members : want'[m].set \subseteq Roles
  PROVE  WantTypes'
BY DEF WantTypes

LEMMA AdvancedWant ==
  ASSUME AccountsInv, NEW c \in Clients, NEW left, Advances(c, left)
  PROVE  WantTypes'
<1>1. AsksFor(serving[c].ask) /\ WantTypes
  BY DEF AccountsInv, RequestTypes
<1>2. ASSUME NEW x \in Roles \union Members
      PROVE  /\ DOMAIN want'[x] = {"known", "set"}
             /\ x \in Roles => want'[x].set \subseteq Perms
             /\ x \in Members => want'[x].set \subseteq Roles
  <2>1. CASE left # <<>> \/ x \notin DOMAIN serving[c].ask
    BY <1>1, <1>2, <2>1, WantOf DEF WantTypes
  <2>2. CASE left = <<>> /\ x \in DOMAIN serving[c].ask /\ serving[c].clear
    <3>1. want'[x] = Known(serving[c].ask[x])
      BY <2>2, WantOf
    <3>2. /\ x \in Roles => serving[c].ask[x] \subseteq Perms
          /\ x \in Members => serving[c].ask[x] \subseteq Roles
      BY <1>1, <2>2 DEF AsksFor
    <3>3. QED
      BY <3>1, <3>2, KnownIs
  <2>3. CASE left = <<>> /\ x \in DOMAIN serving[c].ask /\ ~serving[c].clear
    <3>1. want'[x] = Unknown
      BY <2>3, WantOf
    <3>2. QED
      BY <3>1, KnownIs
  <2>4. QED
    BY <2>1, <2>2, <2>3
<1>3. DOMAIN want' = Roles \union Members
  <2>1. CASE left = <<>>
    <3>1. want' = [y \in DOMAIN want |->
                     Outcome(c, y, IF serving[c].clear THEN Known(serving[c].ask[y]) ELSE Unknown)]
      BY <2>1 DEF Advances
    <3>2. QED
      BY <1>1, <3>1 DEF WantTypes
  <2>2. CASE left # <<>>
    BY <1>1, <2>2 DEF WantTypes, Advances
  <2>3. QED
    BY <2>1, <2>2
<1>4. QED
  BY <1>2, <1>3, WantTypesAre

(* Nothing left to do: the plan has come true. *)
LEMMA PlanDone ==
  ASSUME NEW ask, NEW g, NEW u, Plan(<<>>, ask, g, u)
  PROVE  /\ \A r \in Roles : r \in DOMAIN ask => RoleFits(g, r, ask[r])
         /\ \A m \in Members : m \in DOMAIN ask => MemberFits(u, m, ask[m])
<1>1. ASSUME NEW r \in Roles, r \in DOMAIN ask PROVE RoleFits(g, r, ask[r])
  <2>1. RolePlan(<<>>, r, ask[r], g)
    BY <1>1 DEF Plan
  <2>2. QED
    BY <2>1, None DEF RolePlan, RoleFits, Resets
<1>2. ASSUME NEW m \in Members, m \in DOMAIN ask PROVE MemberFits(u, m, ask[m])
  <2>1. MemberPlan(<<>>, m, ask[m], u)
    BY <1>2 DEF Plan
  <2>2. m \in DOMAIN u => \/ u[m].held \union {} = ask[m] /\ (ask[m] = {} \/ u[m].legacy \subseteq ask[m])
                          \/ u[m].held = {} /\ u[m].legacy = ask[m]
    BY <2>1, None DEF MemberPlan
  <2>3. QED
    BY <2>2 DEF MemberFits
<1>3. QED
  BY <1>1, <1>2

LEMMA Advanced ==
  ASSUME AccountsInv, NEW c \in Clients, serving[c].todo # <<>>, NEW left \in Seq(Stmts),
         Formed(left, serving[c].ask), Advances(c, left), RowTypes',
         \A r \in Roles : r \notin DOMAIN serving[c].ask => Same(r, grants, grants'),
         \A m \in Members : m \notin DOMAIN serving[c].ask => Same(m, users, users'),
         serving[c].clear => Plan(left, serving[c].ask, grants', users'),
         May(left) => May(serving[c].todo) /\ grants' = grants /\ users' = users
  PROVE  AccountsInv'
<1>1. WantTypes'
  BY AdvancedWant
<1>2. /\ DOMAIN serving = Clients /\ \A d \in Clients : DOMAIN serving[d] = {"todo", "ask", "clear"}
      /\ AsksFor(serving[c].ask)
  BY DEF AccountsInv, RequestTypes
<1>3. /\ DOMAIN serving' = Clients /\ \A d \in Clients : d # c => serving'[d] = serving[d]
      /\ left = <<>> => serving'[c] = NoRequest
      /\ left # <<>> => serving'[c] = [serving[c] EXCEPT !.todo = left]
  BY <1>2 DEF Advances
<1>4. left # <<>> => /\ serving'[c].todo = left /\ serving'[c].ask = serving[c].ask
                     /\ (serving'[c].clear <=> serving[c].clear) /\ DOMAIN serving'[c] = {"todo", "ask", "clear"}
  BY <1>2, <1>3
<1>5. /\ \A d \in Clients : DOMAIN serving'[d] = {"todo", "ask", "clear"}
      /\ serving'[c].todo \in Seq(Stmts) /\ AsksFor(serving'[c].ask)
      /\ Formed(serving'[c].todo, serving'[c].ask)
  <2>1. CASE left = <<>>
    BY <1>2, <1>3, <2>1, NoRequestIs
  <2>2. CASE left # <<>>
    BY <1>2, <1>3, <1>4, <2>2
  <2>3. QED
    BY <2>1, <2>2
<1>6. serving'[c].todo # <<>> => left # <<>>
  BY <1>3, NoRequestIs
<1>7. \A d \in Clients : d # c => Weaker(serving[d], serving'[d])
  BY <1>3 DEF Weaker
<1>8. ASSUME NEW d \in Clients, NEW x \in Roles \union Members, c # d, (Edits(c, x) /\ Edits(d, x))'
      PROVE  ~serving'[c].clear /\ ~serving'[d].clear
  <2>1. left # <<>> /\ Edits(c, x) /\ Edits(d, x)
    BY <1>3, <1>4, <1>6, <1>8 DEF Edits
  <2>2. ~serving[c].clear /\ ~serving[d].clear
    BY <1>8, <2>1 DEF AccountsInv, AloneInv
  <2>3. QED
    BY <1>3, <1>4, <1>8, <2>1, <2>2
<1>9. ASSUME NEW d \in Clients, d # c, serving'[d].todo # <<>>, serving'[d].clear
      PROVE  /\ \A r \in Roles : r \in DOMAIN serving[d].ask => Same(r, grants, grants')
             /\ \A m \in Members : m \in DOMAIN serving[d].ask => Same(m, users, users')
  <2>1. \A x \in Roles \union Members : x \in DOMAIN serving[d].ask => x \notin DOMAIN serving[c].ask
    <3>1. ASSUME NEW x \in Roles \union Members, x \in DOMAIN serving[d].ask, x \in DOMAIN serving[c].ask
          PROVE  FALSE
      <4>1. Edits(c, x) /\ Edits(d, x)
        BY <1>3, <1>9, <3>1 DEF Edits
      <4>2. ~serving[d].clear
        BY <1>9, <4>1 DEF AccountsInv, AloneInv
      <4>3. QED
        BY <1>3, <1>9, <4>2
    <3>2. QED
      BY <3>1
  <2>2. QED
    BY <2>1
<1>10. ASSUME NEW x \in Roles \union Members, want'[x].known, Idle(x)'
       PROVE  \/ /\ left = <<>> /\ x \in DOMAIN serving[c].ask /\ serving[c].clear
                 /\ want'[x] = Known(serving[c].ask[x])
              \/ /\ Idle(x) /\ want'[x] = want[x]
                 /\ x \in Roles => Same(x, grants, grants')
                 /\ x \in Members => Same(x, users, users')
  <2>1. CASE x \notin DOMAIN serving[c].ask
    <3>1. ASSUME NEW d \in Clients PROVE ~Begun(d, x)
      <4>1. CASE d = c
        BY <2>1, <4>1 DEF Begun, Edits
      <4>2. CASE d # c
        BY <1>3, <1>10, <4>2 DEF Idle, Begun, Edits
      <4>3. QED
        BY <4>1, <4>2
    <3>2. QED
      BY <2>1, <3>1, WantOf DEF Idle
  <2>2. CASE x \in DOMAIN serving[c].ask /\ left = <<>>
    <3>1. CASE serving[c].clear
      BY <2>2, <3>1, WantOf
    <3>2. CASE ~serving[c].clear
      <4>1. want'[x] = Unknown
        BY <2>2, <3>2, WantOf
      <4>2. QED
        BY <1>10, <4>1, KnownIs
    <3>3. QED
      BY <3>1, <3>2
  <2>3. CASE x \in DOMAIN serving[c].ask /\ left # <<>>
    <3>1. May(left)
      <4>1. ~Begun(c, x)'
        BY <1>10 DEF Idle
      <4>2. Edits(c, x)'
        BY <1>4, <2>3 DEF Edits
      <4>3. QED
        BY <1>4, <2>3, <4>1, <4>2 DEF Begun
    <3>2. May(serving[c].todo) /\ grants' = grants /\ users' = users
      BY <3>1
    <3>3. ASSUME NEW d \in Clients PROVE ~Begun(d, x)
      <4>1. CASE d = c
        BY <3>2, <4>1 DEF Begun
      <4>2. CASE d # c
        BY <1>3, <1>10, <4>2 DEF Idle, Begun, Edits
      <4>3. QED
        BY <4>1, <4>2
    <3>4. QED
      BY <2>3, <3>2, <3>3, WantOf DEF Idle, Same
  <2>4. QED
    BY <2>1, <2>2, <2>3
<1>11. FitsInv'
  <2>1. ASSUME NEW r \in Roles, want'[r].known, Idle(r)' PROVE RoleFits(grants', r, want'[r].set)
    <3>1. CASE /\ left = <<>> /\ r \in DOMAIN serving[c].ask /\ serving[c].clear
               /\ want'[r] = Known(serving[c].ask[r])
      <4>1. RoleFits(grants', r, serving[c].ask[r])
        BY <3>1, PlanDone
      <4>2. QED
        BY <3>1, <4>1, KnownIs
    <3>2. CASE Idle(r) /\ want'[r] = want[r] /\ Same(r, grants, grants')
      <4>1. RoleFits(grants, r, want[r].set)
        BY <2>1, <3>2 DEF AccountsInv, FitsInv
      <4>2. QED
        BY <3>2, <4>1 DEF RoleFits, Same
    <3>3. QED
      BY <1>10, <2>1, <3>1, <3>2
  <2>2. ASSUME NEW m \in Members, want'[m].known, Idle(m)' PROVE MemberFits(users', m, want'[m].set)
    <3>1. CASE /\ left = <<>> /\ m \in DOMAIN serving[c].ask /\ serving[c].clear
               /\ want'[m] = Known(serving[c].ask[m])
      <4>1. MemberFits(users', m, serving[c].ask[m])
        BY <3>1, PlanDone
      <4>2. QED
        BY <3>1, <4>1, KnownIs
    <3>2. CASE Idle(m) /\ want'[m] = want[m] /\ Same(m, users, users')
      <4>1. MemberFits(users, m, want[m].set)
        BY <2>2, <3>2 DEF AccountsInv, FitsInv
      <4>2. QED
        BY <3>2, <4>1 DEF MemberFits, Same
    <3>3. QED
      BY <1>10, <2>2, <3>1, <3>2
  <2>3. QED
    BY <2>1, <2>2 DEF FitsInv
<1>12. ASSUME serving'[c].todo # <<>>, serving'[c].clear
       PROVE  Plan(serving'[c].todo, serving'[c].ask, grants', users')
  BY <1>4, <1>6, <1>12
<1>13. QED
  BY <1>1, <1>3, <1>5, <1>7, <1>8, <1>9, <1>11, <1>12, OthersKeep

(* A request ends before it has begun, or nothing is known of what it did.   *)
LEMMA Ended ==
  ASSUME AccountsInv, NEW c \in Clients, serving' = [serving EXCEPT ![c] = NoRequest],
         grants' = grants, users' = users, WantTypes',
         \A x \in Roles \union Members :
           want'[x].known => want'[x] = want[x] /\ (x \notin DOMAIN serving[c].ask \/ May(serving[c].todo))
  PROVE  AccountsInv'
<1>1. /\ DOMAIN serving = Clients /\ \A d \in Clients : DOMAIN serving[d] = {"todo", "ask", "clear"}
      /\ RowTypes
  BY DEF AccountsInv, RequestTypes
<1>2. /\ DOMAIN serving' = Clients /\ serving'[c] = NoRequest
      /\ \A d \in Clients : d # c => serving'[d] = serving[d]
  BY <1>1
<1>3. RowTypes'
  BY <1>1 DEF RowTypes
<1>4. \A d \in Clients : DOMAIN serving'[d] = {"todo", "ask", "clear"}
  BY <1>1, <1>2, NoRequestIs
<1>5. \A d \in Clients : d # c => Weaker(serving[d], serving'[d])
  BY <1>2 DEF Weaker
<1>6. /\ serving'[c].todo = <<>> /\ serving'[c].todo \in Seq(Stmts) /\ AsksFor(serving'[c].ask)
      /\ Formed(serving'[c].todo, serving'[c].ask)
  BY <1>2, NoRequestIs
<1>7. \A d \in Clients, x \in Roles \union Members :
        c # d /\ (Edits(c, x) /\ Edits(d, x))' => ~serving'[c].clear /\ ~serving'[d].clear
  BY <1>6 DEF Edits
<1>8. \A x : Same(x, grants, grants') /\ Same(x, users, users')
  BY DEF Same
<1>9. ASSUME NEW x \in Roles \union Members, want'[x].known, Idle(x)' PROVE Idle(x) /\ want'[x] = want[x]
  <2>1. ASSUME NEW d \in Clients PROVE ~Begun(d, x)
    <3>1. CASE d = c
      BY <1>9, <3>1 DEF Begun, Edits
    <3>2. CASE d # c
      BY <1>2, <1>9, <3>2 DEF Idle, Begun, Edits
    <3>3. QED
      BY <3>1, <3>2
  <2>2. QED
    BY <1>9, <2>1 DEF Idle
<1>10. FitsInv'
  <2>1. ASSUME NEW r \in Roles, want'[r].known, Idle(r)' PROVE RoleFits(grants', r, want'[r].set)
    BY <1>9, <2>1 DEF AccountsInv, FitsInv
  <2>2. ASSUME NEW m \in Members, want'[m].known, Idle(m)' PROVE MemberFits(users', m, want'[m].set)
    BY <1>9, <2>2 DEF AccountsInv, FitsInv
  <2>3. QED
    BY <2>1, <2>2 DEF FitsInv
<1>11. QED
  BY <1>2, <1>3, <1>4, <1>5, <1>6, <1>7, <1>8, <1>10, OthersKeep

LEMMA Rejected ==
  ASSUME AccountsInv, NEW c \in Clients, May(serving[c].todo), Reject(c)
  PROVE  AccountsInv'
<1>1. WantTypes /\ want' = want /\ grants' = grants /\ users' = users
  BY DEF AccountsInv, Reject
<1>2. WantTypes'
  BY <1>1 DEF WantTypes
<1>3. serving' = [serving EXCEPT ![c] = NoRequest]
  BY DEF Reject
<1>4. QED
  BY <1>1, <1>2, <1>3, Ended

LEMMA Raised ==
  ASSUME AccountsInv, NEW c \in Clients, Raise(c)
  PROVE  AccountsInv'
<1>1. WantTypes /\ grants' = grants /\ users' = users /\ serving' = [serving EXCEPT ![c] = NoRequest]
  BY DEF AccountsInv, Raise
<1>2. /\ want' = [x \in DOMAIN want |-> IF x \in DOMAIN serving[c].ask THEN Unknown ELSE want[x]]
      /\ DOMAIN want = Roles \union Members
  BY <1>1 DEF Raise, Outcome, WantTypes
<1>3. ASSUME NEW x \in Roles \union Members
      PROVE  /\ want'[x] = IF x \in DOMAIN serving[c].ask THEN Unknown ELSE want[x]
             /\ DOMAIN want'[x] = {"known", "set"}
             /\ x \in Roles => want'[x].set \subseteq Perms
             /\ x \in Members => want'[x].set \subseteq Roles
             /\ want'[x].known => want'[x] = want[x] /\ x \notin DOMAIN serving[c].ask
  <2>1. want'[x] = IF x \in DOMAIN serving[c].ask THEN Unknown ELSE want[x]
    BY <1>2
  <2>2. CASE x \in DOMAIN serving[c].ask
    BY <2>1, <2>2, KnownIs
  <2>3. CASE x \notin DOMAIN serving[c].ask
    BY <1>1, <2>1, <2>3 DEF WantTypes
  <2>4. QED
    BY <2>1, <2>2, <2>3
<1>4. WantTypes'
  BY <1>2, <1>3, WantTypesAre
<1>5. QED
  BY <1>1, <1>3, <1>4, Ended

(* A role or a permission is deleted. *)
LEMMA Dropped ==
  ASSUME AccountsInv, NEW c \in Clients, NEW x \in Roles \union Perms, Drops(c, x), RowTypes',
         DOMAIN serving[c].ask \subseteq {x},
         \A r \in Roles \ {x} : \A S \in SUBSET Perms :
           RoleFits(grants, r, S) => RoleFits(grants', r, S \ {x}),
         \A m \in Members : \A S \in SUBSET Roles :
           MemberFits(users, m, S) => MemberFits(users', m, S \ {x})
  PROVE  AccountsInv'
<1>1. /\ DOMAIN serving = Clients /\ \A d \in Clients : DOMAIN serving[d] = {"todo", "ask", "clear"}
      /\ RowTypes /\ WantTypes
  BY DEF AccountsInv, RequestTypes
<1>2. serving' = [d \in Clients |->
        IF d = c \/ serving[d].todo = <<>> THEN NoRequest ELSE [serving[d] EXCEPT !.clear = FALSE]]
  BY DEF Drops
<1>3. /\ DOMAIN serving' = Clients /\ serving'[c] = NoRequest
      /\ \A d \in Clients : serving[d].todo = <<>> => serving'[d] = NoRequest
      /\ \A d \in Clients : d # c /\ serving[d].todo # <<>> =>
           /\ serving'[d].todo = serving[d].todo /\ serving'[d].ask = serving[d].ask
           /\ ~serving'[d].clear /\ DOMAIN serving'[d] = {"todo", "ask", "clear"}
  BY <1>1, <1>2
<1>4. /\ serving'[c].todo = <<>> /\ serving'[c].todo \in Seq(Stmts) /\ AsksFor(serving'[c].ask)
      /\ Formed(serving'[c].todo, serving'[c].ask)
  BY <1>3, NoRequestIs
<1>5. \A d \in Clients : DOMAIN serving'[d] = {"todo", "ask", "clear"}
  <2>1. ASSUME NEW d \in Clients PROVE DOMAIN serving'[d] = {"todo", "ask", "clear"}
    <3>1. CASE d = c \/ serving[d].todo = <<>>
      BY <1>3, <3>1, NoRequestIs
    <3>2. CASE ~(d = c \/ serving[d].todo = <<>>)
      BY <1>3, <3>2
    <3>3. QED
      BY <3>1, <3>2
  <2>2. QED
    BY <2>1
<1>6. WantTypes' /\ \A y \in Roles \union Members :
        want'[y].known => want[y].known /\ y # x /\ want'[y].set = want[y].set \ {x}
  <2>1. want' = [y \in DOMAIN want |-> IF y = x THEN Unknown ELSE [want[y] EXCEPT !.set = @ \ {x}]]
    BY DEF Drops
  <2>2. DOMAIN want = Roles \union Members /\ DOMAIN want' = Roles \union Members
    BY <1>1, <2>1 DEF WantTypes
  <2>3. ASSUME NEW y \in Roles \union Members
        PROVE  /\ DOMAIN want'[y] = {"known", "set"}
               /\ y \in Roles => want'[y].set \subseteq Perms
               /\ y \in Members => want'[y].set \subseteq Roles
               /\ want'[y].known => want[y].known /\ y # x /\ want'[y].set = want[y].set \ {x}
    <3>1. CASE y = x
      <4>1. want'[y] = Unknown
        BY <2>1, <2>2, <3>1
      <4>2. QED
        BY <4>1, KnownIs
    <3>2. CASE y # x
      <4>1. want'[y] = [want[y] EXCEPT !.set = @ \ {x}] /\ DOMAIN want[y] = {"known", "set"}
        BY <1>1, <2>1, <2>2, <3>2 DEF WantTypes
      <4>2. /\ DOMAIN want'[y] = {"known", "set"} /\ want'[y].set = want[y].set \ {x}
            /\ want'[y].known => want[y].known
        BY <4>1
      <4>3. QED
        BY <1>1, <3>2, <4>2 DEF WantTypes
    <3>3. QED
      BY <3>1, <3>2
  <2>4. QED
    BY <2>2, <2>3, WantTypesAre
<1>7. ASSUME NEW y \in Roles \union Members, want'[y].known, Idle(y)' PROVE Idle(y) /\ want[y].known
  <2>1. ASSUME NEW d \in Clients, Begun(d, y) PROVE FALSE
    <3>1. d # c
      BY <1>6, <1>7, <2>1 DEF Begun, Edits
    <3>2. Begun(d, y)'
      BY <1>3, <2>1, <3>1 DEF Begun, Edits
    <3>3. QED
      BY <1>7, <3>2 DEF Idle
  <2>2. QED
    BY <1>6, <1>7, <2>1 DEF Idle
<1>8. FitsInv'
  <2>1. ASSUME NEW r \in Roles, want'[r].known, Idle(r)' PROVE RoleFits(grants', r, want'[r].set)
    <3>1. RoleFits(grants, r, want[r].set) /\ r # x /\ want'[r].set = want[r].set \ {x}
      BY <1>6, <1>7, <2>1 DEF AccountsInv, FitsInv
    <3>2. want[r].set \in SUBSET Perms
      BY <1>1 DEF WantTypes
    <3>3. QED
      BY <3>1, <3>2
  <2>2. ASSUME NEW m \in Members, want'[m].known, Idle(m)' PROVE MemberFits(users', m, want'[m].set)
    <3>1. MemberFits(users, m, want[m].set) /\ want'[m].set = want[m].set \ {x}
      BY <1>6, <1>7, <2>2 DEF AccountsInv, FitsInv
    <3>2. want[m].set \in SUBSET Roles
      BY <1>1 DEF WantTypes
    <3>3. QED
      BY <3>1, <3>2
  <2>3. QED
    BY <2>1, <2>2 DEF FitsInv
<1>9. ASSUME NEW d \in Clients PROVE ~(serving'[d].todo # <<>> /\ serving'[d].clear)
  <2>1. CASE d = c \/ serving[d].todo = <<>>
    BY <1>3, <2>1, NoRequestIs
  <2>2. CASE ~(d = c \/ serving[d].todo = <<>>)
    BY <1>3, <2>2
  <2>3. QED
    BY <2>1, <2>2
<1>10. RequestTypes'
  <2>1. ASSUME NEW d \in Clients
        PROVE  /\ serving'[d].todo \in Seq(Stmts) /\ AsksFor(serving'[d].ask)
               /\ Formed(serving'[d].todo, serving'[d].ask)
    <3>1. CASE d = c \/ serving[d].todo = <<>>
      BY <1>3, <3>1, NoRequestIs
    <3>2. CASE ~(d = c \/ serving[d].todo = <<>>)
      BY <1>3, <3>2 DEF AccountsInv, RequestTypes
    <3>3. QED
      BY <3>1, <3>2
  <2>2. QED
    BY <1>3, <1>5, <2>1 DEF RequestTypes, AsksFor, Formed, Says, Ordered
<1>11. PlanInv' /\ AloneInv'
  BY <1>9 DEF PlanInv, AloneInv, Edits
<1>12. QED
  BY <1>6, <1>8, <1>10, <1>11 DEF AccountsInv

-----------------------------------------------------------------------------
(* The statements.                                                           *)

LEMMA Else ==
  ASSUME NEW q \in Seq(Stmts), q # <<>>, NEW ask, Formed(q, ask), NEW d, NEW y,
         Head(q).do # d \/ Head(q).on # y
  PROVE  AsIs(Tail(q), q, d, y)
<1> DEFINE h == Head(q)
           t == Tail(q)
<1>0. h.do # d \/ h.on # y
  OBVIOUS
<1>1. /\ \A e, x : Has(q, e, x) <=> (h.do = e /\ h.on = x) \/ Has(t, e, x)
      /\ \A e, x : Args(q, e, x) = (IF h.do = e /\ h.on = x THEN h.arg ELSE {}) \union Args(t, e, x)
  BY HeadGone
<1> HIDE DEF h, t
<1>2. Has(q, d, y) <=> (h.do = d /\ h.on = y) \/ Has(t, d, y)
  BY <1>1
<1>3. Args(q, d, y) = (IF h.do = d /\ h.on = y THEN h.arg ELSE {}) \union Args(t, d, y)
  BY <1>1
<1>4. Has(t, d, y) <=> Has(q, d, y)
  BY <1>0, <1>2
<1>5. Args(t, d, y) = Args(q, d, y)
  BY <1>0, <1>3
<1>6. QED
  BY <1>4, <1>5 DEF AsIs, t

(* Only what is for x is another. *)
AllBut(x, l, q) == \A d, y : y # x => AsIs(l, q, d, y)
RowsBut(x, S, f, f2) == \A y \in S : y # x => Same(y, f, f2)

LEMMA PlanLeft ==
  ASSUME NEW q, NEW l, NEW ask, NEW g, NEW u, NEW g2, NEW u2, NEW x, Plan(q, ask, g, u),
         AllBut(x, l, q), RowsBut(x, Roles, g, g2), RowsBut(x, Members, u, u2),
         x \in Roles /\ x \in DOMAIN ask => RolePlan(l, x, ask[x], g2),
         x \in Members /\ x \in DOMAIN ask => MemberPlan(l, x, ask[x], u2)
  PROVE  Plan(l, ask, g2, u2)
<1>1. ASSUME NEW r \in Roles, r \in DOMAIN ask, r # x PROVE RolePlan(l, r, ask[r], g2)
  <2>1. RolePlan(q, r, ask[r], g) /\ Same(r, g, g2)
    BY <1>1 DEF Plan, RowsBut
  <2>2. \A d : (Has(l, d, r) <=> Has(q, d, r)) /\ Args(l, d, r) = Args(q, d, r)
    BY <1>1 DEF AsIs, AllBut
  <2>3. QED
    BY <2>1, <2>2 DEF RolePlan, Resets, Same
<1>2. ASSUME NEW m \in Members, m \in DOMAIN ask, m # x PROVE MemberPlan(l, m, ask[m], u2)
  <2>1. MemberPlan(q, m, ask[m], u) /\ Same(m, u, u2)
    BY <1>2 DEF Plan, RowsBut
  <2>2. \A d : (Has(l, d, m) <=> Has(q, d, m)) /\ Args(l, d, m) = Args(q, d, m)
    BY <1>2 DEF AsIs, AllBut
  <2>3. QED
    BY <2>1, <2>2 DEF MemberPlan, Same
<1>3. QED
  BY <1>1, <1>2 DEF Plan

(* The first statement of a request, and the others. *)
Current(c) == Head(serving[c].todo)
RestOf(c) == Tail(serving[c].todo)

(* A statement that reads, or writes what the plan does not speak of. *)
LEMMA ReadOn ==
  ASSUME AccountsInv, NEW c \in Clients, serving[c].todo # <<>>, AdvancesOn(c),
         Current(c).do \in {"check", "find", "count", "insertPermission"},
         grants' = grants, users' = users
  PROVE  AccountsInv'
<1> DEFINE q == serving[c].todo
           t == RestOf(c)
           h == Current(c)
           ask == serving[c].ask
<1>1. q \in Seq(Stmts) /\ Formed(q, ask) /\ RowTypes /\ q # <<>>
  BY DEF AccountsInv, RequestTypes
<1>3. Advances(c, t) /\ h.do \in {"check", "find", "count", "insertPermission"}
  BY DEF AdvancesOn, RestOf
<1>p. serving[c].clear => Plan(q, ask, grants, users)
  BY DEF AccountsInv, PlanInv
<1> HIDE DEF q, ask
<1>2. /\ t \in Seq(Stmts) /\ Formed(t, ask) /\ h \in Stmts
      /\ \A d, x : Has(q, d, x) <=> (h.do = d /\ h.on = x) \/ Has(t, d, x)
      /\ \A d, x : Args(q, d, x) = (IF h.do = d /\ h.on = x THEN h.arg ELSE {}) \union Args(t, d, x)
      /\ May(q) <=> h.do \in First \/ May(t)
  BY <1>1, HeadGone DEF Current, RestOf, q
<1>a. ASSUME NEW d, NEW x, h.do # d PROVE AsIs(t, q, d, x)
  BY <1>1, <1>a, Else DEF Current, RestOf, q
<1> HIDE DEF t, h
<1>4. RowTypes'
  BY <1>1 DEF RowTypes
<1>5. \A x : Same(x, grants, grants') /\ Same(x, users, users')
  BY DEF Same
<1>6. ASSUME serving[c].clear PROVE Plan(t, ask, grants', users')
  <2>1. Plan(q, ask, grants, users)
    BY <1>6, <1>p
  <2>2. ASSUME NEW d, NEW x, d \notin {"check", "find", "count", "insertPermission"}
        PROVE  (Has(t, d, x) <=> Has(q, d, x)) /\ Args(t, d, x) = Args(q, d, x)
    BY <1>a, <1>3, <2>2 DEF AsIs
  <2>3. ASSUME NEW r \in Roles, r \in DOMAIN ask PROVE RolePlan(t, r, ask[r], grants)
    <3>1. RolePlan(q, r, ask[r], grants)
      BY <2>1, <2>3 DEF Plan
    <3>2. /\ (Has(t, "deleteRole", r) <=> Has(q, "deleteRole", r))
          /\ (Has(t, "ungrant", r) <=> Has(q, "ungrant", r))
          /\ (Has(t, "insertRole", r) <=> Has(q, "insertRole", r))
          /\ (Has(t, "upsertRole", r) <=> Has(q, "upsertRole", r))
          /\ Args(t, "grant", r) = Args(q, "grant", r)
      BY <2>2
    <3>3. QED
      BY <3>1, <3>2 DEF RolePlan, Resets
  <2>4. ASSUME NEW m \in Members, m \in DOMAIN ask PROVE MemberPlan(t, m, ask[m], users)
    <3>1. MemberPlan(q, m, ask[m], users)
      BY <2>1, <2>4 DEF Plan
    <3>2. /\ (Has(t, "deleteUser", m) <=> Has(q, "deleteUser", m))
          /\ (Has(t, "unassign", m) <=> Has(q, "unassign", m))
          /\ (Has(t, "insertUser", m) <=> Has(q, "insertUser", m))
          /\ (Has(t, "setLegacy", m) <=> Has(q, "setLegacy", m))
          /\ Args(t, "assign", m) = Args(q, "assign", m)
          /\ Args(t, "insertUser", m) = Args(q, "insertUser", m)
          /\ Args(t, "setLegacy", m) = Args(q, "setLegacy", m)
      BY <2>2
    <3>3. QED
      BY <3>1, <3>2 DEF MemberPlan
  <2>5. QED
    BY <2>3, <2>4 DEF Plan
<1>7. May(t) => May(q)
  BY <1>2
<1>8. QED
  BY <1>1, <1>2, <1>3, <1>4, <1>5, <1>6, <1>7, Advanced DEF q, ask

(* A statement that writes the row it is for. *)
LEMMA WroteOne ==
  ASSUME AccountsInv, NEW c \in Clients, serving[c].todo # <<>>, AdvancesOn(c),
         Current(c).do \in (RoleVerbs \union UserVerbs) \ {"count"}, RowTypes',
         NEW x, x = Current(c).on,
         RowsBut(x, Roles, grants, grants'), RowsBut(x, Members, users, users'),
         serving[c].clear /\ x \in Roles =>
           RolePlan(RestOf(c), x, serving[c].ask[x], grants'),
         serving[c].clear /\ x \in Members =>
           MemberPlan(RestOf(c), x, serving[c].ask[x], users')
  PROVE  AccountsInv'
<1> DEFINE q == serving[c].todo
           t == RestOf(c)
           h == Current(c)
           ask == serving[c].ask
<1>1. q \in Seq(Stmts) /\ Formed(q, ask) /\ q # <<>>
  BY DEF AccountsInv, RequestTypes
<1>3. Advances(c, t) /\ h.do \in (RoleVerbs \union UserVerbs) \ {"count"} /\ x = h.on
  BY DEF AdvancesOn, RestOf
<1>p. serving[c].clear => /\ Plan(q, ask, grants, users)
                          /\ x \in Roles => RolePlan(t, x, ask[x], grants')
                          /\ x \in Members => MemberPlan(t, x, ask[x], users')
  BY DEF AccountsInv, PlanInv
<1> HIDE DEF q, ask
<1>2. /\ t \in Seq(Stmts) /\ Formed(t, ask) /\ h \in Stmts /\ Says(h, ask)
      /\ \A d, y : Has(q, d, y) <=> (h.do = d /\ h.on = y) \/ Has(t, d, y)
      /\ \A d, y : Args(q, d, y) = (IF h.do = d /\ h.on = y THEN h.arg ELSE {}) \union Args(t, d, y)
      /\ May(t) => h.do \in {"check", "find"}
  BY <1>1, HeadGone DEF Current, RestOf, q
<1>a. ASSUME NEW d, NEW y, h.on # y PROVE AsIs(t, q, d, y)
  BY <1>1, <1>a, Else DEF Current, RestOf, q
<1> HIDE DEF t, h
<1>4. x \in DOMAIN ask
  BY <1>2, <1>3 DEF Says
<1>5. ~May(t)
  BY <1>2, <1>3 DEF RoleVerbs, UserVerbs
<1>6. ASSUME serving[c].clear PROVE Plan(t, ask, grants', users')
  <2>1. Plan(q, ask, grants, users)
    BY <1>6, <1>p
  <2>2. AllBut(x, t, q)
    BY <1>3, <1>a DEF AllBut
  <2>3. /\ x \in Roles /\ x \in DOMAIN ask => RolePlan(t, x, ask[x], grants')
        /\ x \in Members /\ x \in DOMAIN ask => MemberPlan(t, x, ask[x], users')
    BY <1>6, <1>p
  <2>4. QED
    BY <2>1, <2>2, <2>3, PlanLeft
<1>7. /\ \A r \in Roles : r \notin DOMAIN ask => Same(r, grants, grants')
      /\ \A m \in Members : m \notin DOMAIN ask => Same(m, users, users')
  BY <1>4 DEF RowsBut
<1>8. QED
  BY <1>1, <1>2, <1>3, <1>5, <1>6, <1>7, Advanced DEF q, ask

(* What the first statement says of its row. *)
LEMMA Now ==
  ASSUME AccountsInv, NEW c \in Clients, serving[c].todo # <<>>
  PROVE  LET q == serving[c].todo
             h == Current(c)
             t == RestOf(c)
             ask == serving[c].ask
         IN /\ h \in Stmts /\ Says(h, ask) /\ RowTypes /\ AsksFor(ask)
            /\ \A d : d # h.do => AsIs(t, q, d, h.on)
            /\ \A d : ~(Level(h.do) < Level(d)) => ~Has(t, d, h.on) /\ Args(t, d, h.on) = {}
            /\ Has(q, h.do, h.on) /\ Args(q, h.do, h.on) = h.arg
            /\ h.do \in First => May(q)
            /\ serving[c].clear => Plan(q, ask, grants, users)
<1> DEFINE q == serving[c].todo
           t == RestOf(c)
           h == Current(c)
           ask == serving[c].ask
<1>1. q \in Seq(Stmts) /\ Formed(q, ask) /\ RowTypes /\ AsksFor(ask) /\ q # <<>>
  BY DEF AccountsInv, RequestTypes
<1>5. serving[c].clear => Plan(q, ask, grants, users)
  BY DEF AccountsInv, PlanInv
<1> HIDE DEF q, ask
<1>2. /\ h \in Stmts /\ Says(h, ask)
      /\ \A d, y : Has(q, d, y) <=> (h.do = d /\ h.on = y) \/ Has(t, d, y)
      /\ \A d, y : Args(q, d, y) = (IF h.do = d /\ h.on = y THEN h.arg ELSE {}) \union Args(t, d, y)
      /\ \A d, y : y = h.on /\ ~(Level(h.do) < Level(d)) => ~Has(t, d, y) /\ Args(t, d, y) = {}
      /\ May(q) <=> h.do \in First \/ May(t)
  BY <1>1, HeadGone DEF Current, RestOf, q
<1>7. \A d : d # h.do => AsIs(t, q, d, h.on)
  <2>1. ASSUME NEW d, d # h.do PROVE AsIs(t, q, d, h.on)
    BY <1>1, <2>1, Else DEF Current, RestOf, q
  <2>2. QED
    BY <2>1
<1>3. Level(h.do) \in 0 .. 4
  BY <1>2, Levels DEF Stmts
<1>4. ~(Level(h.do) < Level(h.do))
  BY <1>3
<1> HIDE DEF t, h
<1>6. Args(t, h.do, h.on) = {}
  BY <1>2, <1>4
<1>8. Has(q, h.do, h.on) /\ Args(q, h.do, h.on) = h.arg
  BY <1>2, <1>6
<1>9. \A d : ~(Level(h.do) < Level(d)) => ~Has(t, d, h.on) /\ Args(t, d, h.on) = {}
  BY <1>2
<1>10. QED
  BY <1>1, <1>2, <1>5, <1>7, <1>8, <1>9 DEF q, t, h, ask

(* What a statement does: the request has it as its first. *)
LEMMA DoesIs ==
  ASSUME NEW c, NEW do, Does(c, do)
  PROVE  /\ serving[c].todo # <<>> /\ Current(c).do = do
         /\ Target(c) = Current(c).on /\ Arg(c) = Current(c).arg
BY DEF Does, Current, Target, Arg

LEMMA MayNow ==
  ASSUME AccountsInv, NEW c \in Clients, serving[c].todo # <<>>, Current(c).do \in First
  PROVE  May(serving[c].todo)
BY Now

LEMMA CheckKeeps == ASSUME AccountsInv, NEW c \in Clients, Check(c) PROVE AccountsInv'
<1>1. serving[c].todo # <<>> /\ Current(c).do = "check"
  BY DoesIs DEF Check
<1>2. CASE AdvancesOn(c) /\ UNCHANGED <<permission, grants, users>>
  BY <1>1, <1>2, ReadOn
<1>3. CASE Reject(c)
  BY <1>1, <1>3, MayNow, Rejected DEF First
<1>4. QED
  BY <1>2, <1>3 DEF Check

LEMMA FindKeeps == ASSUME AccountsInv, NEW c \in Clients, FindRow(c) PROVE AccountsInv'
<1>1. serving[c].todo # <<>> /\ Current(c).do = "find"
  BY DoesIs DEF FindRow
<1>2. CASE AdvancesOn(c) /\ UNCHANGED <<permission, grants, users>>
  BY <1>1, <1>2, ReadOn
<1>3. CASE Reject(c)
  BY <1>1, <1>3, MayNow, Rejected DEF First
<1>4. QED
  BY <1>2, <1>3 DEF FindRow

LEMMA CountKeeps == ASSUME AccountsInv, NEW c \in Clients, CountHolders(c) PROVE AccountsInv'
<1>1. serving[c].todo # <<>> /\ Current(c).do = "count"
  BY DoesIs DEF CountHolders
<1>2. CASE AdvancesOn(c) /\ UNCHANGED <<permission, grants, users>>
  BY <1>1, <1>2, ReadOn
<1>3. CASE Reject(c)
  BY <1>1, <1>3, MayNow, Rejected DEF First
<1>4. QED
  BY <1>2, <1>3 DEF CountHolders

LEMMA InsertPermissionKeeps ==
  ASSUME AccountsInv, NEW c \in Clients, InsertPermission(c) PROVE AccountsInv'
<1>1. serving[c].todo # <<>> /\ Current(c).do = "insertPermission"
  BY DoesIs DEF InsertPermission
<1>2. CASE AdvancesOn(c) /\ UNCHANGED <<grants, users>>
  BY <1>1, <1>2, ReadOn
<1>3. CASE Reject(c)
  <2>1. WantTypes /\ want' = want /\ grants' = grants /\ users' = users
        /\ serving' = [serving EXCEPT ![c] = NoRequest]
    BY <1>3 DEF AccountsInv, Reject
  <2>2. WantTypes'
    BY <2>1 DEF WantTypes
  <2>3. DOMAIN serving[c].ask = {}
    BY <1>1, Now DEF Says, PermVerbs
  <2>4. QED
    BY <2>1, <2>2, <2>3, Ended
<1>4. QED
  BY <1>2, <1>3 DEF InsertPermission

-----------------------------------------------------------------------------
(* Statements that write a role.                                             *)

LEMMA LevelsOf ==
  /\ Level("check") = 0 /\ Level("find") = 1 /\ Level("count") = 2
  /\ Level("insertRole") = 2 /\ Level("upsertRole") = 2 /\ Level("ungrant") = 2
  /\ Level("insertUser") = 2 /\ Level("unassign") = 2
  /\ Level("grant") = 3 /\ Level("assign") = 3 /\ Level("deleteRole") = 3
  /\ Level("setLegacy") = 4 /\ Level("deleteUser") = 4
BY DEF Level

(* What the first statement leaves to do for its row. *)
LEMMA ForRole ==
  ASSUME AccountsInv, NEW c \in Clients, serving[c].todo # <<>>, Current(c).do \in RoleVerbs
  PROVE  LET q == serving[c].todo
             x == Current(c).on
             t == RestOf(c)
         IN /\ x \in Roles /\ x \in DOMAIN serving[c].ask /\ x \notin Members
            /\ serving[c].clear => RolePlan(q, x, serving[c].ask[x], grants)
            /\ \A d : d # Current(c).do =>
                 (Has(t, d, x) <=> Has(q, d, x)) /\ Args(t, d, x) = Args(q, d, x)
            /\ \A d : ~(Level(Current(c).do) < Level(d)) => ~Has(t, d, x) /\ Args(t, d, x) = {}
            /\ Has(q, Current(c).do, x) /\ Args(q, Current(c).do, x) = Current(c).arg
<1>1. /\ Current(c).on \in Roles /\ Current(c).on \in DOMAIN serving[c].ask
  BY Now DEF Says
<1>2. Current(c).on \notin Members
  BY <1>1, AccountsAssumption
<1>3. ASSUME NEW d, d # Current(c).do
      PROVE  /\ Has(RestOf(c), d, Current(c).on) <=> Has(serving[c].todo, d, Current(c).on)
             /\ Args(RestOf(c), d, Current(c).on) = Args(serving[c].todo, d, Current(c).on)
  <2>1. AsIs(RestOf(c), serving[c].todo, d, Current(c).on)
    BY <1>3, Now
  <2>2. QED
    BY <2>1 DEF AsIs
<1>4. serving[c].clear => RolePlan(serving[c].todo, Current(c).on, serving[c].ask[Current(c).on], grants)
  BY <1>1, Now DEF Plan
<1>5. QED
  BY <1>1, <1>2, <1>3, <1>4, Now

LEMMA InsertRoleKeeps == ASSUME AccountsInv, NEW c \in Clients, InsertRole(c) PROVE AccountsInv'
<1>1. CASE Does(c, "insertRole") /\ Reject(c)
  <2>1. serving[c].todo # <<>> /\ Current(c).do = "insertRole"
    BY <1>1, DoesIs
  <2>2. QED
    BY <1>1, <2>1, MayNow, Rejected DEF First
<1>2. ASSUME Does(c, "insertRole") \/ Does(c, "upsertRole"),
             Target(c) \notin DOMAIN grants \/ Does(c, "upsertRole"),
             grants' = [r \in DOMAIN grants \union {Target(c)} |->
                          IF r \in DOMAIN grants THEN grants[r] ELSE {}],
             AdvancesOn(c), UNCHANGED <<permission, users>>
      PROVE  AccountsInv'
  <2> DEFINE x == Current(c).on
             do == Current(c).do
             q == serving[c].todo
             t == RestOf(c)
             A == serving[c].ask[x]
  <2>1. /\ q # <<>> /\ do \in {"insertRole", "upsertRole"} /\ Target(c) = x
        /\ do = "insertRole" => x \notin DOMAIN grants
    <3>1. CASE Does(c, "insertRole")
      BY <1>2, <3>1, DoesIs DEF Does
    <3>2. CASE Does(c, "upsertRole")
      <4>1. /\ serving[c].todo # <<>> /\ Current(c).do = "upsertRole"
            /\ Target(c) = Current(c).on
        BY <3>2, DoesIs
      <4>2. QED
        BY <4>1
    <3>3. QED
      BY <1>2, <3>1, <3>2
  <2>2. /\ x \in Roles /\ x \notin Members
        /\ serving[c].clear => RolePlan(q, x, A, grants)
        /\ \A d : d # do => (Has(t, d, x) <=> Has(q, d, x)) /\ Args(t, d, x) = Args(q, d, x)
        /\ \A d : ~(Level(do) < Level(d)) => ~Has(t, d, x) /\ Args(t, d, x) = {}
        /\ Has(q, do, x)
    BY <2>1, ForRole DEF RoleVerbs
  <2>3. RowTypes
    BY DEF AccountsInv
  <2>4. AdvancesOn(c) /\ users' = users /\ grants' = [r \in DOMAIN grants \union {x} |->
                          IF r \in DOMAIN grants THEN grants[r] ELSE {}]
    BY <1>2, <2>1
  <2>5. Current(c).do \in (RoleVerbs \union UserVerbs) \ {"count"} /\ serving[c].todo # <<>>
    BY <2>1 DEF RoleVerbs
  <2> HIDE DEF x, do, q, t, A
  <2>6. RowTypes'
    BY <2>2, <2>3, <2>4 DEF RowTypes
  <2>7. RowsBut(x, Roles, grants, grants') /\ RowsBut(x, Members, users, users')
    BY <2>4 DEF RowsBut, Same
  <2>8. ASSUME serving[c].clear PROVE RolePlan(t, x, A, grants')
    <3>1. ASSUME ~Has(t, "deleteRole", x)
          PROVE  /\ Args(t, "grant", x) = A /\ ~Has(t, "upsertRole", x) /\ grants'[x] = {}
      <4>1. ~Has(q, "deleteRole", x) /\ Args(t, "grant", x) = Args(q, "grant", x)
        BY <2>1, <2>2, <3>1
      <4>2. Resets(q, x)
        BY <2>1, <2>2 DEF Resets
      <4>3. Args(q, "grant", x) = A /\ (do = "upsertRole" => x \notin DOMAIN grants)
        BY <2>2, <2>8, <4>1, <4>2 DEF RolePlan
      <4>4. x \notin DOMAIN grants
        BY <2>1, <4>3
      <4>5. ~(Level(do) < Level("upsertRole"))
        <5>1. Level("insertRole") = 2 /\ Level("upsertRole") = 2
          BY DEF Level
        <5>2. Level(do) = 2
          BY <2>1, <5>1
        <5>3. QED
          BY <5>1, <5>2
      <4>6. QED
        BY <2>2, <2>4, <4>1, <4>3, <4>4, <4>5
    <3>2. QED
      BY <3>1 DEF RolePlan
  <2>9. QED
    BY <2>2, <2>4, <2>5, <2>6, <2>7, <2>8, WroteOne DEF x, t, A
<1>3. QED
  BY <1>1, <1>2 DEF InsertRole

LEMMA UngrantKeeps == ASSUME AccountsInv, NEW c \in Clients, Ungrant(c) PROVE AccountsInv'
<1> DEFINE x == Current(c).on
           q == serving[c].todo
           t == RestOf(c)
           A == serving[c].ask[x]
<1>1. q # <<>> /\ Current(c).do = "ungrant" /\ Target(c) = x
  BY DoesIs DEF Ungrant
<1>2. /\ x \in Roles /\ x \notin Members
      /\ serving[c].clear => RolePlan(q, x, A, grants)
      /\ \A d : d # "ungrant" => (Has(t, d, x) <=> Has(q, d, x)) /\ Args(t, d, x) = Args(q, d, x)
      /\ \A d : ~(Level("ungrant") < Level(d)) => ~Has(t, d, x) /\ Args(t, d, x) = {}
      /\ Has(q, "ungrant", x)
  BY <1>1, ForRole DEF RoleVerbs
<1>3. RowTypes
  BY DEF AccountsInv
<1>4. AdvancesOn(c) /\ users' = users /\ grants' = [r \in DOMAIN grants |-> IF r = x THEN {} ELSE grants[r]]
  BY <1>1 DEF Ungrant
<1>5. Current(c).do \in (RoleVerbs \union UserVerbs) \ {"count"} /\ serving[c].todo # <<>>
  BY <1>1 DEF RoleVerbs
<1> HIDE DEF x, q, t, A
<1>6. RowTypes'
  BY <1>3, <1>4 DEF RowTypes
<1>7. RowsBut(x, Roles, grants, grants') /\ RowsBut(x, Members, users, users')
  BY <1>4 DEF RowsBut, Same
<1>8. ASSUME serving[c].clear PROVE RolePlan(t, x, A, grants')
  <2>1. ASSUME ~Has(t, "deleteRole", x)
        PROVE  /\ Args(t, "grant", x) = A /\ ~Has(t, "upsertRole", x)
               /\ x \in DOMAIN grants' => grants'[x] = {}
    <3>1. ~Has(q, "deleteRole", x) /\ Args(t, "grant", x) = Args(q, "grant", x)
      BY <1>2, <2>1
    <3>2. Resets(q, x)
      BY <1>2 DEF Resets
    <3>3. Args(q, "grant", x) = A
      BY <1>2, <1>8, <3>1, <3>2 DEF RolePlan
    <3>4. ~(Level("ungrant") < Level("upsertRole"))
      BY DEF Level
    <3>5. QED
      BY <1>2, <1>4, <3>1, <3>3, <3>4
  <2>2. QED
    BY <2>1 DEF RolePlan
<1>9. QED
  BY <1>2, <1>4, <1>5, <1>6, <1>7, <1>8, WroteOne DEF x, t, A

(* The rest of a loop, after one item. *)
LEMMA LoopLeft ==
  ASSUME AccountsInv, NEW c \in Clients, serving[c].todo # <<>>,
         Current(c).do \in {"grant", "assign"}, NEW i
  PROVE  LET q == serving[c].todo
             l == After(c, i)
             x == Current(c).on
             do == Current(c).do
         IN /\ l \in Seq(Stmts) /\ Formed(l, serving[c].ask) /\ ~May(l) /\ ~May(q)
            /\ AllBut(x, l, q) /\ Args(q, do, x) = Arg(c) /\ Args(l, do, x) = Arg(c) \ {i}
            /\ \A d : d # do => (Has(l, d, x) <=> Has(q, d, x)) /\ Args(l, d, x) = Args(q, d, x)
<1> DEFINE q == serving[c].todo
           ask == serving[c].ask
           h == Head(q)
           S == h.arg \ {i}
           l == ForEach(h.do, h.on, S) \o Tail(q)
<1>1. q \in Seq(Stmts) /\ Formed(q, ask) /\ q # <<>> /\ h.do \in {"grant", "assign"} /\ S \subseteq h.arg
  BY DEF AccountsInv, RequestTypes, Current
<1>2. h = Current(c) /\ After(c, i) = l /\ Arg(c) = h.arg
  BY DEF Current, After, Target, Arg
<1> HIDE DEF q, ask, S
<1>3. /\ l \in Seq(Stmts) /\ Formed(l, ask) /\ ~May(l) /\ ~May(q)
      /\ Args(q, h.do, h.on) = h.arg /\ Args(l, h.do, h.on) = S
      /\ \A d, x : d # h.do \/ x # h.on => AsIs(l, q, d, x)
  <2>1. LeftOfLoop(q, ask, S, Head(q), LoopLeaves(q, S))
    BY <1>1, LoopGoesOn
  <2>2. QED
    BY <2>1 DEF LeftOfLoop, LoopLeaves
<1> HIDE DEF h, l
<1>5. AllBut(h.on, l, q)
  BY <1>3 DEF AllBut
<1>6. ASSUME NEW d, d # h.do
      PROVE  (Has(l, d, h.on) <=> Has(q, d, h.on)) /\ Args(l, d, h.on) = Args(q, d, h.on)
  BY <1>3, <1>6 DEF AsIs
<1>7. QED
  BY <1>2, <1>3, <1>5, <1>6 DEF q, ask, S

LEMMA GrantKeeps == ASSUME AccountsInv, NEW c \in Clients, Grant(c) PROVE AccountsInv'
<1>0. serving[c].todo # <<>> /\ Current(c).do = "grant" /\ Target(c) = Current(c).on /\ Arg(c) = Current(c).arg
  BY DoesIs DEF Grant
<1>1. PICK p \in Arg(c) :
        IF Target(c) \in DOMAIN grants /\ p \in permission
          THEN /\ grants' = [grants EXCEPT ![Target(c)] = @ \union {p}]
               /\ Advances(c, After(c, p)) /\ UNCHANGED <<permission, users>>
          ELSE Raise(c) /\ UNCHANGED broken
  BY DEF Grant
<1>2. CASE ~(Target(c) \in DOMAIN grants /\ p \in permission)
  BY <1>1, <1>2, Raised
<1>3. CASE Target(c) \in DOMAIN grants /\ p \in permission
  <2> DEFINE x == Current(c).on
             q == serving[c].todo
             t == RestOf(c)
             ask == serving[c].ask
             B == Arg(c)
             l == After(c, p)
  <2>1. /\ x \in Roles /\ x \in DOMAIN ask /\ x \notin Members
        /\ serving[c].clear => RolePlan(q, x, ask[x], grants)
        /\ \A d : d # "grant" => (Has(t, d, x) <=> Has(q, d, x)) /\ Args(t, d, x) = Args(q, d, x)
        /\ \A d : ~(Level("grant") < Level(d)) => ~Has(t, d, x) /\ Args(t, d, x) = {}
    BY <1>0, ForRole DEF RoleVerbs
  <2>2. /\ l \in Seq(Stmts) /\ Formed(l, ask) /\ ~May(l)
        /\ AllBut(x, l, q) /\ Args(q, "grant", x) = B /\ Args(l, "grant", x) = B \ {p}
        /\ \A d : d # "grant" => (Has(l, d, x) <=> Has(q, d, x)) /\ Args(l, d, x) = Args(q, d, x)
    BY <1>0, LoopLeft
  <2>3. RowTypes /\ q # <<>> /\ B \subseteq Perms
    BY <1>0, Now DEF Says
  <2>4. /\ x \in DOMAIN grants /\ p \in B /\ users' = users /\ Advances(c, l)
        /\ grants' = [grants EXCEPT ![x] = @ \union {p}]
    BY <1>0, <1>1, <1>3
  <2>5. serving[c].clear => Plan(q, ask, grants, users)
    BY <1>0 DEF AccountsInv, PlanInv
  <2> HIDE DEF x, q, t, ask, B, l
  <2>6. grants'[x] = grants[x] \union {p} /\ DOMAIN grants' = DOMAIN grants
        /\ \A r \in DOMAIN grants : r # x => grants'[r] = grants[r]
    BY <2>4
  <2>7. RowTypes'
    BY <2>3, <2>4, <2>6 DEF RowTypes
  <2>8. RowsBut(x, Roles, grants, grants') /\ RowsBut(x, Members, users, users')
    BY <2>4, <2>6 DEF RowsBut, Same
  <2>9. ASSUME serving[c].clear PROVE Plan(l, ask, grants', users')
    <3>1. /\ ~Has(l, "ungrant", x) /\ ~Has(l, "insertRole", x) /\ ~Has(l, "upsertRole", x)
          /\ ~Has(q, "ungrant", x) /\ ~Has(q, "insertRole", x) /\ ~Has(q, "upsertRole", x)
      <4>1. /\ ~(Level("grant") < Level("ungrant")) /\ ~(Level("grant") < Level("insertRole"))
            /\ ~(Level("grant") < Level("upsertRole"))
        BY DEF Level
      <4>2. QED
        BY <2>1, <2>2, <4>1
    <3>2. Has(l, "deleteRole", x) <=> Has(q, "deleteRole", x)
      BY <2>2
    <3>3. ASSUME ~Has(l, "deleteRole", x) PROVE grants'[x] \union Args(l, "grant", x) = ask[x]
      <4>1. grants[x] \union B = ask[x]
        BY <2>1, <2>2, <2>4, <2>9, <3>1, <3>2, <3>3 DEF RolePlan, Resets
      <4>2. QED
        BY <2>2, <2>4, <2>6, <4>1
    <3>4. RolePlan(l, x, ask[x], grants')
      BY <3>1, <3>3 DEF RolePlan, Resets
    <3>5. QED
      BY <2>1, <2>2, <2>5, <2>8, <2>9, <3>4, PlanLeft
  <2>10. /\ \A r \in Roles : r \notin DOMAIN ask => Same(r, grants, grants')
         /\ \A m \in Members : m \notin DOMAIN ask => Same(m, users, users')
    BY <2>1, <2>8 DEF RowsBut
  <2>11. QED
    BY <2>2, <2>3, <2>4, <2>7, <2>9, <2>10, Advanced DEF q, ask
<1>4. QED
  BY <1>2, <1>3

-----------------------------------------------------------------------------
(* Statements that write a user.                                             *)

LEMMA ForMember ==
  ASSUME AccountsInv, NEW c \in Clients, serving[c].todo # <<>>, Current(c).do \in UserVerbs
  PROVE  LET q == serving[c].todo
             x == Current(c).on
             t == RestOf(c)
         IN /\ x \in Members /\ x \in DOMAIN serving[c].ask /\ x \notin Roles
            /\ serving[c].clear => MemberPlan(q, x, serving[c].ask[x], users)
            /\ \A d : d # Current(c).do =>
                 (Has(t, d, x) <=> Has(q, d, x)) /\ Args(t, d, x) = Args(q, d, x)
            /\ \A d : ~(Level(Current(c).do) < Level(d)) => ~Has(t, d, x) /\ Args(t, d, x) = {}
            /\ Has(q, Current(c).do, x) /\ Args(q, Current(c).do, x) = Current(c).arg
<1>1. /\ Current(c).on \in Members /\ Current(c).on \in DOMAIN serving[c].ask
  BY Now DEF Says
<1>2. Current(c).on \notin Roles
  BY <1>1, AccountsAssumption
<1>3. ASSUME NEW d, d # Current(c).do
      PROVE  /\ Has(RestOf(c), d, Current(c).on) <=> Has(serving[c].todo, d, Current(c).on)
             /\ Args(RestOf(c), d, Current(c).on) = Args(serving[c].todo, d, Current(c).on)
  <2>1. AsIs(RestOf(c), serving[c].todo, d, Current(c).on)
    BY <1>3, Now
  <2>2. QED
    BY <2>1 DEF AsIs
<1>4. serving[c].clear => MemberPlan(serving[c].todo, Current(c).on, serving[c].ask[Current(c).on], users)
  BY <1>1, Now DEF Plan
<1>5. QED
  BY <1>1, <1>2, <1>3, <1>4, Now

LEMMA AssignKeeps == ASSUME AccountsInv, NEW c \in Clients, Assign(c) PROVE AccountsInv'
<1>0. serving[c].todo # <<>> /\ Current(c).do = "assign" /\ Target(c) = Current(c).on /\ Arg(c) = Current(c).arg
  BY DoesIs DEF Assign
<1>1. PICK r \in Arg(c) :
        IF Target(c) \in DOMAIN users /\ r \in DOMAIN grants
          THEN /\ users' = [users EXCEPT ![Target(c)].held = @ \union {r}]
               /\ Advances(c, After(c, r)) /\ UNCHANGED <<permission, grants>>
          ELSE Raise(c) /\ UNCHANGED broken
  BY DEF Assign
<1>2. CASE ~(Target(c) \in DOMAIN users /\ r \in DOMAIN grants)
  BY <1>1, <1>2, Raised
<1>3. CASE Target(c) \in DOMAIN users /\ r \in DOMAIN grants
  <2> DEFINE x == Current(c).on
             q == serving[c].todo
             t == RestOf(c)
             ask == serving[c].ask
             B == Arg(c)
             l == After(c, r)
             A == ask[x]
  <2>1. /\ x \in Members /\ x \in DOMAIN ask /\ x \notin Roles
        /\ serving[c].clear => MemberPlan(q, x, A, users)
        /\ \A d : d # "assign" => (Has(t, d, x) <=> Has(q, d, x)) /\ Args(t, d, x) = Args(q, d, x)
        /\ \A d : ~(Level("assign") < Level(d)) => ~Has(t, d, x) /\ Args(t, d, x) = {}
    BY <1>0, ForMember DEF UserVerbs
  <2>2. /\ l \in Seq(Stmts) /\ Formed(l, ask) /\ ~May(l)
        /\ AllBut(x, l, q) /\ Args(q, "assign", x) = B /\ Args(l, "assign", x) = B \ {r}
        /\ \A d : d # "assign" => (Has(l, d, x) <=> Has(q, d, x)) /\ Args(l, d, x) = Args(q, d, x)
    BY <1>0, LoopLeft
  <2>3. RowTypes /\ q # <<>> /\ B \subseteq Roles
    BY <1>0, Now DEF Says
  <2>4. /\ x \in DOMAIN users /\ r \in B /\ grants' = grants /\ Advances(c, l)
        /\ users' = [users EXCEPT ![x].held = @ \union {r}]
    BY <1>0, <1>1, <1>3
  <2>5. serving[c].clear => Plan(q, ask, grants, users)
    BY <1>0 DEF AccountsInv, PlanInv
  <2> HIDE DEF x, q, t, ask, B, l, A
  <2>a. users[x] \in [held : SUBSET Roles, legacy : SUBSET Roles]
    BY <2>3, <2>4 DEF RowTypes
  <2>6. /\ users'[x].held = users[x].held \union {r} /\ users'[x].legacy = users[x].legacy
        /\ users'[x] \in [held : SUBSET Roles, legacy : SUBSET Roles] /\ DOMAIN users' = DOMAIN users
        /\ \A m \in DOMAIN users : m # x => users'[m] = users[m]
    BY <2>a, <2>3, <2>4
  <2>7. RowTypes'
    BY <2>3, <2>4, <2>6 DEF RowTypes
  <2>8. RowsBut(x, Roles, grants, grants') /\ RowsBut(x, Members, users, users')
    BY <2>4, <2>6 DEF RowsBut, Same
  <2>9. ASSUME serving[c].clear PROVE Plan(l, ask, grants', users')
    <3>1. /\ ~Has(l, "unassign", x) /\ ~Has(l, "insertUser", x)
          /\ ~Has(q, "unassign", x) /\ ~Has(q, "insertUser", x)
      <4>1. ~(Level("assign") < Level("unassign")) /\ ~(Level("assign") < Level("insertUser"))
        BY DEF Level
      <4>2. QED
        BY <2>1, <2>2, <4>1
    <3>2. /\ Has(l, "deleteUser", x) <=> Has(q, "deleteUser", x)
          /\ Has(l, "setLegacy", x) <=> Has(q, "setLegacy", x)
          /\ Args(l, "setLegacy", x) = Args(q, "setLegacy", x)
      BY <2>2
    <3>3. ASSUME ~Has(l, "deleteUser", x)
          PROVE  /\ users'[x].held \union Args(l, "assign", x) = A
                 /\ A = {} \/ Has(l, "setLegacy", x) \/ users'[x].legacy \subseteq A
      <4>1. \/ users[x].held \union B = A /\ (A = {} \/ Has(q, "setLegacy", x) \/ users[x].legacy \subseteq A)
            \/ B = {}
        BY <2>1, <2>2, <2>4, <2>9, <3>1, <3>2, <3>3 DEF MemberPlan
      <4>2. B # {}
        BY <2>4
      <4>3. QED
        BY <2>2, <2>4, <2>6, <3>2, <4>1, <4>2
    <3>4. Args(l, "setLegacy", x) \subseteq A
      BY <2>1, <2>9, <3>2 DEF MemberPlan
    <3>5. MemberPlan(l, x, A, users')
      BY <3>1, <3>3, <3>4 DEF MemberPlan
    <3>6. QED
      BY <2>1, <2>2, <2>5, <2>8, <2>9, <3>5, PlanLeft DEF A
  <2>10. /\ \A y \in Roles : y \notin DOMAIN ask => Same(y, grants, grants')
         /\ \A m \in Members : m \notin DOMAIN ask => Same(m, users, users')
    BY <2>1, <2>8 DEF RowsBut
  <2>11. QED
    BY <2>2, <2>3, <2>4, <2>7, <2>9, <2>10, Advanced DEF q, ask
<1>4. QED
  BY <1>2, <1>3

LEMMA InsertUserKeeps == ASSUME AccountsInv, NEW c \in Clients, InsertUser(c) PROVE AccountsInv'
<1> DEFINE x == Current(c).on
           q == serving[c].todo
           t == RestOf(c)
           A == serving[c].ask[x]
           B == Current(c).arg
<1>1. q # <<>> /\ Current(c).do = "insertUser" /\ Target(c) = x /\ Arg(c) = B
  BY DoesIs DEF InsertUser
<1>2. /\ x \in Members /\ x \notin Roles
      /\ serving[c].clear => MemberPlan(q, x, A, users)
      /\ \A d : d # "insertUser" => (Has(t, d, x) <=> Has(q, d, x)) /\ Args(t, d, x) = Args(q, d, x)
      /\ \A d : ~(Level("insertUser") < Level(d)) => ~Has(t, d, x) /\ Args(t, d, x) = {}
      /\ Has(q, "insertUser", x) /\ Args(q, "insertUser", x) = B
  BY <1>1, ForMember DEF UserVerbs
<1>3. RowTypes /\ B \subseteq Roles
  BY <1>1, Now DEF Says
<1>4. CASE x \in DOMAIN users
  <2>1. Reject(c)
    BY <1>1, <1>4 DEF InsertUser
  <2>2. QED
    BY <1>1, <2>1, MayNow, Rejected DEF First
<1>5. CASE x \notin DOMAIN users /\ ~(B \subseteq DOMAIN grants)
  <2>1. Raise(c)
    BY <1>1, <1>5 DEF InsertUser
  <2>2. QED
    BY <2>1, Raised
<1>6. CASE x \notin DOMAIN users /\ B \subseteq DOMAIN grants
  <2>1. /\ AdvancesOn(c) /\ grants' = grants
        /\ users' = [m \in DOMAIN users \union {x} |-> IF m = x THEN [held |-> {}, legacy |-> B] ELSE users[m]]
    BY <1>1, <1>6 DEF InsertUser
  <2>2. Current(c).do \in (RoleVerbs \union UserVerbs) \ {"count"} /\ serving[c].todo # <<>>
    BY <1>1 DEF UserVerbs
  <2> HIDE DEF x, q, t, A, B
  <2>3. /\ users'[x].held = {} /\ users'[x].legacy = B /\ DOMAIN users' = DOMAIN users \union {x}
        /\ users'[x] \in [held : SUBSET Roles, legacy : SUBSET Roles]
        /\ \A m \in DOMAIN users : m # x => users'[m] = users[m]
    BY <1>3, <2>1
  <2>4. RowTypes'
    BY <1>2, <1>3, <2>1, <2>3 DEF RowTypes
  <2>5. RowsBut(x, Roles, grants, grants') /\ RowsBut(x, Members, users, users')
    BY <2>1, <2>3 DEF RowsBut, Same
  <2>6. ASSUME serving[c].clear PROVE MemberPlan(t, x, A, users')
    <3>1. ~Has(t, "unassign", x) /\ ~Has(t, "insertUser", x)
      <4>1. ~(Level("insertUser") < Level("unassign")) /\ ~(Level("insertUser") < Level("insertUser"))
        BY DEF Level
      <4>2. QED
        BY <1>2, <4>1
    <3>2. /\ Has(t, "deleteUser", x) <=> Has(q, "deleteUser", x)
          /\ Has(t, "setLegacy", x) <=> Has(q, "setLegacy", x)
          /\ Args(t, "setLegacy", x) = Args(q, "setLegacy", x) /\ Args(t, "assign", x) = Args(q, "assign", x)
      BY <1>2
    <3>3. ASSUME ~Has(t, "deleteUser", x)
          PROVE  /\ ~Has(t, "setLegacy", x) /\ B \subseteq A
                 /\ Args(t, "assign", x) = A \/ (Args(t, "assign", x) = {} /\ B = A)
      BY <1>2, <2>6, <3>2, <3>3 DEF MemberPlan
    <3>4. Args(t, "setLegacy", x) \subseteq A
      BY <1>2, <2>6, <3>2 DEF MemberPlan
    <3>5. QED
      BY <2>3, <3>1, <3>3, <3>4 DEF MemberPlan
  <2>7. QED
    BY <1>2, <2>1, <2>2, <2>4, <2>5, <2>6, WroteOne DEF x, t, A
<1>7. QED
  BY <1>4, <1>5, <1>6

LEMMA UnassignKeeps == ASSUME AccountsInv, NEW c \in Clients, Unassign(c) PROVE AccountsInv'
<1> DEFINE x == Current(c).on
           q == serving[c].todo
           t == RestOf(c)
           A == serving[c].ask[x]
<1>1. q # <<>> /\ Current(c).do = "unassign" /\ Target(c) = x
  BY DoesIs DEF Unassign
<1>2. /\ x \in Members /\ x \notin Roles
      /\ serving[c].clear => MemberPlan(q, x, A, users)
      /\ \A d : d # "unassign" => (Has(t, d, x) <=> Has(q, d, x)) /\ Args(t, d, x) = Args(q, d, x)
      /\ \A d : ~(Level("unassign") < Level(d)) => ~Has(t, d, x) /\ Args(t, d, x) = {}
      /\ Has(q, "unassign", x)
  BY <1>1, ForMember DEF UserVerbs
<1>3. RowTypes
  BY DEF AccountsInv
<1>4. /\ AdvancesOn(c) /\ grants' = grants
      /\ users' = [m \in DOMAIN users |-> IF m = x THEN [users[m] EXCEPT !.held = {}] ELSE users[m]]
  BY <1>1 DEF Unassign
<1>5. Current(c).do \in (RoleVerbs \union UserVerbs) \ {"count"} /\ serving[c].todo # <<>>
  BY <1>1 DEF UserVerbs
<1> HIDE DEF x, q, t, A
<1>6. /\ DOMAIN users' = DOMAIN users /\ \A m \in DOMAIN users : m # x => users'[m] = users[m]
      /\ x \in DOMAIN users => /\ users'[x].held = {}
                               /\ users'[x] \in [held : SUBSET Roles, legacy : SUBSET Roles]
  <2>1. x \in DOMAIN users => users[x] \in [held : SUBSET Roles, legacy : SUBSET Roles]
    BY <1>3 DEF RowTypes
  <2>2. QED
    BY <1>4, <2>1
<1>7. RowTypes'
  BY <1>3, <1>4, <1>6 DEF RowTypes
<1>8. RowsBut(x, Roles, grants, grants') /\ RowsBut(x, Members, users, users')
  BY <1>4, <1>6 DEF RowsBut, Same
<1>9. ASSUME serving[c].clear PROVE MemberPlan(t, x, A, users')
  <2>1. ~Has(t, "unassign", x) /\ ~Has(t, "insertUser", x)
    <3>1. ~(Level("unassign") < Level("unassign")) /\ ~(Level("unassign") < Level("insertUser"))
      BY DEF Level
    <3>2. QED
      BY <1>2, <3>1
  <2>2. /\ Has(t, "deleteUser", x) <=> Has(q, "deleteUser", x)
        /\ Has(t, "setLegacy", x) <=> Has(q, "setLegacy", x)
        /\ Args(t, "setLegacy", x) = Args(q, "setLegacy", x) /\ Args(t, "assign", x) = Args(q, "assign", x)
    BY <1>2
  <2>3. ASSUME ~Has(t, "deleteUser", x)
        PROVE  Args(t, "assign", x) = A /\ (A = {} \/ Has(t, "setLegacy", x))
    BY <1>2, <1>9, <2>2, <2>3 DEF MemberPlan
  <2>4. Args(t, "setLegacy", x) \subseteq A
    BY <1>2, <1>9, <2>2 DEF MemberPlan
  <2>5. QED
    BY <1>6, <2>1, <2>3, <2>4 DEF MemberPlan
<1>10. QED
  BY <1>2, <1>4, <1>5, <1>7, <1>8, <1>9, WroteOne DEF x, t, A

(* An UPDATE of a user who is not there, or of one who is. *)
LEMMA SetLegacyKeeps == ASSUME AccountsInv, NEW c \in Clients, SetLegacy(c) PROVE AccountsInv'
<1> DEFINE x == Current(c).on
           q == serving[c].todo
           t == RestOf(c)
           A == serving[c].ask[x]
           B == Current(c).arg
<1>1. q # <<>> /\ Current(c).do = "setLegacy" /\ Target(c) = x /\ Arg(c) = B
  BY DoesIs DEF SetLegacy
<1>2. /\ x \in Members /\ x \notin Roles
      /\ serving[c].clear => MemberPlan(q, x, A, users)
      /\ \A d : d # "setLegacy" => (Has(t, d, x) <=> Has(q, d, x)) /\ Args(t, d, x) = Args(q, d, x)
      /\ \A d : ~(Level("setLegacy") < Level(d)) => ~Has(t, d, x) /\ Args(t, d, x) = {}
      /\ Has(q, "setLegacy", x) /\ Args(q, "setLegacy", x) = B
  BY <1>1, ForMember DEF UserVerbs
<1>3. RowTypes /\ B \subseteq Roles
  BY <1>1, Now DEF Says
<1>4. CASE x \in DOMAIN users /\ ~(B \subseteq DOMAIN grants)
  <2>1. Raise(c)
    BY <1>1, <1>4 DEF SetLegacy
  <2>2. QED
    BY <2>1, Raised
<1>5. CASE ~(x \in DOMAIN users /\ ~(B \subseteq DOMAIN grants))
  <2>1. /\ AdvancesOn(c) /\ grants' = grants
        /\ users' = [m \in DOMAIN users |-> IF m = x THEN [users[m] EXCEPT !.legacy = B] ELSE users[m]]
    BY <1>1, <1>5 DEF SetLegacy
  <2>2. Current(c).do \in (RoleVerbs \union UserVerbs) \ {"count"} /\ serving[c].todo # <<>>
    BY <1>1 DEF UserVerbs
  <2> HIDE DEF x, q, t, A, B
  <2>3. /\ DOMAIN users' = DOMAIN users /\ \A m \in DOMAIN users : m # x => users'[m] = users[m]
        /\ x \in DOMAIN users => /\ users'[x].held = users[x].held /\ users'[x].legacy = B
                                 /\ users'[x] \in [held : SUBSET Roles, legacy : SUBSET Roles]
    <3>1. x \in DOMAIN users => users[x] \in [held : SUBSET Roles, legacy : SUBSET Roles]
      BY <1>3 DEF RowTypes
    <3>2. QED
      BY <1>3, <2>1, <3>1
  <2>4. RowTypes'
    BY <1>3, <2>1, <2>3 DEF RowTypes
  <2>5. RowsBut(x, Roles, grants, grants') /\ RowsBut(x, Members, users, users')
    BY <2>1, <2>3 DEF RowsBut, Same
  <2>6. ASSUME serving[c].clear PROVE MemberPlan(t, x, A, users')
    <3>1. /\ ~Has(t, "unassign", x) /\ ~Has(t, "insertUser", x) /\ ~Has(t, "deleteUser", x)
          /\ Args(t, "setLegacy", x) = {} /\ Args(t, "assign", x) = {}
      <4>1. /\ ~(Level("setLegacy") < Level("unassign")) /\ ~(Level("setLegacy") < Level("insertUser"))
            /\ ~(Level("setLegacy") < Level("deleteUser")) /\ ~(Level("setLegacy") < Level("setLegacy"))
            /\ ~(Level("setLegacy") < Level("assign"))
        BY DEF Level
      <4>2. QED
        BY <1>2, <4>1
    <3>2. /\ ~Has(q, "deleteUser", x) /\ ~Has(q, "unassign", x) /\ ~Has(q, "insertUser", x)
          /\ Args(q, "assign", x) = {}
      BY <1>2, <3>1
    <3>3. B \subseteq A /\ (x \in DOMAIN users => users[x].held \union {} = A)
      BY <1>2, <2>6, <3>2 DEF MemberPlan
    <3>4. QED
      BY <2>3, <3>1, <3>3 DEF MemberPlan
  <2>7. QED
    BY <1>2, <2>1, <2>2, <2>4, <2>5, <2>6, WroteOne DEF x, t, A
<1>6. QED
  BY <1>4, <1>5

LEMMA DropUserKeeps == ASSUME AccountsInv, NEW c \in Clients, DropUser(c) PROVE AccountsInv'
<1> DEFINE x == Current(c).on
           q == serving[c].todo
           t == RestOf(c)
           A == serving[c].ask[x]
<1>1. q # <<>> /\ Current(c).do = "deleteUser" /\ Target(c) = x
  BY DoesIs DEF DropUser
<1>2. /\ x \in Members /\ x \notin Roles
      /\ \A d : ~(Level("deleteUser") < Level(d)) => ~Has(t, d, x) /\ Args(t, d, x) = {}
  BY <1>1, ForMember DEF UserVerbs
<1>3. RowTypes
  BY DEF AccountsInv
<1>4. AdvancesOn(c) /\ grants' = grants /\ users' = [m \in DOMAIN users \ {x} |-> users[m]]
  BY <1>1 DEF DropUser
<1>5. Current(c).do \in (RoleVerbs \union UserVerbs) \ {"count"} /\ serving[c].todo # <<>>
  BY <1>1 DEF UserVerbs
<1> HIDE DEF x, q, t, A
<1>6. RowTypes'
  BY <1>3, <1>4 DEF RowTypes
<1>7. RowsBut(x, Roles, grants, grants') /\ RowsBut(x, Members, users, users')
  BY <1>4 DEF RowsBut, Same
<1>8. ASSUME serving[c].clear PROVE MemberPlan(t, x, A, users')
  <2>1. ~Has(t, "unassign", x) /\ ~Has(t, "insertUser", x) /\ Args(t, "setLegacy", x) = {}
    <3>1. /\ ~(Level("deleteUser") < Level("unassign")) /\ ~(Level("deleteUser") < Level("insertUser"))
          /\ ~(Level("deleteUser") < Level("setLegacy"))
      BY DEF Level
    <3>2. QED
      BY <1>2, <3>1
  <2>2. x \notin DOMAIN users'
    BY <1>4
  <2>3. QED
    BY <2>1, <2>2 DEF MemberPlan
<1>9. QED
  BY <1>2, <1>4, <1>5, <1>6, <1>7, <1>8, WroteOne DEF x, t, A

-----------------------------------------------------------------------------
(* Deletions that cascade, and requests that break off.                      *)

LEMMA DropRoleKeeps == ASSUME AccountsInv, NEW c \in Clients, DropRole(c) PROVE AccountsInv'
<1> DEFINE x == Current(c).on
<1>1. serving[c].todo # <<>> /\ Current(c).do = "deleteRole" /\ Target(c) = x
  BY DoesIs DEF DropRole
<1>2. /\ x \in Roles /\ x \notin Members /\ DOMAIN serving[c].ask = {x} /\ RowTypes
  <2>1. x \in Roles /\ DOMAIN serving[c].ask = {x} /\ RowTypes
    BY <1>1, Now DEF Says, RoleVerbs
  <2>2. QED
    BY <2>1, AccountsAssumption
<1>3. CASE HasLegacy(x)
  <2>1. Raise(c)
    BY <1>1, <1>3 DEF DropRole
  <2>2. QED
    BY <2>1, Raised
<1>4. CASE ~HasLegacy(x)
  <2>1. /\ grants' = [r \in DOMAIN grants \ {x} |-> grants[r]]
        /\ users' = [m \in DOMAIN users |-> [users[m] EXCEPT !.held = @ \ {x}]]
        /\ Drops(c, x)
    BY <1>1, <1>4 DEF DropRole
  <2> HIDE DEF x
  <2>2. ASSUME NEW m \in DOMAIN users
        PROVE  /\ users[m] \in [held : SUBSET Roles, legacy : SUBSET Roles]
               /\ users'[m] \in [held : SUBSET Roles, legacy : SUBSET Roles]
               /\ users'[m].held = users[m].held \ {x} /\ users'[m].legacy = users[m].legacy
               /\ x \notin users[m].legacy
    <3>1. users[m] \in [held : SUBSET Roles, legacy : SUBSET Roles]
      BY <1>2 DEF RowTypes
    <3>2. x \notin users[m].legacy
      BY <1>4 DEF HasLegacy
    <3>3. users'[m] = [users[m] EXCEPT !.held = @ \ {x}]
      BY <2>1
    <3>4. QED
      BY <3>1, <3>2, <3>3
  <2>3. DOMAIN users' = DOMAIN users /\ DOMAIN grants' = DOMAIN grants \ {x}
        /\ \A r \in DOMAIN grants \ {x} : grants'[r] = grants[r]
    BY <2>1
  <2>4. RowTypes'
    BY <1>2, <2>2, <2>3 DEF RowTypes
  <2>5. ASSUME NEW r \in Roles \ {x}, NEW S \in SUBSET Perms, RoleFits(grants, r, S)
        PROVE  RoleFits(grants', r, S \ {x})
    <3>1. x \notin S
      BY <1>2, AccountsAssumption
    <3>2. QED
      BY <2>3, <2>5, <3>1 DEF RoleFits
  <2>6. ASSUME NEW m \in Members, NEW S \in SUBSET Roles, MemberFits(users, m, S)
        PROVE  MemberFits(users', m, S \ {x})
    <3>1. CASE m \in DOMAIN users
      <4>1. /\ users[m].held = {} \/ users[m].legacy \subseteq users[m].held
            /\ S # {} => users[m].held \union users[m].legacy = S
        BY <2>6, <3>1 DEF MemberFits
      <4>2. /\ users'[m].held = users[m].held \ {x} /\ users'[m].legacy = users[m].legacy
            /\ x \notin users[m].legacy
        BY <2>2, <3>1
      <4>3. users'[m].held = {} \/ users'[m].legacy \subseteq users'[m].held
        BY <4>1, <4>2
      <4>4. S \ {x} # {} => users'[m].held \union users'[m].legacy = S \ {x}
        BY <4>1, <4>2
      <4>5. QED
        BY <4>3, <4>4 DEF MemberFits
    <3>2. CASE m \notin DOMAIN users
      BY <2>3, <3>2 DEF MemberFits
    <3>3. QED
      BY <3>1, <3>2
  <2>7. QED
    BY <1>2, <2>1, <2>4, <2>5, <2>6, Dropped
<1>5. QED
  BY <1>3, <1>4

LEMMA DropPermissionKeeps ==
  ASSUME AccountsInv, NEW c \in Clients, DropPermission(c) PROVE AccountsInv'
<1> DEFINE x == Current(c).on
<1>1. serving[c].todo # <<>> /\ Current(c).do = "deletePermission" /\ Target(c) = x
  BY DoesIs DEF DropPermission
<1>2. x \in Perms /\ DOMAIN serving[c].ask = {} /\ RowTypes
  BY <1>1, Now DEF Says, PermVerbs
<1>3. /\ grants' = [r \in DOMAIN grants |-> grants[r] \ {x}] /\ users' = users /\ Drops(c, x)
  BY <1>1 DEF DropPermission
<1> HIDE DEF x
<1>4. RowTypes'
  BY <1>2, <1>3 DEF RowTypes
<1>5. ASSUME NEW r \in Roles \ {x}, NEW S \in SUBSET Perms, RoleFits(grants, r, S)
      PROVE  RoleFits(grants', r, S \ {x})
  BY <1>3, <1>5 DEF RoleFits
<1>6. ASSUME NEW m \in Members, NEW S \in SUBSET Roles, MemberFits(users, m, S)
      PROVE  MemberFits(users', m, S \ {x})
  <2>1. S \ {x} = S
    BY <1>2, AccountsAssumption
  <2>2. QED
    BY <1>3, <1>6, <2>1 DEF MemberFits
<1>7. QED
  BY <1>2, <1>3, <1>4, <1>5, <1>6, Dropped

(* Every statement, and a request that breaks off. *)
LEMMA RunsKeep ==
  ASSUME AccountsInv, NEW c \in Clients, RunOne(c) \/ Break(c)
  PROVE  AccountsInv'
<1>1. CASE Break(c)
  BY <1>1, Raised DEF Break
<1>2. CASE RunOne(c)
  BY <1>2, CheckKeeps, FindKeeps, InsertRoleKeeps, UngrantKeeps, GrantKeeps, CountKeeps, DropRoleKeeps,
     InsertUserKeeps, UnassignKeeps, AssignKeeps, SetLegacyKeeps, DropUserKeeps, InsertPermissionKeeps,
     DropPermissionKeeps DEF RunOne
<1>3. QED
  BY <1>1, <1>2

-----------------------------------------------------------------------------
(* Requests that arrive.                                                     *)

LEMMA Entered ==
  ASSUME AccountsInv, NEW c \in Clients, NEW stmts \in Seq(Stmts), NEW ask, NEW clear,
         AsksFor(ask), Formed(stmts, ask), clear => Plan(stmts, ask, grants, users),
         Enters(c, stmts, ask, clear)
  PROVE  AccountsInv'
<1> DEFINE met == {d \in Clients : \E x \in DOMAIN ask : Edits(d, x)}
<1>1. /\ DOMAIN serving = Clients /\ \A d \in Clients : DOMAIN serving[d] = {"todo", "ask", "clear"}
      /\ RowTypes /\ WantTypes /\ FitsInv
  BY DEF AccountsInv, RequestTypes
<1>2. /\ serving[c].todo = <<>> /\ grants' = grants /\ users' = users /\ want' = want
      /\ serving' = [d \in Clients |->
           IF d = c THEN [todo |-> stmts, ask |-> ask, clear |-> clear /\ met = {}]
           ELSE [serving[d] EXCEPT !.clear = @ /\ d \notin met]]
  BY DEF Enters
<1>3. RowTypes' /\ WantTypes'
  BY <1>1, <1>2 DEF RowTypes, WantTypes
<1>4. /\ serving'[c].todo = stmts /\ serving'[c].ask = ask /\ (serving'[c].clear => clear /\ met = {})
      /\ DOMAIN serving'[c] = {"todo", "ask", "clear"}
  BY <1>2
<1>5. ASSUME NEW d \in Clients, d # c
      PROVE  /\ serving'[d].todo = serving[d].todo /\ serving'[d].ask = serving[d].ask
             /\ (serving'[d].clear => serving[d].clear /\ d \notin met)
             /\ DOMAIN serving'[d] = {"todo", "ask", "clear"}
  <2>1. serving'[d] = [serving[d] EXCEPT !.clear = @ /\ d \notin met]
    BY <1>2, <1>5
  <2>2. QED
    BY <1>1, <2>1
<1>6. DOMAIN serving' = Clients /\ \A d \in Clients : DOMAIN serving'[d] = {"todo", "ask", "clear"}
  BY <1>2, <1>4, <1>5
<1>7. \A d \in Clients : d # c => Weaker(serving[d], serving'[d])
  BY <1>5 DEF Weaker
<1>8. ASSUME NEW d \in Clients, NEW x \in Roles \union Members, c # d, Edits(c, x)', Edits(d, x)'
      PROVE  ~serving'[c].clear /\ ~serving'[d].clear
  <2>1. x \in DOMAIN ask /\ Edits(d, x)
    BY <1>4, <1>5, <1>8 DEF Edits
  <2>2. d \in met
    BY <2>1
  <2>3. QED
    BY <1>4, <1>5, <1>8, <2>2
<1> HIDE DEF met
<1>9. ASSUME NEW x, Idle(x)' PROVE Idle(x)
  <2>1. ASSUME NEW d \in Clients PROVE ~Begun(d, x)
    <3>1. CASE d = c
      BY <1>2, <3>1 DEF Begun, Edits
    <3>2. CASE d # c
      <4>1. ~Begun(d, x)'
        BY <1>9 DEF Idle
      <4>2. QED
        BY <1>5, <3>2, <4>1 DEF Begun, Edits
    <3>3. QED
      BY <3>1, <3>2
  <2>2. QED
    BY <2>1 DEF Idle
<1>10. FitsInv'
  BY <1>1, <1>2, <1>9 DEF FitsInv
<1>11. \A x : Same(x, grants, grants') /\ Same(x, users, users')
  BY <1>2 DEF Same
<1>12. serving'[c].todo # <<>> /\ serving'[c].clear =>
         Plan(serving'[c].todo, serving'[c].ask, grants', users')
  BY <1>2, <1>4
<1>13. /\ serving'[c].todo \in Seq(Stmts) /\ AsksFor(serving'[c].ask)
       /\ Formed(serving'[c].todo, serving'[c].ask)
  BY <1>4
<1>14. QED
  BY <1>3, <1>6, <1>7, <1>8, <1>10, <1>11, <1>12, <1>13, OthersKeep

(* What only reads, before the statements of a request or among them, does   *)
(* not change where they lead.                                               *)
LEMMA PlanAlike ==
  ASSUME NEW l, NEW q, NEW ask, NEW g, NEW u, Plan(q, ask, g, u),
         \A d, y : d \notin {"check", "find", "count", "insertPermission"} => AsIs(l, q, d, y)
  PROVE  Plan(l, ask, g, u)
<1>0. ASSUME NEW d, NEW y, d \notin {"check", "find", "count", "insertPermission"}
      PROVE  (Has(l, d, y) <=> Has(q, d, y)) /\ Args(l, d, y) = Args(q, d, y)
  BY <1>0 DEF AsIs
<1>1. ASSUME NEW r \in Roles, r \in DOMAIN ask PROVE RolePlan(l, r, ask[r], g)
  <2>1. RolePlan(q, r, ask[r], g)
    BY <1>1 DEF Plan
  <2>2. /\ (Has(l, "deleteRole", r) <=> Has(q, "deleteRole", r))
        /\ (Has(l, "ungrant", r) <=> Has(q, "ungrant", r))
        /\ (Has(l, "insertRole", r) <=> Has(q, "insertRole", r))
        /\ (Has(l, "upsertRole", r) <=> Has(q, "upsertRole", r))
        /\ Args(l, "grant", r) = Args(q, "grant", r)
    BY <1>0
  <2>3. QED
    BY <2>1, <2>2 DEF RolePlan, Resets
<1>2. ASSUME NEW m \in Members, m \in DOMAIN ask PROVE MemberPlan(l, m, ask[m], u)
  <2>1. MemberPlan(q, m, ask[m], u)
    BY <1>2 DEF Plan
  <2>2. /\ (Has(l, "deleteUser", m) <=> Has(q, "deleteUser", m))
        /\ (Has(l, "unassign", m) <=> Has(q, "unassign", m))
        /\ (Has(l, "insertUser", m) <=> Has(q, "insertUser", m))
        /\ (Has(l, "setLegacy", m) <=> Has(q, "setLegacy", m))
        /\ Args(l, "assign", m) = Args(q, "assign", m)
        /\ Args(l, "insertUser", m) = Args(q, "insertUser", m)
        /\ Args(l, "setLegacy", m) = Args(q, "setLegacy", m)
    BY <1>0
  <2>3. QED
    BY <2>1, <2>2 DEF MemberPlan
<1>3. QED
  BY <1>1, <1>2 DEF Plan

(* One statement more at the front. *)
LEMMA InFront ==
  ASSUME NEW e \in Stmts, e.do \in {"check", "find"}, NEW q \in Seq(Stmts), NEW ask,
         Formed(q, ask), \A j \in 1 .. Len(q) : Level(e.do) < Level(q[j].do)
  PROVE  /\ <<e>> \o q \in Seq(Stmts) /\ Formed(<<e>> \o q, ask)
         /\ \A g, u : Plan(q, ask, g, u) => Plan(<<e>> \o q, ask, g, u)
<1>1. Says(e, ask)
  BY DEF Says, RoleVerbs, UserVerbs, PermVerbs
<1>2. /\ <<e>> \in Seq(Stmts) /\ Formed(<<e>>, ask) /\ Len(<<e>>) = 1 /\ <<e>>[1] = e
      /\ \A do, x : Has(<<e>>, do, x) <=> e.do = do /\ e.on = x
      /\ \A do, x : Args(<<e>>, do, x) = IF e.do = do /\ e.on = x THEN e.arg ELSE {}
  BY <1>1, Single
<1>3. \A i \in 1 .. Len(<<e>>), j \in 1 .. Len(q) : Precedes(<<e>>[i], q[j])
  BY <1>2 DEF Precedes
<1>4. <<e>> \o q \in Seq(Stmts) /\ Formed(<<e>> \o q, ask)
  BY <1>2, <1>3, FormedJoined
<1> DEFINE f == <<e>>
<1>a. f \in Seq(Stmts)
  BY <1>2
<1> HIDE DEF f
<1>5. ASSUME NEW d, NEW y, d \notin {"check", "find", "count", "insertPermission"}
      PROVE  AsIs(f \o q, q, d, y)
  <2>1. ~Has(f, d, y) /\ Args(f, d, y) = {}
    BY <1>2, <1>5 DEF f
  <2>2. /\ Has(f \o q, d, y) <=> Has(f, d, y) \/ Has(q, d, y)
        /\ Args(f \o q, d, y) = Args(f, d, y) \union Args(q, d, y)
    BY <1>a, Joined
  <2>3. QED
    BY <2>1, <2>2 DEF AsIs
<1>6. ASSUME NEW g, NEW u, Plan(q, ask, g, u) PROVE Plan(f \o q, ask, g, u)
  BY <1>5, <1>6, PlanAlike
<1>7. QED
  BY <1>4, <1>6 DEF f

(* The checks of a request, in front of what it does. *)
Acts(q) == \A j \in 1 .. Len(q) : q[j].do \notin {"check", "find"}

LEMMA GuardedIs ==
  ASSUME RowTypes, NEW c \in Clients, NEW find, NEW q \in Seq(Stmts), NEW ask,
         find = <<>> \/ \E x \in Names : find = Seek(x),
         Formed(q, ask), Acts(q)
  PROVE  /\ Guarded(c, find, q) \in Seq(Stmts) /\ Formed(Guarded(c, find, q), ask)
         /\ \A g, u : Plan(q, ask, g, u) => Plan(Guarded(c, find, q), ask, g, u)
<1>1. \A j \in 1 .. Len(q) : q[j] \in Stmts /\ q[j].do \in Verbs
  <2>1. \A j \in 1 .. Len(q) : q[j] \in Stmts
    OBVIOUS
  <2>2. QED
    BY <2>1 DEF Stmts
<1>2. \A j \in 1 .. Len(q) : Level(q[j].do) \in 0 .. 4 /\ Level(q[j].do) >= 2
  <2>1. ASSUME NEW j \in 1 .. Len(q) PROVE Level(q[j].do) \in 0 .. 4 /\ Level(q[j].do) >= 2
    <3>1. CASE q[j].do \in First
      BY <1>1, <3>1, Levels DEF Acts
    <3>2. CASE q[j].do \notin First
      BY <1>1, <3>2, Levels
    <3>3. QED
      BY <3>1, <3>2
  <2>2. QED
    BY <2>1
<1>3. CASE c = Super
  BY <1>3 DEF Guarded
<1>4. CASE c # Super
  <2> DEFINE e == Stmt("check", c, Effective(c))
  <2>1. e \in Stmts /\ e.do = "check" /\ Level("check") = 0 /\ Level("find") = 1
    <3>1. Effective(c) \in SUBSET (Roles \union Perms)
      BY DEF RowTypes, Effective
    <3>2. c \in Names /\ "check" \in Verbs
      BY DEF Names, Verbs
    <3>3. QED
      BY <3>1, <3>2 DEF Stmt, Stmts, Level
  <2>2. Guarded(c, find, q) = <<e>> \o find \o q
    BY <1>4 DEF Guarded
  <2> HIDE DEF e
  <2>3. CASE find = <<>>
    <3>1. <<e>> \o find = <<e>>
      BY <2>3
    <3>2. \A j \in 1 .. Len(q) : Level(e.do) < Level(q[j].do)
      BY <1>2, <2>1
    <3>3. QED
      BY <2>1, <2>2, <3>1, <3>2, InFront
  <2>4. CASE \E x \in Names : find = Seek(x)
    <3>1. PICK x \in Names : find = Seek(x)
      BY <2>4
    <3> DEFINE f == Stmt("find", x, {})
               p == <<f>> \o q
    <3>2. f \in Stmts /\ f.do = "find" /\ find = <<f>>
      BY <3>1 DEF Seek, Stmt, Stmts, Verbs
    <3> HIDE DEF f
    <3>3. \A j \in 1 .. Len(q) : Level(f.do) < Level(q[j].do)
      BY <1>2, <2>1, <3>2
    <3>4. /\ p \in Seq(Stmts) /\ Formed(p, ask)
          /\ \A g, u : Plan(q, ask, g, u) => Plan(p, ask, g, u)
      BY <3>2, <3>3, InFront
    <3>5. \A j \in 1 .. Len(p) : p[j].do = "find" \/ \E i \in 1 .. Len(q) : p[j] = q[i]
      <4>1. <<f>> \in Seq(Stmts) /\ Len(<<f>>) = 1 /\ <<f>>[1] = f
        BY <3>2
      <4> DEFINE s == <<f>>
      <4> HIDE DEF s
      <4>2. s \in Seq(Stmts) /\ Len(s) = 1 /\ s[1] = f /\ p = s \o q
        BY <4>1 DEF s
      <4> HIDE DEF p
      <4>3. ASSUME NEW j \in 1 .. Len(p)
            PROVE  p[j].do = "find" \/ \E i \in 1 .. Len(q) : p[j] = q[i]
        <5>1. j \in 1 .. Len(s) \/ \E i \in 1 .. Len(q) : j = Len(s) + i
          BY <4>2, <4>3, Places
        <5>2. CASE j \in 1 .. Len(s)
          <6>0. j = 1
            BY <4>2, <5>2
          <6>1. \A i \in 1 .. Len(s) : (s \o q)[i] = s[i]
            BY <4>2, Places
          <6>2. QED
            BY <3>2, <4>2, <5>2, <6>0, <6>1
        <5>3. ASSUME NEW i \in 1 .. Len(q), j = Len(s) + i PROVE p[j] = q[i]
          BY <4>2, <5>3, Places
        <5>4. QED
          BY <5>1, <5>2, <5>3
      <4>4. QED
        BY <4>3
    <3>6. \A j \in 1 .. Len(p) : Level(e.do) < Level(p[j].do)
      <4>1. ASSUME NEW j \in 1 .. Len(p) PROVE Level(e.do) < Level(p[j].do)
        <5>1. CASE p[j].do = "find"
          BY <2>1, <5>1
        <5>2. ASSUME NEW i \in 1 .. Len(q), p[j] = q[i] PROVE Level(e.do) < Level(p[j].do)
          BY <1>2, <2>1, <5>2
        <5>3. QED
          BY <3>5, <5>1, <5>2
      <4>2. QED
        BY <4>1
    <3> HIDE DEF p
    <3>7. /\ <<e>> \o p \in Seq(Stmts) /\ Formed(<<e>> \o p, ask)
          /\ \A g, u : Plan(p, ask, g, u) => Plan(<<e>> \o p, ask, g, u)
      BY <2>1, <3>4, <3>6, InFront
    <3>8. (<<e>> \o <<f>>) \o q = <<e>> \o (<<f>> \o q)
      <4>1. <<e>> \in Seq(Stmts) /\ <<f>> \in Seq(Stmts)
        BY <2>1, <3>2
      <4>2. QED
        BY <4>1, ConcatAssociative
    <3>9. Guarded(c, find, q) = <<e>> \o p
      BY <2>2, <3>2, <3>8 DEF p
    <3>10. QED
      BY <3>4, <3>7, <3>9
  <2>5. QED
    BY <2>3, <2>4
<1>5. QED
  BY <1>3, <1>4

-----------------------------------------------------------------------------
(* What the requests ask for, in the forms of the pages.                     *)

(* A statement and a loop. *)
Paired(q, ask, a, do, on, S) ==
  /\ q \in Seq(Stmts) /\ Formed(q, ask)
  /\ \A d, x : Has(q, d, x) <=> (a.do = d /\ a.on = x) \/ (S # {} /\ do = d /\ on = x)
  /\ \A d, x : Args(q, d, x) = (IF a.do = d /\ a.on = x THEN a.arg ELSE {}) \union
                               (IF do = d /\ on = x THEN S ELSE {})
  /\ \A j \in 1 .. Len(q) : q[j] = a \/ q[j] = Stmt(do, on, S)

LEMMA PairIs ==
  ASSUME NEW a \in Stmts, NEW ask, Says(a, ask), NEW do \in Verbs, NEW on \in Names,
         NEW S \in SUBSET (Roles \union Perms), S # {} => Says(Stmt(do, on, S), ask),
         Precedes(a, Stmt(do, on, S)), NEW q, q = <<a>> \o ForEach(do, on, S)
  PROVE  Paired(q, ask, a, do, on, S)
<1> DEFINE s == <<a>>
           f == ForEach(do, on, S)
<1>1. /\ s \in Seq(Stmts) /\ Formed(s, ask) /\ Len(s) = 1 /\ s[1] = a
      /\ \A d, x : Has(s, d, x) <=> a.do = d /\ a.on = x
      /\ \A d, x : Args(s, d, x) = IF a.do = d /\ a.on = x THEN a.arg ELSE {}
  BY Single
<1>2. /\ f \in Seq(Stmts) /\ Formed(f, ask)
      /\ \A i \in 1 .. Len(f) : f[i] = Stmt(do, on, S)
      /\ \A d, x : Has(f, d, x) <=> S # {} /\ do = d /\ on = x
      /\ \A d, x : Args(f, d, x) = IF do = d /\ on = x THEN S ELSE {}
  <2> HIDE DEF f
  <2>1. f = ForEach(do, on, S)
    BY DEF f
  <2>2. QED
    BY <2>1, Loop
<1>3. q = s \o f
  OBVIOUS
<1> HIDE DEF s, f
<1>4. \A i \in 1 .. Len(s) : s[i] = a
  BY <1>1
<1>5. \A i \in 1 .. Len(s), j \in 1 .. Len(f) : Precedes(s[i], f[j])
  BY <1>2, <1>4
<1>6. q \in Seq(Stmts) /\ Formed(q, ask)
  BY <1>1, <1>2, <1>3, <1>5, FormedJoined
<1>7. ASSUME NEW d, NEW x
      PROVE  /\ Has(q, d, x) <=> (a.do = d /\ a.on = x) \/ (S # {} /\ do = d /\ on = x)
             /\ Args(q, d, x) = (IF a.do = d /\ a.on = x THEN a.arg ELSE {}) \union
                                (IF do = d /\ on = x THEN S ELSE {})
  <2>1. /\ Has(q, d, x) <=> Has(s, d, x) \/ Has(f, d, x)
        /\ Args(q, d, x) = Args(s, d, x) \union Args(f, d, x)
    <3>1. /\ Has(s \o f, d, x) <=> Has(s, d, x) \/ Has(f, d, x)
          /\ Args(s \o f, d, x) = Args(s, d, x) \union Args(f, d, x)
      BY <1>1, <1>2, Joined
    <3>2. QED
      BY <1>3, <3>1
  <2>2. Has(q, d, x) <=> (a.do = d /\ a.on = x) \/ (S # {} /\ do = d /\ on = x)
    BY <1>1, <1>2, <2>1
  <2>3. Args(q, d, x) = (IF a.do = d /\ a.on = x THEN a.arg ELSE {}) \union
                        (IF do = d /\ on = x THEN S ELSE {})
    BY <1>1, <1>2, <2>1
  <2>4. QED
    BY <2>2, <2>3
<1>8. ASSUME NEW j \in 1 .. Len(q) PROVE q[j] = a \/ q[j] = Stmt(do, on, S)
  <2>a. /\ \A i \in 1 .. Len(s) : (s \o f)[i] = s[i]
        /\ \A i \in 1 .. Len(f) : (s \o f)[Len(s) + i] = f[i]
        /\ \A k \in 1 .. Len(s \o f) : k \in 1 .. Len(s) \/ \E i \in 1 .. Len(f) : k = Len(s) + i
    <3>1. s \in Seq(Stmts) /\ f \in Seq(Stmts)
      BY <1>1, <1>2
    <3>2. QED
      BY <3>1, Places
  <2>1. j \in 1 .. Len(s) \/ \E i \in 1 .. Len(f) : j = Len(s) + i
    BY <1>3, <1>8, <2>a
  <2>2. CASE j \in 1 .. Len(s)
    <3>1. q[j] = s[j]
      BY <1>3, <2>2, <2>a
    <3>2. QED
      BY <1>4, <2>2, <3>1
  <2>3. ASSUME NEW i \in 1 .. Len(f), j = Len(s) + i PROVE q[j] = Stmt(do, on, S)
    <3>1. q[j] = f[i]
      BY <1>3, <2>3, <2>a
    <3>2. QED
      BY <1>2, <3>1
  <2>4. QED
    BY <2>1, <2>2, <2>3
<1>9. QED
  BY <1>6, <1>7, <1>8 DEF Paired

(* An edit of one role, or of one user. *)
One(x, S) == [y \in {x} |-> S]

LEMMA OneRole ==
  ASSUME NEW r \in Roles, NEW S \in SUBSET Perms, NEW q, NEW g, NEW u
  PROVE  /\ DOMAIN One(r, S) = {r} /\ AsksFor(One(r, S))
         /\ RolePlan(q, r, S, g) => Plan(q, One(r, S), g, u)
<1>1. r \notin Members
  BY AccountsAssumption
<1>2. DOMAIN One(r, S) = {r} /\ One(r, S)[r] = S
  BY DEF One
<1>3. AsksFor(One(r, S))
  BY <1>1, <1>2 DEF AsksFor
<1>4. RolePlan(q, r, S, g) => Plan(q, One(r, S), g, u)
  BY <1>1, <1>2 DEF Plan
<1>5. QED
  BY <1>2, <1>3, <1>4

LEMMA OneMember ==
  ASSUME NEW m \in Members, NEW S \in SUBSET Roles, NEW q, NEW g, NEW u
  PROVE  /\ DOMAIN One(m, S) = {m} /\ AsksFor(One(m, S))
         /\ MemberPlan(q, m, S, u) => Plan(q, One(m, S), g, u)
<1>1. m \notin Roles
  BY AccountsAssumption
<1>2. DOMAIN One(m, S) = {m} /\ One(m, S)[m] = S
  BY DEF One
<1>3. AsksFor(One(m, S))
  BY <1>1, <1>2 DEF AsksFor
<1>4. MemberPlan(q, m, S, u) => Plan(q, One(m, S), g, u)
  BY <1>1, <1>2 DEF Plan
<1>5. QED
  BY <1>2, <1>3, <1>4

LEMMA EditEntered ==
  ASSUME AccountsInv, NEW c \in Clients, NEW find, NEW q \in Seq(Stmts), NEW x, NEW S,
         find = <<>> \/ \E y \in Names : find = Seek(y), AsksFor(One(x, S)),
         Formed(q, One(x, S)), Acts(q), Plan(q, One(x, S), grants, users), AsksEdit(c, find, q, x, S)
  PROVE  AccountsInv'
<1> DEFINE l == Guarded(c, find, q)
           ask == One(x, S)
<1>1. RowTypes
  BY DEF AccountsInv
<1>2. Enters(c, l, ask, TRUE)
  BY DEF AsksEdit, One
<1>3. Formed(q, ask) /\ AsksFor(ask) /\ Plan(q, ask, grants, users)
  OBVIOUS
<1> HIDE DEF ask
<1>4. /\ l \in Seq(Stmts) /\ Formed(l, ask)
      /\ \A g, u : Plan(q, ask, g, u) => Plan(l, ask, g, u)
  BY <1>1, <1>3, GuardedIs
<1>5. Plan(l, ask, grants, users)
  BY <1>3, <1>4
<1> HIDE DEF l
<1>6. QED
  BY <1>2, <1>3, <1>4, <1>5, Entered

LEMMA EditRoleKeeps == ASSUME AccountsInv, NEW c \in Clients, EditRole(c) PROVE AccountsInv'
<1>1. PICK r \in Roles, S \in SUBSET Perms : AsksEdit(c, Seek(r), PatchRole(r, S), r, S)
  BY DEF EditRole
<1> DEFINE a == Stmt("ungrant", r, {})
           ask == One(r, S)
           q == PatchRole(r, S)
<1>2. DOMAIN ask = {r} /\ AsksFor(ask) /\ (RolePlan(q, r, S, grants) => Plan(q, ask, grants, users))
  BY OneRole
<1>3. /\ a \in Stmts /\ a.do = "ungrant" /\ a.on = r /\ a.arg = {}
      /\ "grant" \in Verbs /\ r \in Names /\ S \in SUBSET (Roles \union Perms)
      /\ q = <<a>> \o ForEach("grant", r, S)
  BY DEF Stmt, Stmts, Names, Verbs, RoleVerbs, PatchRole
<1>4. Stmt("grant", r, S).do = "grant" /\ Stmt("grant", r, S).on = r /\ Stmt("grant", r, S).arg = S
  BY DEF Stmt
<1> HIDE DEF a, ask, q
<1>5. Says(a, ask) /\ Says(Stmt("grant", r, S), ask)
  BY <1>2, <1>3, <1>4 DEF Says, RoleVerbs, UserVerbs, PermVerbs
<1>6. Precedes(a, Stmt("grant", r, S))
  BY <1>3, <1>4 DEF Precedes, Level
<1>7. /\ q \in Seq(Stmts) /\ Formed(q, ask)
      /\ \A d, x : Has(q, d, x) <=> (a.do = d /\ a.on = x) \/ (S # {} /\ "grant" = d /\ r = x)
      /\ \A d, x : Args(q, d, x) = (IF a.do = d /\ a.on = x THEN a.arg ELSE {}) \union
                                   (IF "grant" = d /\ r = x THEN S ELSE {})
      /\ \A j \in 1 .. Len(q) : q[j] = a \/ q[j] = Stmt("grant", r, S)
  <2>1. Paired(q, ask, a, "grant", r, S)
    BY <1>3, <1>5, <1>6, PairIs
  <2>2. QED
    BY <2>1 DEF Paired
<1>8. Acts(q)
  BY <1>3, <1>4, <1>7 DEF Acts
<1>9. RolePlan(q, r, S, grants)
  <2>1. Args(q, "grant", r) = S
    BY <1>3, <1>7
  <2>2. Resets(q, r) /\ ~Has(q, "upsertRole", r)
    BY <1>3, <1>7 DEF Resets
  <2>3. QED
    BY <2>1, <2>2 DEF RolePlan
<1>10. Seek(r) = <<>> \/ \E y \in Names : Seek(r) = Seek(y)
  BY <1>3
<1>11. QED
  BY <1>1, <1>2, <1>7, <1>8, <1>9, <1>10, EditEntered DEF ask, q

LEMMA AddRoleKeeps == ASSUME AccountsInv, NEW c \in Clients, AddRole(c) PROVE AccountsInv'
<1>1. PICK r \in Roles, S \in SUBSET Perms : AsksEdit(c, <<>>, PostRole(r, S), r, S)
  BY DEF AddRole
<1> DEFINE a == Stmt("insertRole", r, {})
           ask == One(r, S)
           q == PostRole(r, S)
<1>2. DOMAIN ask = {r} /\ AsksFor(ask) /\ (RolePlan(q, r, S, grants) => Plan(q, ask, grants, users))
  BY OneRole
<1>3. /\ a \in Stmts /\ a.do = "insertRole" /\ a.on = r /\ a.arg = {}
      /\ "grant" \in Verbs /\ r \in Names /\ S \in SUBSET (Roles \union Perms)
      /\ q = <<a>> \o ForEach("grant", r, S)
  BY DEF Stmt, Stmts, Names, Verbs, RoleVerbs, PostRole
<1>4. Stmt("grant", r, S).do = "grant" /\ Stmt("grant", r, S).on = r /\ Stmt("grant", r, S).arg = S
  BY DEF Stmt
<1> HIDE DEF a, ask, q
<1>5. Says(a, ask) /\ Says(Stmt("grant", r, S), ask)
  BY <1>2, <1>3, <1>4 DEF Says, RoleVerbs, UserVerbs, PermVerbs
<1>6. Precedes(a, Stmt("grant", r, S))
  BY <1>3, <1>4 DEF Precedes, Level
<1>7. /\ q \in Seq(Stmts) /\ Formed(q, ask)
      /\ \A d, x : Has(q, d, x) <=> (a.do = d /\ a.on = x) \/ (S # {} /\ "grant" = d /\ r = x)
      /\ \A d, x : Args(q, d, x) = (IF a.do = d /\ a.on = x THEN a.arg ELSE {}) \union
                                   (IF "grant" = d /\ r = x THEN S ELSE {})
      /\ \A j \in 1 .. Len(q) : q[j] = a \/ q[j] = Stmt("grant", r, S)
  <2>1. Paired(q, ask, a, "grant", r, S)
    BY <1>3, <1>5, <1>6, PairIs
  <2>2. QED
    BY <2>1 DEF Paired
<1>8. Acts(q)
  BY <1>3, <1>4, <1>7 DEF Acts
<1>9. RolePlan(q, r, S, grants)
  <2>1. Args(q, "grant", r) = S
    BY <1>3, <1>7
  <2>2. Resets(q, r) /\ ~Has(q, "upsertRole", r)
    BY <1>3, <1>7 DEF Resets
  <2>3. QED
    BY <2>1, <2>2 DEF RolePlan
<1>10. QED
  BY <1>1, <1>2, <1>7, <1>8, <1>9, EditEntered DEF ask, q

(* Two statements, of which neither is a loop. *)
Two(q, ask, a, b) ==
  /\ q \in Seq(Stmts) /\ Formed(q, ask)
  /\ \A d, x : Has(q, d, x) <=> (a.do = d /\ a.on = x) \/ (b.do = d /\ b.on = x)
  /\ \A d, x : Args(q, d, x) = (IF a.do = d /\ a.on = x THEN a.arg ELSE {}) \union
                               (IF b.do = d /\ b.on = x THEN b.arg ELSE {})
  /\ \A j \in 1 .. Len(q) : q[j] = a \/ q[j] = b

LEMMA TwoIs ==
  ASSUME NEW a \in Stmts, NEW b \in Stmts, NEW ask, Says(a, ask), Says(b, ask), Precedes(a, b)
  PROVE  Two(<<a, b>>, ask, a, b)
<1> DEFINE s == <<a>>
           f == <<b>>
           q == <<a, b>>
<1>1. /\ s \in Seq(Stmts) /\ Formed(s, ask) /\ Len(s) = 1 /\ s[1] = a
      /\ \A d, x : Has(s, d, x) <=> a.do = d /\ a.on = x
      /\ \A d, x : Args(s, d, x) = IF a.do = d /\ a.on = x THEN a.arg ELSE {}
  BY Single
<1>2. /\ f \in Seq(Stmts) /\ Formed(f, ask) /\ Len(f) = 1 /\ f[1] = b
      /\ \A d, x : Has(f, d, x) <=> b.do = d /\ b.on = x
      /\ \A d, x : Args(f, d, x) = IF b.do = d /\ b.on = x THEN b.arg ELSE {}
  BY Single
<1>3. q = s \o f /\ Len(q) = 2 /\ q[1] = a /\ q[2] = b
  <2>1. q \in Seq(Stmts) /\ Len(q) = 2 /\ q[1] = a /\ q[2] = b
    OBVIOUS
  <2>2. Tail(q) = f /\ Head(q) = a
    OBVIOUS
  <2>3. q = <<Head(q)>> \o Tail(q)
    <3>1. q # <<>>
      BY <2>1
    <3> HIDE DEF q
    <3>2. QED
      BY <2>1, <3>1, TailIs
  <2>4. QED
    BY <2>1, <2>2, <2>3
<1> HIDE DEF s, f, q
<1>4. \A i \in 1 .. Len(s), j \in 1 .. Len(f) : Precedes(s[i], f[j])
  BY <1>1, <1>2
<1>5. s \o f \in Seq(Stmts) /\ Formed(s \o f, ask)
  BY <1>1, <1>2, <1>4, FormedJoined
<1>6. ASSUME NEW d, NEW x
      PROVE  /\ Has(q, d, x) <=> (a.do = d /\ a.on = x) \/ (b.do = d /\ b.on = x)
             /\ Args(q, d, x) = (IF a.do = d /\ a.on = x THEN a.arg ELSE {}) \union
                                (IF b.do = d /\ b.on = x THEN b.arg ELSE {})
  <2>1. /\ Has(s \o f, d, x) <=> Has(s, d, x) \/ Has(f, d, x)
        /\ Args(s \o f, d, x) = Args(s, d, x) \union Args(f, d, x)
    BY <1>1, <1>2, Joined
  <2>2. /\ Has(q, d, x) <=> Has(s, d, x) \/ Has(f, d, x)
        /\ Args(q, d, x) = Args(s, d, x) \union Args(f, d, x)
    BY <1>3, <2>1
  <2>3. Has(q, d, x) <=> (a.do = d /\ a.on = x) \/ (b.do = d /\ b.on = x)
    BY <1>1, <1>2, <2>2
  <2>4. Args(q, d, x) = (IF a.do = d /\ a.on = x THEN a.arg ELSE {}) \union
                        (IF b.do = d /\ b.on = x THEN b.arg ELSE {})
    BY <1>1, <1>2, <2>2
  <2>5. QED
    BY <2>3, <2>4
<1>7. \A j \in 1 .. Len(q) : q[j] = a \/ q[j] = b
  BY <1>3
<1>8. QED
  BY <1>3, <1>5, <1>6, <1>7 DEF Two, q

LEMMA RemoveRoleKeeps == ASSUME AccountsInv, NEW c \in Clients, RemoveRole(c) PROVE AccountsInv'
<1>1. PICK r \in Roles : AsksEdit(c, <<>>, DeleteRole(r), r, {})
  BY DEF RemoveRole
<1> DEFINE a == Stmt("count", r, {})
           b == Stmt("deleteRole", r, {})
           ask == One(r, {})
           q == DeleteRole(r)
<1>2. DOMAIN ask = {r} /\ AsksFor(ask) /\ (RolePlan(q, r, {}, grants) => Plan(q, ask, grants, users))
  BY OneRole
<1>3. /\ a \in Stmts /\ a.do = "count" /\ a.on = r /\ b \in Stmts /\ b.do = "deleteRole" /\ b.on = r
      /\ q = <<a, b>>
  BY DEF Stmt, Stmts, Names, Verbs, RoleVerbs, DeleteRole
<1> HIDE DEF a, b, ask, q
<1>4. Says(a, ask) /\ Says(b, ask)
  BY <1>2, <1>3 DEF Says, RoleVerbs, UserVerbs, PermVerbs
<1>5. Precedes(a, b)
  BY <1>3 DEF Precedes, Level
<1>6. Two(q, ask, a, b)
  BY <1>3, <1>4, <1>5, TwoIs
<1>7. Acts(q)
  BY <1>3, <1>6 DEF Two, Acts
<1>8. RolePlan(q, r, {}, grants)
  <2>1. Has(q, "deleteRole", r)
    BY <1>3, <1>6 DEF Two
  <2>2. QED
    BY <2>1 DEF RolePlan
<1>9. q \in Seq(Stmts) /\ Formed(q, ask)
  BY <1>6 DEF Two
<1>10. QED
  BY <1>1, <1>2, <1>7, <1>8, <1>9, EditEntered DEF ask, q

LEMMA RemoveUserKeeps == ASSUME AccountsInv, NEW c \in Clients, RemoveUser(c) PROVE AccountsInv'
<1>1. PICK m \in Members : AsksEdit(c, Seek(m), EraseUser(m), m, {})
  BY DEF RemoveUser
<1> DEFINE a == Stmt("unassign", m, {})
           b == Stmt("deleteUser", m, {})
           ask == One(m, {})
           q == EraseUser(m)
<1>2. DOMAIN ask = {m} /\ AsksFor(ask) /\ (MemberPlan(q, m, {}, users) => Plan(q, ask, grants, users))
  BY OneMember
<1>3. /\ a \in Stmts /\ a.do = "unassign" /\ a.on = m /\ b \in Stmts /\ b.do = "deleteUser" /\ b.on = m
      /\ q = <<a, b>> /\ m \in Names
  BY DEF Stmt, Stmts, Names, Verbs, UserVerbs, EraseUser
<1> HIDE DEF a, b, ask, q
<1>4. Says(a, ask) /\ Says(b, ask)
  BY <1>2, <1>3 DEF Says, RoleVerbs, UserVerbs, PermVerbs
<1>5. Precedes(a, b)
  BY <1>3 DEF Precedes, Level
<1>6. Two(q, ask, a, b)
  BY <1>3, <1>4, <1>5, TwoIs
<1>7. Acts(q)
  BY <1>3, <1>6 DEF Two, Acts
<1>8. MemberPlan(q, m, {}, users)
  <2>1. Has(q, "deleteUser", m) /\ Args(q, "setLegacy", m) = {}
    BY <1>3, <1>6 DEF Two
  <2>2. QED
    BY <2>1 DEF MemberPlan
<1>9. q \in Seq(Stmts) /\ Formed(q, ask)
  BY <1>6 DEF Two
<1>10. Seek(m) = <<>> \/ \E y \in Names : Seek(m) = Seek(y)
  BY <1>3
<1>11. QED
  BY <1>1, <1>2, <1>7, <1>8, <1>9, <1>10, EditEntered DEF ask, q

(* A new user, with roles, or with the one that is in the row itself. *)
LEMMA UserEntered ==
  ASSUME AccountsInv, NEW c \in Clients, NEW m \in Members, NEW first \in SUBSET Roles,
         NEW T \in SUBSET Roles, NEW A \in SUBSET Roles, first \subseteq A,
         T = A \/ (T = {} /\ first = A), AsksEdit(c, <<>>, PostUser(m, first, T), m, A)
  PROVE  AccountsInv'
<1> DEFINE a == Stmt("insertUser", m, first)
           ask == One(m, A)
           q == PostUser(m, first, T)
<1>2. DOMAIN ask = {m} /\ AsksFor(ask) /\ (MemberPlan(q, m, A, users) => Plan(q, ask, grants, users))
  BY OneMember
<1>3. /\ a \in Stmts /\ a.do = "insertUser" /\ a.on = m /\ a.arg = first
      /\ "assign" \in Verbs /\ m \in Names /\ T \in SUBSET (Roles \union Perms)
      /\ q = <<a>> \o ForEach("assign", m, T)
  BY DEF Stmt, Stmts, Names, Verbs, UserVerbs, PostUser
<1>4. Stmt("assign", m, T).do = "assign" /\ Stmt("assign", m, T).on = m /\ Stmt("assign", m, T).arg = T
  BY DEF Stmt
<1> HIDE DEF a, ask, q
<1>5. Says(a, ask) /\ Says(Stmt("assign", m, T), ask)
  BY <1>2, <1>3, <1>4 DEF Says, RoleVerbs, UserVerbs, PermVerbs
<1>6. Precedes(a, Stmt("assign", m, T))
  BY <1>3, <1>4 DEF Precedes, Level
<1>7. Paired(q, ask, a, "assign", m, T)
  BY <1>3, <1>5, <1>6, PairIs
<1>8. Acts(q)
  BY <1>3, <1>4, <1>7 DEF Paired, Acts
<1>9. MemberPlan(q, m, A, users)
  <2>a. \A d : Args(q, d, m) = (IF a.do = d /\ a.on = m THEN a.arg ELSE {}) \union
                               (IF "assign" = d THEN T ELSE {})
    BY <1>7 DEF Paired
  <2>b. Args(q, "assign", m) = T /\ Args(q, "insertUser", m) = first /\ Args(q, "setLegacy", m) = {}
    BY <1>3, <2>a
  <2>c. ~Has(q, "setLegacy", m) /\ ~Has(q, "unassign", m) /\ Has(q, "insertUser", m)
    BY <1>3, <1>7 DEF Paired
  <2>1. /\ Args(q, "assign", m) = T /\ Args(q, "insertUser", m) = first /\ Args(q, "setLegacy", m) = {}
        /\ ~Has(q, "setLegacy", m) /\ ~Has(q, "unassign", m) /\ Has(q, "insertUser", m)
    BY <2>b, <2>c
  <2>2. QED
    BY <2>1 DEF MemberPlan
<1>10. q \in Seq(Stmts) /\ Formed(q, ask)
  BY <1>7 DEF Paired
<1>11. QED
  BY <1>2, <1>8, <1>9, <1>10, EditEntered DEF ask, q

LEMMA AddUserKeeps == ASSUME AccountsInv, NEW c \in Clients, AddUser(c) PROVE AccountsInv'
<1>1. PICK m \in Members, S \in SUBSET Roles :
        LET T == IF S = {} THEN {"Viewer"} \intersect DOMAIN grants ELSE S
        IN \E first \in IF T = {} THEN {{}} ELSE {{r} : r \in T} :
             AsksEdit(c, <<>>, PostUser(m, first, T), m, T)
  BY DEF AddUser
<1> DEFINE T == IF S = {} THEN {"Viewer"} \intersect DOMAIN grants ELSE S
<1>2. PICK first \in IF T = {} THEN {{}} ELSE {{r} : r \in T} : AsksEdit(c, <<>>, PostUser(m, first, T), m, T)
  BY <1>1
<1>3. T \in SUBSET Roles
  BY DEF AccountsInv, RowTypes
<1> HIDE DEF T
<1>4. first \in SUBSET Roles /\ first \subseteq T
  BY <1>2, <1>3
<1>5. QED
  BY <1>2, <1>3, <1>4, UserEntered

LEMMA AddMemberKeeps == ASSUME AccountsInv, AddMember PROVE AccountsInv'
<1>1. PICK m \in Members, r \in Roles :
        AsksEdit(Super, <<>>, PostUser(m, {r} \intersect DOMAIN grants, {}), m, {r} \intersect DOMAIN grants)
  BY DEF AddMember
<1> DEFINE A == {r} \intersect DOMAIN grants
<1>2. A \in SUBSET Roles /\ {} \in SUBSET Roles /\ Super \in Clients
  BY DEF Clients
<1>3. AsksEdit(Super, <<>>, PostUser(m, A, {}), m, A)
  BY <1>1
<1> HIDE DEF A
<1>4. QED
  BY <1>2, <1>3, UserEntered

LEMMA EditUserKeeps == ASSUME AccountsInv, NEW c \in Clients, EditUser(c) PROVE AccountsInv'
<1>1. PICK m \in Members, S \in SUBSET Roles :
        \E first \in IF S = {} THEN {{}} ELSE {{r} : r \in S} :
          AsksEdit(c, Seek(m), PatchUser(m, first, S), m, S)
  BY DEF EditUser
<1>2. PICK first \in IF S = {} THEN {{}} ELSE {{r} : r \in S} :
        AsksEdit(c, Seek(m), PatchUser(m, first, S), m, S)
  BY <1>1
<1>3. first \subseteq S /\ (S = {} <=> first = {})
  BY <1>2
<1> DEFINE a == Stmt("unassign", m, {})
           ask == One(m, S)
           p == <<a>> \o ForEach("assign", m, S)
           f == ForEach("setLegacy", m, first)
           q == PatchUser(m, first, S)
<1>4. DOMAIN ask = {m} /\ AsksFor(ask) /\ (MemberPlan(q, m, S, users) => Plan(q, ask, grants, users))
  BY OneMember
<1>5. /\ a \in Stmts /\ a.do = "unassign" /\ a.on = m /\ a.arg = {}
      /\ {"assign", "setLegacy"} \subseteq Verbs /\ m \in Names
      /\ S \in SUBSET (Roles \union Perms) /\ first \in SUBSET (Roles \union Perms)
  BY <1>3 DEF Stmt, Stmts, Names, Verbs, UserVerbs
<1>6. q = p \o f
  BY DEF PatchUser
<1>7. /\ Stmt("assign", m, S).do = "assign" /\ Stmt("assign", m, S).on = m /\ Stmt("assign", m, S).arg = S
      /\ Stmt("setLegacy", m, first).do = "setLegacy" /\ Stmt("setLegacy", m, first).on = m
      /\ Stmt("setLegacy", m, first).arg = first
  BY DEF Stmt
<1>8. p = <<a>> \o ForEach("assign", m, S) /\ f = ForEach("setLegacy", m, first)
  OBVIOUS
<1> HIDE DEF a, ask, p, f, q
<1>9. Says(a, ask) /\ Says(Stmt("assign", m, S), ask) /\ (first # {} => Says(Stmt("setLegacy", m, first), ask))
  BY <1>3, <1>4, <1>5, <1>7 DEF Says, RoleVerbs, UserVerbs, PermVerbs
<1>10. /\ Precedes(a, Stmt("assign", m, S)) /\ Precedes(a, Stmt("setLegacy", m, first))
       /\ Precedes(Stmt("assign", m, S), Stmt("setLegacy", m, first))
  BY <1>5, <1>7 DEF Precedes, Level
<1>11. Paired(p, ask, a, "assign", m, S)
  BY <1>5, <1>8, <1>9, <1>10, PairIs
<1>12. /\ f \in Seq(Stmts) /\ Formed(f, ask)
       /\ \A i \in 1 .. Len(f) : f[i] = Stmt("setLegacy", m, first)
       /\ \A d, x : Has(f, d, x) <=> first # {} /\ "setLegacy" = d /\ m = x
       /\ \A d, x : Args(f, d, x) = IF "setLegacy" = d /\ m = x THEN first ELSE {}
  BY <1>5, <1>8, <1>9, Loop
<1>13. p \in Seq(Stmts) /\ Formed(p, ask) /\ \A j \in 1 .. Len(p) : p[j] = a \/ p[j] = Stmt("assign", m, S)
  BY <1>11 DEF Paired
<1>14. \A i \in 1 .. Len(p), j \in 1 .. Len(f) : Precedes(p[i], f[j])
  BY <1>10, <1>12, <1>13
<1>15. q \in Seq(Stmts) /\ Formed(q, ask)
  BY <1>6, <1>12, <1>13, <1>14, FormedJoined
<1>16. Acts(q)
  <2>1. \A k \in 1 .. Len(p \o f) :
          \/ k \in 1 .. Len(p) /\ (p \o f)[k] = p[k]
          \/ \E j \in 1 .. Len(f) : (p \o f)[k] = f[j]
    <3>1. p \in Seq(Stmts) /\ f \in Seq(Stmts)
      BY <1>12, <1>13
    <3>2. QED
      BY <3>1, Places
  <2>2. ASSUME NEW k \in 1 .. Len(q) PROVE q[k].do \notin {"check", "find"}
    <3>1. CASE k \in 1 .. Len(p) /\ q[k] = p[k]
      BY <1>5, <1>7, <1>13, <3>1
    <3>2. CASE \E j \in 1 .. Len(f) : q[k] = f[j]
      BY <1>7, <1>12, <3>2
    <3>3. QED
      BY <1>6, <2>1, <3>1, <3>2
  <2>3. QED
    BY <2>2 DEF Acts
<1>17. MemberPlan(q, m, S, users)
  <2>1. ASSUME NEW d
        PROVE  /\ Has(q, d, m) <=> Has(p, d, m) \/ Has(f, d, m)
               /\ Args(q, d, m) = Args(p, d, m) \union Args(f, d, m)
    <3>1. /\ Has(p \o f, d, m) <=> Has(p, d, m) \/ Has(f, d, m)
          /\ Args(p \o f, d, m) = Args(p, d, m) \union Args(f, d, m)
      BY <1>12, <1>13, Joined
    <3>2. QED
      BY <1>6, <3>1
  <2>2. \A d : Args(p, d, m) = (IF a.do = d /\ a.on = m THEN a.arg ELSE {}) \union
                               (IF "assign" = d THEN S ELSE {})
    BY <1>11 DEF Paired
  <2>3. Args(q, "assign", m) = S /\ Args(q, "setLegacy", m) = first
    <3>1. Args(p, "assign", m) = S /\ Args(p, "setLegacy", m) = {}
      BY <1>5, <2>2
    <3>2. Args(f, "assign", m) = {} /\ Args(f, "setLegacy", m) = first
      BY <1>12
    <3>3. QED
      BY <2>1, <3>1, <3>2
  <2>4. Has(p, "unassign", m) /\ ~Has(p, "insertUser", m)
    BY <1>5, <1>11 DEF Paired
  <2>5. Has(q, "unassign", m) /\ ~Has(q, "insertUser", m) /\ (first # {} => Has(q, "setLegacy", m))
    BY <1>12, <2>1, <2>4
  <2>6. QED
    BY <1>3, <2>3, <2>5 DEF MemberPlan
<1>18. Seek(m) = <<>> \/ \E y \in Names : Seek(m) = Seek(y)
  BY <1>5
<1>19. QED
  BY <1>2, <1>4, <1>15, <1>16, <1>17, <1>18, EditEntered DEF ask, q

(* A single statement that no plan speaks of, or none of this request. *)
LEMMA OneEntered ==
  ASSUME AccountsInv, NEW c \in Clients, NEW find, find = <<>> \/ \E y \in Names : find = Seek(y),
         NEW e \in Stmts, e.do \notin {"check", "find"}, NEW ask, NEW clear, AsksFor(ask), Says(e, ask),
         clear => DOMAIN ask = {}, Enters(c, Guarded(c, find, <<e>>), ask, clear)
  PROVE  AccountsInv'
<1> DEFINE q == <<e>>
           l == Guarded(c, find, q)
<1>1. q \in Seq(Stmts) /\ Formed(q, ask) /\ Len(q) = 1 /\ q[1] = e
  BY Single
<1>2. Enters(c, l, ask, clear) /\ RowTypes
  BY DEF AccountsInv
<1> HIDE DEF q
<1>3. Acts(q)
  BY <1>1 DEF Acts
<1>4. /\ l \in Seq(Stmts) /\ Formed(l, ask)
      /\ \A g, u : Plan(q, ask, g, u) => Plan(l, ask, g, u)
  BY <1>1, <1>2, <1>3, GuardedIs
<1> HIDE DEF l
<1>5. clear => Plan(l, ask, grants, users)
  BY DEF Plan
<1>6. QED
  BY <1>2, <1>4, <1>5, Entered

LEMMA EditLegacyKeeps == ASSUME AccountsInv, NEW c \in Clients, EditLegacy(c) PROVE AccountsInv'
<1>1. PICK m \in Members, r \in Roles :
        Enters(c, Guarded(c, Seek(m), <<Stmt("setLegacy", m, {r})>>), [y \in {m} |-> {}], FALSE)
  BY DEF EditLegacy
<1> DEFINE e == Stmt("setLegacy", m, {r})
           ask == One(m, {})
<1>2. DOMAIN ask = {m} /\ AsksFor(ask)
  BY OneMember
<1>3. e \in Stmts /\ e.do = "setLegacy" /\ e.on = m /\ e.arg = {r} /\ m \in Names
  BY DEF Stmt, Stmts, Names, Verbs, UserVerbs
<1>4. Enters(c, Guarded(c, Seek(m), <<e>>), ask, FALSE)
  BY <1>1 DEF One
<1> HIDE DEF e, ask
<1>5. Says(e, ask)
  BY <1>2, <1>3 DEF Says, RoleVerbs, UserVerbs, PermVerbs
<1>6. \E y \in Names : Seek(m) = Seek(y)
  BY <1>3
<1>7. QED
  BY <1>2, <1>3, <1>4, <1>5, <1>6, OneEntered

LEMMA PermissionsKeep ==
  ASSUME AccountsInv, NEW c \in Clients, AddPermission(c) \/ RemovePermission(c) PROVE AccountsInv'
<1>1. PICK p \in AppPerms, do \in {"insertPermission", "deletePermission"} :
        Enters(c, Guarded(c, <<>>, <<Stmt(do, p, {})>>), <<>>, TRUE)
  BY DEF AddPermission, RemovePermission
<1> DEFINE e == Stmt(do, p, {})
<1>2. e \in Stmts /\ e.do = do /\ e.on = p /\ p \in Perms
  BY DEF Stmt, Stmts, Names, Verbs, PermVerbs, Perms
<1>3. DOMAIN <<>> = {} /\ AsksFor(<<>>)
  BY NoRequestIs
<1>4. Enters(c, Guarded(c, <<>>, <<e>>), <<>>, TRUE)
  BY <1>1
<1> HIDE DEF e
<1>5. Says(e, <<>>)
  BY <1>2, <1>3 DEF Says, RoleVerbs, UserVerbs, PermVerbs
<1>6. QED
  BY <1>2, <1>3, <1>4, <1>5, OneEntered

-----------------------------------------------------------------------------
(* The roles that an organization starts with.                               *)

LEMMA DefaultsAre ==
  /\ DOMAIN Defaults = {"Admin", "Editor", "Viewer"} /\ DOMAIN Defaults \subseteq Roles
  /\ \A r \in DOMAIN Defaults : Defaults[r] \subseteq Perms
  /\ AsksFor(Defaults)
<1>1. /\ DOMAIN Defaults = {"Admin", "Editor", "Viewer"} /\ Defaults["Admin"] = SysPerms
      /\ Defaults["Editor"] = EditorPerms /\ Defaults["Viewer"] = ViewerPerms
  BY DEF Defaults
<1>2. EditorPerms \subseteq Perms /\ ViewerPerms \subseteq Perms /\ SysPerms \subseteq Perms
  BY AccountsAssumption DEF Perms
<1>3. DOMAIN Defaults \subseteq Roles
  BY DEF Roles
<1>4. \A r \in DOMAIN Defaults : Defaults[r] \subseteq Perms
  BY <1>1, <1>2
<1>5. \A m \in Members : m \notin DOMAIN Defaults
  BY <1>3, AccountsAssumption
<1>6. QED
  BY <1>1, <1>3, <1>4, <1>5 DEF AsksFor

(* Statements that bring the roles R. *)
Brings(q, R) ==
  /\ q \in Seq(Stmts) /\ Formed(q, Defaults)
  /\ \A j \in 1 .. Len(q) : q[j].on \in R /\ q[j].do \in {"upsertRole", "grant"}
  /\ \A d, x : Has(q, d, x) => x \in R /\ d \in {"upsertRole", "grant"}
  /\ \A d, x : x \notin R => Args(q, d, x) = {}
  /\ \A r \in R : Has(q, "upsertRole", r) /\ Args(q, "grant", r) = Defaults[r]

Bring(r) == <<Stmt("upsertRole", r, {})>> \o ForEach("grant", r, Defaults[r])

LEMMA BringsOne == ASSUME NEW r \in DOMAIN Defaults PROVE Brings(Bring(r), {r})
<1> DEFINE a == Stmt("upsertRole", r, {})
           S == Defaults[r]
           b == Stmt("grant", r, S)
           q == Bring(r)
<1>1. r \in Roles /\ S \subseteq Perms
  BY DefaultsAre
<1>2. /\ a \in Stmts /\ a.do = "upsertRole" /\ a.on = r /\ a.arg = {}
      /\ "grant" \in Verbs /\ r \in Names /\ S \in SUBSET (Roles \union Perms)
      /\ q = <<a>> \o ForEach("grant", r, S)
  BY <1>1 DEF Stmt, Stmts, Names, Verbs, RoleVerbs, Bring
<1>3. b.do = "grant" /\ b.on = r /\ b.arg = S /\ b = Stmt("grant", r, S)
  BY DEF Stmt
<1> HIDE DEF a, b, q, S
<1>4. Says(a, Defaults) /\ Says(b, Defaults)
  BY <1>1, <1>2, <1>3 DEF Says, RoleVerbs, UserVerbs, PermVerbs
<1>5. Precedes(a, b)
  BY <1>2, <1>3 DEF Precedes, Level
<1>6. Paired(q, Defaults, a, "grant", r, S)
  BY <1>2, <1>3, <1>4, <1>5, PairIs
<1>7. /\ q \in Seq(Stmts) /\ Formed(q, Defaults)
      /\ \A d, x : Has(q, d, x) <=> (a.do = d /\ a.on = x) \/ (S # {} /\ "grant" = d /\ r = x)
      /\ \A j \in 1 .. Len(q) : q[j] = a \/ q[j] = b
  BY <1>3, <1>6 DEF Paired
<1>8. \A d, x : Args(q, d, x) = (IF a.do = d /\ a.on = x THEN a.arg ELSE {}) \union
                                (IF "grant" = d /\ r = x THEN S ELSE {})
  BY <1>6 DEF Paired
<1>9. \A j \in 1 .. Len(q) : q[j].on \in {r} /\ q[j].do \in {"upsertRole", "grant"}
  BY <1>2, <1>3, <1>7
<1>10. \A d, x : Has(q, d, x) => x \in {r} /\ d \in {"upsertRole", "grant"}
  BY <1>2, <1>7
<1>11. \A d, x : x \notin {r} => Args(q, d, x) = {}
  BY <1>2, <1>8
<1>12. Has(q, "upsertRole", r) /\ Args(q, "grant", r) = S
  BY <1>2, <1>7, <1>8
<1>13. QED
  BY <1>7, <1>9, <1>10, <1>11, <1>12 DEF Brings, q, S

LEMMA BringsBoth ==
  ASSUME NEW s, NEW t, NEW A, NEW B, Brings(s, A), Brings(t, B), A \intersect B = {}
  PROVE  Brings(s \o t, A \union B)
<1> DEFINE q == s \o t
<1>1. /\ s \in Seq(Stmts) /\ t \in Seq(Stmts) /\ Formed(s, Defaults) /\ Formed(t, Defaults)
      /\ \A j \in 1 .. Len(s) : s[j].on \in A /\ s[j].do \in {"upsertRole", "grant"}
      /\ \A j \in 1 .. Len(t) : t[j].on \in B /\ t[j].do \in {"upsertRole", "grant"}
  BY DEF Brings
<1>2. \A i \in 1 .. Len(s), j \in 1 .. Len(t) : Precedes(s[i], t[j])
  BY <1>1 DEF Precedes, First
<1>3. q \in Seq(Stmts) /\ Formed(q, Defaults)
  BY <1>1, <1>2, FormedJoined
<1>4. \A d, x : /\ Has(q, d, x) <=> Has(s, d, x) \/ Has(t, d, x)
                /\ Args(q, d, x) = Args(s, d, x) \union Args(t, d, x)
  BY <1>1, Joined
<1>5. \A k \in 1 .. Len(q) : (\E i \in 1 .. Len(s) : q[k] = s[i]) \/ (\E j \in 1 .. Len(t) : q[k] = t[j])
  <2>1. /\ \A i \in 1 .. Len(s) : (s \o t)[i] = s[i]
        /\ \A j \in 1 .. Len(t) : (s \o t)[Len(s) + j] = t[j]
        /\ \A k \in 1 .. Len(s \o t) : k \in 1 .. Len(s) \/ \E j \in 1 .. Len(t) : k = Len(s) + j
    BY <1>1, Places
  <2>2. QED
    BY <2>1
<1> HIDE DEF q
<1>6. \A k \in 1 .. Len(q) : q[k].on \in A \union B /\ q[k].do \in {"upsertRole", "grant"}
  <2>1. ASSUME NEW k \in 1 .. Len(q)
        PROVE  q[k].on \in A \union B /\ q[k].do \in {"upsertRole", "grant"}
    <3>1. CASE \E i \in 1 .. Len(s) : q[k] = s[i]
      BY <1>1, <3>1
    <3>2. CASE \E j \in 1 .. Len(t) : q[k] = t[j]
      BY <1>1, <3>2
    <3>3. QED
      BY <1>5, <3>1, <3>2
  <2>2. QED
    BY <2>1
<1>7. \A d, x : Has(q, d, x) => x \in A \union B /\ d \in {"upsertRole", "grant"}
  BY <1>4 DEF Brings
<1>8. \A d, x : x \notin A \union B => Args(q, d, x) = {}
  BY <1>4 DEF Brings
<1>9. ASSUME NEW r \in A \union B PROVE Has(q, "upsertRole", r) /\ Args(q, "grant", r) = Defaults[r]
  <2>1. CASE r \in A
    <3>1. Has(s, "upsertRole", r) /\ Args(s, "grant", r) = Defaults[r] /\ r \notin B
      BY <2>1 DEF Brings
    <3>2. Args(t, "grant", r) = {}
      BY <3>1 DEF Brings
    <3>3. QED
      BY <1>4, <3>1, <3>2
  <2>2. CASE r \in B
    <3>1. Has(t, "upsertRole", r) /\ Args(t, "grant", r) = Defaults[r] /\ r \notin A
      BY <2>2 DEF Brings
    <3>2. Args(s, "grant", r) = {}
      BY <3>1 DEF Brings
    <3>3. QED
      BY <1>4, <3>1, <3>2
  <2>3. QED
    BY <2>1, <2>2
<1>10. QED
  BY <1>3, <1>6, <1>7, <1>8, <1>9 DEF Brings, q

LEMMA SeedIs ==
  /\ CreateDefaultRoles \in Seq(Stmts) /\ Formed(CreateDefaultRoles, Defaults)
  /\ \A u : Plan(CreateDefaultRoles, Defaults, <<>>, u)
<1> DEFINE a == Bring("Admin")
           e == Bring("Editor")
           v == Bring("Viewer")
           q == CreateDefaultRoles
           R == {"Admin", "Editor", "Viewer"}
<1>1. DOMAIN Defaults = R
  BY DefaultsAre
<1>2. Brings(a, {"Admin"}) /\ Brings(e, {"Editor"}) /\ Brings(v, {"Viewer"})
  BY <1>1, BringsOne
<1>3. q = a \o e \o v
  BY DEF CreateDefaultRoles, Bring
<1> HIDE DEF a, e, v, q
<1>4. Brings(e \o v, {"Editor"} \union {"Viewer"}) /\ Brings(a \o e, {"Admin"} \union {"Editor"})
  BY <1>2, BringsBoth
<1>5. Brings((a \o e) \o v, ({"Admin"} \union {"Editor"}) \union {"Viewer"})
  BY <1>2, <1>4, BringsBoth
<1>6. ({"Admin"} \union {"Editor"}) \union {"Viewer"} = R
  OBVIOUS
<1>7. Brings(q, R)
  BY <1>3, <1>5, <1>6
<1> HIDE DEF R
<1>8. ASSUME NEW u PROVE Plan(q, Defaults, <<>>, u)
  <2>1. ASSUME NEW r \in Roles, r \in R PROVE RolePlan(q, r, Defaults[r], <<>>)
    <3>1. Has(q, "upsertRole", r) /\ Args(q, "grant", r) = Defaults[r]
      BY <1>7, <2>1 DEF Brings
    <3>2. DOMAIN <<>> = {}
      OBVIOUS
    <3>3. QED
      BY <3>1, <3>2 DEF RolePlan, Resets
  <2>2. \A m \in Members : m \notin R
    BY <1>1, DefaultsAre, AccountsAssumption
  <2>3. QED
    BY <1>1, <2>1, <2>2 DEF Plan
<1>9. q \in Seq(Stmts) /\ Formed(q, Defaults)
  BY <1>7 DEF Brings
<1>10. QED
  BY <1>8, <1>9 DEF q

LEMMA SeedKeeps == ASSUME AccountsInv, Seed PROVE AccountsInv'
<1>1. Enters(Super, CreateDefaultRoles, Defaults, FALSE) /\ Super \in Clients
  BY DEF Seed, Clients
<1>2. AsksFor(Defaults)
  BY DefaultsAre
<1>3. QED
  BY <1>1, <1>2, SeedIs, Entered

-----------------------------------------------------------------------------
(* The invariant.                                                            *)

LEMMA AccountsBegin == ASSUME AccountsInit PROVE AccountsInv
<1>1. PICK fresh \in BOOLEAN, admin \in Members :
        /\ grants = IF fresh THEN <<>> ELSE Defaults
        /\ users = IF fresh THEN <<>> ELSE [m \in {admin} |-> [held |-> {}, legacy |-> {"Admin"}]]
        /\ serving = [c \in Clients |->
             IF c = Super /\ fresh
               THEN [todo |-> CreateDefaultRoles, ask |-> Defaults, clear |-> TRUE] ELSE NoRequest]
        /\ want = [x \in Roles \union Members |-> Unknown]
  BY DEF AccountsInit
<1> DEFINE first == [todo |-> CreateDefaultRoles, ask |-> Defaults, clear |-> TRUE]
<1>2. DOMAIN <<>> = {}
  OBVIOUS
<1>3. RowTypes
  <2>1. DOMAIN grants \subseteq Roles /\ \A r \in DOMAIN grants : grants[r] \subseteq Perms
    BY <1>1, <1>2, DefaultsAre
  <2>2. {"Admin"} \subseteq Roles
    BY DefaultsAre
  <2>3. DOMAIN users \subseteq Members /\ \A m \in DOMAIN users : users[m] \in [held : SUBSET Roles, legacy : SUBSET Roles]
    BY <1>1, <1>2, <2>2
  <2>4. QED
    BY <2>1, <2>3 DEF RowTypes
<1>4. \A x \in Roles \union Members : want[x] = Unknown
  BY <1>1
<1>5. WantTypes
  BY <1>1, <1>4, KnownIs DEF WantTypes
<1>6. FitsInv
  BY <1>4, KnownIs DEF FitsInv
<1>7. /\ first.todo = CreateDefaultRoles /\ first.ask = Defaults /\ DOMAIN first = {"todo", "ask", "clear"}
  OBVIOUS
<1>8. DOMAIN serving = Clients /\ \A c \in Clients : serving[c] = NoRequest \/ (c = Super /\ fresh /\ serving[c] = first)
  BY <1>1
<1> HIDE DEF first
<1>9. RequestTypes
  <2>1. ASSUME NEW c \in Clients
        PROVE  /\ DOMAIN serving[c] = {"todo", "ask", "clear"} /\ serving[c].todo \in Seq(Stmts)
               /\ AsksFor(serving[c].ask) /\ Formed(serving[c].todo, serving[c].ask)
    <3>1. CASE serving[c] = NoRequest
      BY <3>1, NoRequestIs
    <3>2. CASE serving[c] = first
      BY <1>7, <3>2, DefaultsAre, SeedIs
    <3>3. QED
      BY <1>8, <3>1, <3>2
  <2>2. QED
    BY <1>8, <2>1 DEF RequestTypes
<1>10. \A c \in Clients : serving[c].todo # <<>> => c = Super /\ fresh /\ serving[c] = first
  BY <1>8, NoRequestIs
<1>11. PlanInv
  <2>1. ASSUME NEW c \in Clients, serving[c].todo # <<>>
        PROVE  Plan(serving[c].todo, serving[c].ask, grants, users)
    <3>1. grants = <<>> /\ serving[c] = first
      BY <1>1, <1>10, <2>1
    <3>2. QED
      BY <1>7, <3>1, SeedIs
  <2>2. QED
    BY <2>1 DEF PlanInv
<1>12. AloneInv
  BY <1>10 DEF AloneInv, Edits
<1>13. QED
  BY <1>3, <1>5, <1>6, <1>9, <1>11, <1>12 DEF AccountsInv

LEMMA AccountsStays == ASSUME AccountsInv, [AccountsNext]_accountsVars PROVE AccountsInv'
<1>1. CASE AddMember
  BY <1>1, AddMemberKeeps
<1>2. CASE Seed
  BY <1>2, SeedKeeps
<1>3. ASSUME NEW c \in Clients, AskFor(c) PROVE AccountsInv'
  BY <1>3, EditRoleKeeps, AddRoleKeeps, RemoveRoleKeeps, AddUserKeeps, EditUserKeeps, EditLegacyKeeps,
     RemoveUserKeeps, PermissionsKeep DEF AskFor
<1>4. ASSUME NEW c \in Clients, RunOne(c) \/ Break(c) PROVE AccountsInv'
  BY <1>4, RunsKeep
<1>5. CASE UNCHANGED accountsVars
  <2>1. grants' = grants /\ users' = users /\ serving' = serving /\ want' = want
    BY <1>5 DEF accountsVars
  <2>2. RowTypes' /\ WantTypes' /\ RequestTypes'
    BY <2>1 DEF AccountsInv, RowTypes, WantTypes, RequestTypes
  <2>3. PlanInv' /\ AloneInv'
    BY <2>1 DEF AccountsInv, PlanInv, AloneInv, Edits
  <2>4. FitsInv'
    BY <2>1 DEF AccountsInv, FitsInv, Idle, Begun, Edits
  <2>5. QED
    BY <2>2, <2>3, <2>4 DEF AccountsInv
<1>6. QED
  BY <1>1, <1>2, <1>3, <1>4, <1>5 DEF AccountsNext

LEMMA AccountsInvHolds == AccountsSpec => []AccountsInv
<1>1. AccountsInit => AccountsInv
  BY AccountsBegin
<1>2. AccountsInv /\ [AccountsNext]_accountsVars => AccountsInv'
  BY AccountsStays
<1>3. QED
  BY <1>1, <1>2, PTL DEF AccountsSpec

(* In every behaviour of the handlers of api/roles, api/users, api/permissions *)
(* and api/super/orgs, with any number of requests interleaved statement by    *)
(* statement and any of them broken off, what no request is editing is what    *)
(* the last edit asked for, unless that edit overlapped another or failed.     *)
THEOREM GrantsAsAskedHolds == AccountsSpec => []GrantsAsAsked
<1>1. ASSUME AccountsInv PROVE GrantsAsAsked
  <2>1. RowTypes /\ FitsInv
    BY <1>1 DEF AccountsInv
  <2>2. ASSUME NEW x, ~Edited(x) PROVE Idle(x)
    BY <2>2 DEF Edited, Idle, Begun
  <2>3. RoleAsAsked
    BY <2>1, <2>2 DEF RoleAsAsked, FitsInv, RoleFits, RowTypes
  <2>4. ASSUME NEW m \in DOMAIN users, ~Edited(m), want[m].known PROVE MemberFits(users, m, want[m].set)
    BY <2>1, <2>2, <2>4 DEF FitsInv, RowTypes
  <2>5. MemberAsAsked
    BY <2>4 DEF MemberAsAsked, MemberFits, Effective
  <2>6. ListedAreEffective
    BY <2>4 DEF ListedAreEffective, MemberFits, Effective, Listed
  <2>7. QED
    BY <2>3, <2>5, <2>6 DEF GrantsAsAsked
<1>2. QED
  BY <1>1, AccountsInvHolds, PTL

(* No step of any handler leaves a user who has a main role without one: the   *)
(* forms that set role_id send one role at least, the deletion of a role is    *)
(* refused while role_id names it (api/users, api/roles, the users table).     *)
THEOREM KeepsARoleHolds == AccountsSpec => KeepsARole
<1> DEFINE Kept == \A m \in DOMAIN users \intersect DOMAIN users' :
                     users[m].legacy # {} => users'[m].legacy # {}
<1>1. ASSUME AccountsInv, [AccountsNext]_accountsVars PROVE Kept
  <2>1. CASE users' = users
    BY <2>1
  <2>2. CASE AddMember \/ Seed \/ \E c \in Clients : AskFor(c)
    <3>1. ASSUME NEW c, NEW stmts, NEW ask, NEW clear, Enters(c, stmts, ask, clear) PROVE users' = users
      BY <3>1 DEF Enters
    <3>2. ASSUME NEW c, NEW find, NEW stmts, NEW x, NEW S, AsksEdit(c, find, stmts, x, S) PROVE users' = users
      BY <3>1, <3>2 DEF AsksEdit
    <3>3. CASE AddMember
      BY <3>2, <3>3 DEF AddMember
    <3>4. CASE Seed
      BY <3>1, <3>4 DEF Seed
    <3>5. ASSUME NEW c \in Clients, AskFor(c) PROVE users' = users
      <4>1. CASE EditRole(c) \/ AddRole(c) \/ RemoveRole(c) \/ RemoveUser(c)
        BY <3>2, <4>1 DEF EditRole, AddRole, RemoveRole, RemoveUser
      <4>2. CASE AddUser(c)
        BY <3>2, <4>2 DEF AddUser
      <4>3. CASE EditUser(c)
        BY <3>2, <4>3 DEF EditUser
      <4>4. CASE EditLegacy(c) \/ AddPermission(c) \/ RemovePermission(c)
        BY <3>1, <4>4 DEF EditLegacy, AddPermission, RemovePermission
      <4>5. QED
        BY <3>5, <4>1, <4>2, <4>3, <4>4 DEF AskFor
    <3>6. QED
      BY <2>1, <2>2, <3>3, <3>4, <3>5
  <2>3. ASSUME NEW c \in Clients, RunOne(c) PROVE Kept
    <3>1. CASE \/ Check(c) \/ FindRow(c) \/ InsertRole(c) \/ Ungrant(c) \/ Grant(c) \/ CountHolders(c)
               \/ InsertPermission(c) \/ DropPermission(c)
      <4>1. users' = users
        BY <3>1 DEF Check, FindRow, InsertRole, Ungrant, Grant, CountHolders, InsertPermission,
           DropPermission, Reject, Raise
      <4>2. QED
        BY <2>1, <4>1
    <3>2. CASE DropRole(c)
      <4>1. users' = users \/ users' = [m \in DOMAIN users |-> [users[m] EXCEPT !.held = @ \ {Target(c)}]]
        BY <3>2 DEF DropRole, Raise
      <4>2. \A m \in DOMAIN users : users[m] \in [held : SUBSET Roles, legacy : SUBSET Roles]
        BY <1>1 DEF AccountsInv, RowTypes
      <4>3. QED
        BY <2>1, <4>1, <4>2
    <3>3. CASE InsertUser(c)
      <4>1. \/ users' = users
            \/ /\ Target(c) \notin DOMAIN users
               /\ users' = [m \in DOMAIN users \union {Target(c)} |->
                              IF m = Target(c) THEN [held |-> {}, legacy |-> Arg(c)] ELSE users[m]]
        BY <3>3 DEF InsertUser, Reject, Raise
      <4>2. QED
        BY <2>1, <4>1
    <3>4. CASE Unassign(c)
      <4>1. \A m \in DOMAIN users : users[m] \in [held : SUBSET Roles, legacy : SUBSET Roles]
        BY <1>1 DEF AccountsInv, RowTypes
      <4>2. QED
        BY <3>4, <4>1 DEF Unassign
    <3>5. CASE Assign(c)
      <4>1. \A m \in DOMAIN users : users[m] \in [held : SUBSET Roles, legacy : SUBSET Roles]
        BY <1>1 DEF AccountsInv, RowTypes
      <4>2. users' = users \/ \E r : users' = [users EXCEPT ![Target(c)].held = @ \union {r}]
        BY <3>5 DEF Assign, Raise
      <4>3. QED
        BY <2>1, <4>1, <4>2
    <3>6. CASE SetLegacy(c)
      <4>1. serving[c].todo # <<>> /\ Current(c).do = "setLegacy" /\ Arg(c) = Current(c).arg
        BY <3>6, DoesIs DEF SetLegacy
      <4>2. Arg(c) # {}
        BY <1>1, <4>1, Now DEF Says
      <4>3. \A m \in DOMAIN users : users[m] \in [held : SUBSET Roles, legacy : SUBSET Roles]
        BY <1>1 DEF AccountsInv, RowTypes
      <4>4. \/ users' = users
            \/ users' = [m \in DOMAIN users |->
                           IF m = Target(c) THEN [users[m] EXCEPT !.legacy = Arg(c)] ELSE users[m]]
        BY <3>6 DEF SetLegacy, Raise
      <4>5. QED
        BY <2>1, <4>2, <4>3, <4>4
    <3>7. CASE DropUser(c)
      BY <3>7 DEF DropUser
    <3>8. QED
      BY <2>3, <3>1, <3>2, <3>3, <3>4, <3>5, <3>6, <3>7 DEF RunOne
  <2>4. ASSUME NEW c \in Clients, Break(c) PROVE Kept
    BY <2>1, <2>4 DEF Break, Raise
  <2>5. CASE UNCHANGED accountsVars
    BY <2>1, <2>5 DEF accountsVars
  <2>6. QED
    BY <1>1, <2>2, <2>3, <2>4, <2>5 DEF AccountsNext
<1>2. AccountsInv /\ [AccountsNext]_accountsVars => [Kept]_accountsVars
  BY <1>1
<1>3. AccountsSpec => [][Kept]_accountsVars
  BY <1>2, AccountsInvHolds, PTL DEF AccountsSpec
<1>4. QED
  BY <1>3 DEF KeepsARole
=============================================================================
