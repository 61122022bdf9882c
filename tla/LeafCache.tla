------------------------------ MODULE LeafCache ------------------------------
(***************************************************************************)
(* The cached episodes of one show, per account (cache.ts, and allLeaves,  *)
(* profileScope, accountToken and plexGet of plex.ts).                     *)
(*                                                                         *)
(* A reader finds the account its profile names, asks Plex for the show's  *)
(* count of watched episodes and takes the cached episodes if they were    *)
(* stored under the same count.  Requests for the same thing under the     *)
(* same token share one flight.  What Plex knows of an account is the set  *)
(* of episodes it has watched, which only grows here.                      *)
(***************************************************************************)
EXTENDS Integers, FiniteSets

CONSTANTS
    Readers,       \* concurrent reads: tiles, the start editor, counts
    Episodes,      \* the show's episodes
    Owner,         \* the account behind the server's own token
    AccountOf,     \* the account of each profile title plex.tv knows
    Titles,        \* what a set's requires_profile may say
    Nobody,        \* no such profile; no token
    Unset,         \* not remembered
    MaxWatches,    \* bound: episodes finished
    MaxReads,      \* bound: reads begun
    MaxLeafFaults  \* bound: requests that fail

Accounts == {Owner} \cup {AccountOf[t] : t \in DOMAIN AccountOf}

ASSUME LeafAssumption ==
    /\ Nobody \notin Accounts \cup Titles \cup DOMAIN AccountOf /\ Unset \notin Accounts \cup {Nobody}
    /\ MaxReads \in Nat /\ MaxLeafFaults \in Nat

VARIABLES
    watched,  \* Plex: the episodes each account has finished
    rows,     \* the leaves table, one row per account
    flights,  \* _inflight: what is asked, under which token, and Plex's answer
    users,    \* _profileUsers: the account remembered for a title
    tokens,   \* _accountTokens: whether an account's token could be had
    readers,  \* each reader's progress
    asks, leafFaults

leafVars == <<watched, rows, flights, users, tokens, readers, asks, leafFaults>>

NoRow    == [count |-> -1, episodes |-> {}, isOld |-> FALSE]
Unserved == {<<Nobody, 0>>}

\* `since` is what the account had watched when the read began, `source` where the
\* answer came from, `silent` whether plex.tv failed to name the account (history).
IdleReader == [pc |-> "idle", title |-> Nobody, account |-> Owner, count |-> -1, told |-> {},
         since |-> {}, source |-> "none", silent |-> FALSE]

LeafInit ==
    /\ watched = [a \in Accounts |-> {}] /\ rows = [a \in Accounts |-> NoRow] /\ flights = {}
    /\ users = [t \in Titles |-> Unset] /\ tokens = [a \in Accounts |-> Unset]
    /\ readers = [r \in Readers |-> IdleReader] /\ asks = 0 /\ leafFaults = 0

Goes(r, pc) == readers' = [readers EXCEPT ![r].pc = pc]

(***************************************************************************)
(* Whose account                                                           *)
(***************************************************************************)
\* Under the account found, or as the owner.
ReadsAs(r, account, silent) ==
    readers' = [readers EXCEPT ![r] = [@ EXCEPT !.pc = "ask", !.account = account, !.silent = silent,
                                                !.since = watched[account]]]

LeavesAsked(r, title) ==
    /\ readers[r].pc \in {"idle", "done"} /\ asks < MaxReads
    /\ readers' = [readers EXCEPT ![r] = [IdleReader EXCEPT !.pc = IF title = Nobody THEN "ask" ELSE "user",
                                                      !.title = title, !.since = watched[Owner]]]
    /\ asks' = asks + 1
    /\ UNCHANGED <<watched, rows, flights, users, tokens, leafFaults>>

\* profileUser: remembered, or asked of plex.tv; an account without a uuid is the owner's.
Named(title) == IF title \in DOMAIN AccountOf THEN AccountOf[title] ELSE Nobody

Remembered(title, answers) == IF answers THEN [users EXCEPT ![title] = Named(title)] ELSE users

Found(r, account, silent) ==
    IF account \in {Nobody, Owner} THEN ReadsAs(r, Owner, silent)
    ELSE readers' = [readers EXCEPT ![r] = [@ EXCEPT !.pc = "token", !.account = account]]

FindUser(r) ==
    LET title == readers[r].title IN
    /\ readers[r].pc = "user"
    /\ \/ /\ users[title] # Unset
          /\ Found(r, users[title], FALSE) /\ UNCHANGED <<users, leafFaults>>
       \/ /\ users[title] = Unset
          /\ users' = Remembered(title, TRUE) /\ Found(r, Named(title), FALSE) /\ UNCHANGED leafFaults
       \/ /\ users[title] = Unset /\ leafFaults < MaxLeafFaults /\ leafFaults' = leafFaults + 1
          /\ users' = Remembered(title, FALSE) /\ Found(r, Nobody, TRUE)
    /\ UNCHANGED <<watched, rows, flights, tokens, asks>>

\* accountToken: a failed mint is remembered too, so as not to ask for every tile.
MintToken(r) ==
    LET account == readers[r].account IN
    /\ readers[r].pc = "token"
    /\ \/ /\ tokens[account] # Unset /\ UNCHANGED <<tokens, leafFaults>>
          /\ IF tokens[account] = Nobody THEN ReadsAs(r, Owner, TRUE) ELSE ReadsAs(r, account, FALSE)
       \/ /\ tokens[account] = Unset /\ UNCHANGED leafFaults
          /\ tokens' = [tokens EXCEPT ![account] = account] /\ ReadsAs(r, account, FALSE)
       \/ /\ tokens[account] = Unset /\ leafFaults < MaxLeafFaults /\ leafFaults' = leafFaults + 1
          /\ tokens' = [tokens EXCEPT ![account] = Nobody] /\ ReadsAs(r, Owner, TRUE)
    /\ UNCHANGED <<watched, rows, flights, users, asks>>

(***************************************************************************)
(* plexGet                                                                 *)
(***************************************************************************)
\* A bug's form of Flight: requests under different tokens share a flight.
SharedFlight(what, account) == [what |-> what, token |-> Owner]

\* What a flight is known by: the path and the token.
Flight(what, account) == [what |-> what, token |-> account]

InFlight(key) == \E f \in flights : f.key = key
Gets(what, account) ==
    LET key == Flight(what, account) IN
    flights' = IF InFlight(key) THEN flights
               ELSE flights \cup {[key |-> key, token |-> account, answer |-> Unserved]}

\* Plex reads what it knows of the token's account; the answer is on its way from here.
Serve(f) ==
    /\ f.answer = Unserved
    /\ flights' = (flights \ {f}) \cup {[f EXCEPT !.answer = watched[f.token]]}
    /\ UNCHANGED <<watched, rows, users, tokens, readers, asks, leafFaults>>

Waits(r, f) == /\ readers[r].pc \in {"count", "leaves"}
               /\ f.key = Flight(readers[r].pc, readers[r].account)

\* An answer, or the last retry's failure, is every waiting reader's.
Settle(f) ==
    /\ f.answer # Unserved /\ flights' = flights \ {f}
    /\ readers' = [r \in Readers |->
         IF ~Waits(r, f) THEN readers[r]
         ELSE IF f.key.what = "count" THEN [readers[r] EXCEPT !.pc = "check", !.count = Cardinality(f.answer)]
         ELSE [readers[r] EXCEPT !.pc = "store", !.told = f.answer]]
    /\ UNCHANGED <<watched, rows, users, tokens, asks, leafFaults>>

FlightFails(f) ==
    /\ leafFaults < MaxLeafFaults /\ leafFaults' = leafFaults + 1 /\ flights' = flights \ {f}
    /\ readers' = [r \in Readers |->
         IF ~Waits(r, f) THEN readers[r]
         ELSE IF f.key.what = "count" THEN [readers[r] EXCEPT !.pc = "check"]
         ELSE [readers[r] EXCEPT !.pc = "done", !.source = "failed"]]
    /\ UNCHANGED <<watched, rows, users, tokens, asks>>

(***************************************************************************)
(* allLeaves                                                               *)
(***************************************************************************)
AskCount(r) ==
    /\ readers[r].pc = "ask" /\ Gets("count", readers[r].account) /\ Goes(r, "count")
    /\ UNCHANGED <<watched, rows, users, tokens, asks, leafFaults>>

\* getLeaves: the row of this count; without a count, a row of less than a day.
IsHit(row, count) == row # NoRow /\ IF count = -1 THEN ~row.isOld ELSE row.count = count

Check(r) ==
    LET row == rows[readers[r].account] IN
    /\ readers[r].pc = "check"
    /\ IF IsHit(row, readers[r].count)
       THEN /\ readers' = [readers EXCEPT ![r] = [@ EXCEPT !.pc = "done", !.told = row.episodes,
                                         !.source = IF readers[r].count = -1 THEN "age" ELSE "count"]]
            /\ UNCHANGED flights
       ELSE Gets("leaves", readers[r].account) /\ Goes(r, "leaves")
    /\ UNCHANGED <<watched, rows, users, tokens, asks, leafFaults>>

\* putLeaves under the count read before; without one the container's missing count is 0.
Store(r) ==
    LET count == readers[r].count IN
    /\ readers[r].pc = "store"
    /\ rows' = [rows EXCEPT ![readers[r].account] =
                  [count |-> IF count = -1 THEN 0 ELSE count, episodes |-> readers[r].told, isOld |-> FALSE]]
    /\ readers' = [readers EXCEPT ![r].pc = "done", ![r].source = "plex"]
    /\ UNCHANGED <<watched, flights, users, tokens, asks, leafFaults>>

(***************************************************************************)
(* The world                                                               *)
(***************************************************************************)
Finish(account, episode) ==
    /\ <<account, episode>> \notin watched[account]
    /\ Cardinality(UNION {watched[a] : a \in Accounts}) < MaxWatches
    /\ watched' = [watched EXCEPT ![account] = @ \cup {<<account, episode>>}]
    /\ UNCHANGED <<rows, flights, users, tokens, readers, asks, leafFaults>>

\* sse.ts onNowPlaying: the show is on screen, its rows are dropped for every account.
NowPlaying ==
    /\ rows # [a \in Accounts |-> NoRow]
    /\ rows' = [a \in Accounts |-> NoRow]
    /\ UNCHANGED <<watched, flights, users, tokens, readers, asks, leafFaults>>

DayPasses ==
    /\ \E a \in Accounts : rows[a] # NoRow /\ ~rows[a].isOld
    /\ rows' = [a \in Accounts |-> IF rows[a] = NoRow THEN NoRow ELSE [rows[a] EXCEPT !.isOld = TRUE]]
    /\ UNCHANGED <<watched, flights, users, tokens, readers, asks, leafFaults>>

Reads(r) == FindUser(r) \/ MintToken(r) \/ AskCount(r) \/ Check(r) \/ Store(r)

LeafNext ==
    \/ \E r \in Readers : Reads(r) \/ \E title \in Titles \cup {Nobody} : LeavesAsked(r, title)
    \/ \E f \in flights : Serve(f) \/ Settle(f) \/ FlightFails(f)
    \/ \E a \in Accounts, e \in Episodes : Finish(a, e)
    \/ NowPlaying \/ DayPasses

LeafSpec == LeafInit /\ [][LeafNext]_leafVars

(***************************************************************************)
(* Properties                                                              *)
(***************************************************************************)
Answered(r) == readers[r].pc = "done" /\ readers[r].source # "failed"

\* However reads of different profiles overlap, join each other's requests and fail, each
\* is told the marks of its own profile's account, and the owner's only when the set names
\* nobody plex.tv knows or plex.tv did not answer (plex.ts profileScope, cache.ts leaves).
MarksAreTheReaders ==
    \A r \in Readers : Answered(r) =>
        LET named == Named(readers[r].title) IN
        /\ readers[r].account = IF named = Nobody \/ readers[r].silent THEN Owner ELSE named
        /\ readers[r].told \subseteq watched[readers[r].account]

\* Episodes taken from the cache because the count matches are those Plex had when the
\* read began, or later: "if both still match, the cached episode list is provably still
\* correct" (cache.ts schema of leaves).
ValidatedIsCurrent ==
    \A r \in Readers :
        Answered(r) /\ readers[r].source = "count" => readers[r].since \subseteq readers[r].told
=============================================================================
