------------------------------ MODULE DeskProofs ------------------------------
(***************************************************************************)
(* Proofs about what a person does at the web app and what the server makes*)
(* of it: LeafCache, for any readers, profiles, episodes and faults,       *)
(* EntryCounts, for any counts, requests and edits, UndoHistory, for any   *)
(* bound on the history, EntryMigration, for any files and libraries,      *)
(* GameShelf, for any queue of games, tabs and times, PendingDesk, for any *)
(* libraries, sets and requests, GroupsEditor, for any sets, accounts,     *)
(* groups and orders of them, GridEdits, for any sets, queues and filters, *)
(* and ReadingList, for any queue of series.                               *)
(***************************************************************************)
EXTENDS LeafCache, EntryCounts, UndoHistory, EntryMigration, GameShelf, PendingDesk,
        GroupsEditor, GridEdits, ReadingList, SublistProofs

-----------------------------------------------------------------------------
(* LeafCache.  Whose marks a reader is told depends on three shared things *)
(* it did not make: a remembered account, a flight another reader may have *)
(* begun, and a row another reader may have stored.  Each is about one     *)
(* account alone, and what it says that account has watched, it has.       *)

Marks    == Accounts \X Episodes
Counted  == Int \cup {Cardinality(S) : S \in SUBSET Marks}
Steps    == {"idle", "user", "token", "ask", "count", "check", "leaves", "store", "done"}
Known    == Steps \ {"idle", "user", "token"}
ReaderState ==
    [pc : Steps, title : Titles \cup {Nobody}, account : Accounts, count : Counted,
     told : SUBSET Marks, since : SUBSET Marks,
     source : {"none", "failed", "age", "count", "plex"}, silent : BOOLEAN]
Row       == [count : Counted, episodes : SUBSET Marks, isOld : BOOLEAN]
AFlight   == [key : [what : {"count", "leaves"}, token : Accounts], token : Accounts,
              answer : (SUBSET Marks) \cup {Unserved}]

\* The account whose marks a reader of this title is told.
WhoseMarks(title, silent) ==
    IF Named(title) = Nobody \/ silent THEN Owner ELSE Named(title)

\* What a reader holds is right for how far it has come.
Fine(s, watchedBy) ==
    /\ s.pc = "user" => s.title \in Titles
    /\ s.pc = "token" => s.account = Named(s.title)
    /\ s.pc \in Known => s.account = WhoseMarks(s.title, s.silent)
    /\ s.pc = "store" \/ (s.pc = "done" /\ s.source # "failed") => s.told \subseteq watchedBy[s.account]

LeafTypes ==
    /\ watched \in [Accounts -> SUBSET Marks] /\ rows \in [Accounts -> Row]
    /\ flights \subseteq AFlight
    /\ users \in [Titles -> Accounts \cup {Nobody, Unset}]
    /\ tokens \in [Accounts -> Accounts \cup {Nobody, Unset}]
    /\ readers \in [Readers -> ReaderState]

UsersAreNamed  == \A t \in Titles : users[t] # Unset => users[t] = Named(t)
RowsAreTheirs  == \A a \in Accounts : rows[a].episodes \subseteq watched[a]
FlightIsIts(f) == f.token = f.key.token /\ (f.answer # Unserved => f.answer \subseteq watched[f.token])

LeafInv ==
    /\ LeafTypes /\ UsersAreNamed /\ RowsAreTheirs
    /\ \A f \in flights : FlightIsIts(f)
    /\ \A r \in Readers : Fine(readers[r], watched)

-----------------------------------------------------------------------------
LEMMA NamesAreAccounts ==
    /\ Owner \in Accounts /\ Nobody \notin Accounts /\ Unset \notin Accounts /\ Unset # Nobody
    /\ Nobody \notin Titles /\ Named(Nobody) = Nobody
    /\ \A t : Named(t) \in Accounts \cup {Nobody}
BY LeafAssumption DEF Accounts, Named

LEMMA IdleIsFine ==
    /\ IdleReader \in ReaderState
    /\ \A watchedBy : Fine(IdleReader, watchedBy)
    /\ NoRow \in Row
<1>1. -1 \in Counted
  BY DEF Counted
<1> QED BY <1>1, NamesAreAccounts DEF IdleReader, ReaderState, Steps, Fine, Known, NoRow, Row

LEMMA LeafBegins == LeafInit => LeafInv
<1> SUFFICES ASSUME LeafInit PROVE LeafInv
  OBVIOUS
<1>1. LeafTypes
  BY IdleIsFine DEF LeafInit, LeafTypes
<1>2. \A r \in Readers : Fine(readers[r], watched)
  BY IdleIsFine DEF LeafInit
<1>3. UsersAreNamed /\ RowsAreTheirs /\ flights = {}
  BY DEF LeafInit, UsersAreNamed, RowsAreTheirs, NoRow
<1> QED BY <1>1, <1>2, <1>3 DEF LeafInv

(* One reader moves; what the others hold stays right while marks grow.    *)
LEMMA OthersStayFine ==
    ASSUME LeafInv, NEW r \in Readers, watched' \in [Accounts -> SUBSET Marks],
           \A a \in Accounts : watched[a] \subseteq watched'[a],
           readers' \in [Readers -> ReaderState],
           \A q \in Readers \ {r} : readers'[q] = readers[q],
           Fine(readers'[r], watched')
    PROVE  \A q \in Readers : Fine(readers'[q], watched')
<1> SUFFICES ASSUME NEW q \in Readers, q # r PROVE Fine(readers'[q], watched')
  OBVIOUS
<1>1. Fine(readers[q], watched) /\ readers'[q] = readers[q] /\ readers[q].account \in Accounts
  BY DEF LeafInv, LeafTypes, ReaderState
<1> QED BY <1>1 DEF Fine

LEMMA ReadsAsMoves ==
    ASSUME LeafInv, NEW r \in Readers, NEW account \in Accounts, NEW silent \in BOOLEAN,
           ReadsAs(r, account, silent), account = WhoseMarks(readers[r].title, silent)
    PROVE  /\ readers' \in [Readers -> ReaderState]
           /\ \A q \in Readers \ {r} : readers'[q] = readers[q]
           /\ Fine(readers'[r], watched)
<1>1. readers \in [Readers -> ReaderState] /\ watched[account] \in SUBSET Marks
  BY DEF LeafInv, LeafTypes
<1> DEFINE new == [readers[r] EXCEPT !.pc = "ask", !.account = account, !.silent = silent,
                                     !.since = watched[account]]
<1>2. readers' = [readers EXCEPT ![r] = new]
  BY <1>1, SMTT(30) DEF ReadsAs
<1>3. new \in ReaderState
  BY <1>1, ZenonT(30) DEF ReaderState, Steps
<1>4. new.pc = "ask" /\ new.account = account /\ new.silent = silent /\ new.title = readers[r].title
  BY <1>1 DEF ReaderState
<1> HIDE DEF new
<1>5. readers' \in [Readers -> ReaderState] /\ \A q \in Readers \ {r} : readers'[q] = readers[q]
  BY <1>1, <1>2, <1>3
<1>6. readers'[r] = new
  BY <1>1, <1>2
<1> QED BY <1>4, <1>5, <1>6 DEF Fine

\* A reader whose step is only its next pc.
LEMMA GoesMoves ==
    ASSUME LeafInv, NEW r \in Readers, NEW pc \in Known \ {"store", "done"}, Goes(r, pc),
           readers[r].pc \in Known
    PROVE  /\ readers' \in [Readers -> ReaderState]
           /\ \A q \in Readers \ {r} : readers'[q] = readers[q]
           /\ Fine(readers'[r], watched)
<1>1. readers \in [Readers -> ReaderState] /\ Fine(readers[r], watched)
  BY DEF LeafInv, LeafTypes
<1>2. readers' = [readers EXCEPT ![r].pc = pc]
  BY DEF Goes
<1>3. readers' \in [Readers -> ReaderState] /\ \A q \in Readers \ {r} : readers'[q] = readers[q]
  BY <1>1, <1>2 DEF ReaderState, Known
<1>4. /\ readers'[r].pc = pc /\ readers'[r].account = readers[r].account
      /\ readers'[r].silent = readers[r].silent /\ readers'[r].title = readers[r].title
  BY <1>1, <1>2 DEF ReaderState
<1> QED BY <1>1, <1>3, <1>4 DEF Fine, Known

\* A flight that begins, or is joined, is its token's.
LEMMA GetsAFlight ==
    ASSUME LeafInv, NEW what \in {"count", "leaves"}, NEW account \in Accounts, Gets(what, account),
           UNCHANGED watched
    PROVE  flights' \subseteq AFlight /\ \A f \in flights' : FlightIsIts(f)'
<1> DEFINE new == [key |-> Flight(what, account), token |-> account, answer |-> Unserved]
<1>1. flights' \subseteq flights \cup {new}
  BY DEF Gets
<1>2. new \in AFlight /\ new.token = new.key.token /\ new.answer = Unserved
  BY DEF AFlight, Flight
<1> HIDE DEF new
<1> QED BY <1>1, <1>2 DEF LeafInv, LeafTypes, FlightIsIts

(* Whose account: what is remembered, or plex.tv answers, or fails to.     *)
LEMMA FoundMoves ==
    ASSUME LeafInv, NEW r \in Readers, NEW account \in Accounts \cup {Nobody}, NEW silent \in BOOLEAN,
           Found(r, account, silent),
           IF silent THEN account = Nobody ELSE account = Named(readers[r].title)
    PROVE  /\ readers' \in [Readers -> ReaderState]
           /\ \A q \in Readers \ {r} : readers'[q] = readers[q]
           /\ Fine(readers'[r], watched)
<1>1. CASE account \in {Nobody, Owner}
  <2>1. ReadsAs(r, Owner, silent) /\ Owner = WhoseMarks(readers[r].title, silent)
    BY <1>1, NamesAreAccounts DEF Found, WhoseMarks
  <2> QED BY <2>1, NamesAreAccounts, ReadsAsMoves
<1>2. CASE account \notin {Nobody, Owner}
  <2> DEFINE new == [readers[r] EXCEPT !.pc = "token", !.account = account]
  <2>1. readers \in [Readers -> ReaderState]
    BY DEF LeafInv, LeafTypes
  <2>2. readers' = [readers EXCEPT ![r] = new]
    BY <1>2, <2>1 DEF Found
  <2>3. new \in ReaderState
    BY <1>2, <2>1 DEF ReaderState, Steps
  <2>4. new.pc = "token" /\ new.account = account /\ new.title = readers[r].title
    BY <2>1 DEF ReaderState
  <2> HIDE DEF new
  <2>5. readers' \in [Readers -> ReaderState] /\ \A q \in Readers \ {r} : readers'[q] = readers[q]
    BY <2>1, <2>2, <2>3
  <2>6. readers'[r] = new /\ account = Named(readers[r].title)
    BY <1>2, <2>1, <2>2
  <2> QED BY <2>4, <2>5, <2>6 DEF Fine, Known
<1> QED BY <1>1, <1>2

LEMMA BeginMoves ==
    ASSUME LeafInv, NEW r \in Readers, NEW title \in Titles \cup {Nobody}, LeavesAsked(r, title)
    PROVE  /\ readers' \in [Readers -> ReaderState]
           /\ \A q \in Readers \ {r} : readers'[q] = readers[q]
           /\ Fine(readers'[r], watched)
<1> DEFINE new == [IdleReader EXCEPT !.pc = IF title = Nobody THEN "ask" ELSE "user",
                                     !.title = title, !.since = watched[Owner]]
<1>1. readers \in [Readers -> ReaderState] /\ watched[Owner] \in SUBSET Marks
  BY NamesAreAccounts DEF LeafInv, LeafTypes
<1>2. readers' = [readers EXCEPT ![r] = new]
  BY DEF LeavesAsked
<1>3. new \in ReaderState
  BY <1>1, IdleIsFine DEF ReaderState, Steps
<1>4. /\ new.pc = (IF title = Nobody THEN "ask" ELSE "user") /\ new.title = title
      /\ new.account = Owner /\ new.silent = FALSE
  BY DEF IdleReader
<1> HIDE DEF new
<1>5. readers' \in [Readers -> ReaderState] /\ \A q \in Readers \ {r} : readers'[q] = readers[q]
  BY <1>1, <1>2, <1>3
<1>6. readers'[r] = new
  BY <1>1, <1>2
<1> QED BY <1>4, <1>5, <1>6, NamesAreAccounts DEF Fine, WhoseMarks, Known, Steps

LEMMA FindUserMoves ==
    ASSUME LeafInv, NEW r \in Readers, FindUser(r)
    PROVE  /\ readers' \in [Readers -> ReaderState]
           /\ \A q \in Readers \ {r} : readers'[q] = readers[q]
           /\ Fine(readers'[r], watched)
           /\ users' \in [Titles -> Accounts \cup {Nobody, Unset}] /\ UsersAreNamed'
<1> DEFINE title == readers[r].title
<1>1. title \in Titles
  BY DEF FindUser, LeafInv, Fine
<1>2. /\ users \in [Titles -> Accounts \cup {Nobody, Unset}] /\ UsersAreNamed
      /\ Named(title) \in Accounts \cup {Nobody}
  BY NamesAreAccounts DEF LeafInv, LeafTypes
<1> HIDE DEF title
<1>3. CASE users[title] # Unset /\ Found(r, users[title], FALSE) /\ UNCHANGED users
  <2>1. users[title] = Named(title)
    BY <1>1, <1>2, <1>3 DEF UsersAreNamed
  <2>2. Found(r, Named(title), FALSE)
    BY <1>3, <2>1
  <2> QED BY <1>2, <1>3, <2>2, FoundMoves DEF UsersAreNamed, title
<1>4. CASE users' = Remembered(title, TRUE) /\ Found(r, Named(title), FALSE)
  <2>1. users' = [users EXCEPT ![title] = Named(title)]
    BY <1>4 DEF Remembered
  <2>2. users' \in [Titles -> Accounts \cup {Nobody, Unset}] /\ UsersAreNamed'
    BY <1>1, <1>2, <2>1 DEF UsersAreNamed
  <2> QED BY <1>2, <1>4, <2>2, FoundMoves DEF title
<1>5. CASE users' = Remembered(title, FALSE) /\ Found(r, Nobody, TRUE)
  BY <1>2, <1>5, FoundMoves DEF Remembered, UsersAreNamed
<1> QED BY <1>3, <1>4, <1>5 DEF FindUser, title

LEMMA MintTokenMoves ==
    ASSUME LeafInv, NEW r \in Readers, MintToken(r)
    PROVE  /\ readers' \in [Readers -> ReaderState]
           /\ \A q \in Readers \ {r} : readers'[q] = readers[q]
           /\ Fine(readers'[r], watched)
           /\ tokens' \in [Accounts -> Accounts \cup {Nobody, Unset}]
<1> DEFINE account == readers[r].account
<1>1. account \in Accounts /\ account = Named(readers[r].title)
  BY DEF MintToken, LeafInv, LeafTypes, ReaderState, Fine
<1>2. tokens \in [Accounts -> Accounts \cup {Nobody, Unset}]
  BY DEF LeafInv, LeafTypes
<1>3. /\ account = WhoseMarks(readers[r].title, FALSE) /\ Owner = WhoseMarks(readers[r].title, TRUE)
      /\ Owner \in Accounts
  BY <1>1, NamesAreAccounts DEF WhoseMarks
<1>4. ReadsAs(r, Owner, TRUE) \/ ReadsAs(r, account, FALSE)
  BY DEF MintToken
<1>5. tokens' \in [Accounts -> Accounts \cup {Nobody, Unset}]
  BY <1>1, <1>2 DEF MintToken
<1> HIDE DEF account
<1>6. CASE ReadsAs(r, Owner, TRUE)
  BY <1>3, <1>5, <1>6, ReadsAsMoves
<1>7. CASE ReadsAs(r, account, FALSE)
  BY <1>1, <1>3, <1>5, <1>7, ReadsAsMoves
<1> QED BY <1>4, <1>6, <1>7

\* What is found in the cache is of the reader's own account.
LEMMA CheckMoves ==
    ASSUME LeafInv, NEW r \in Readers, Check(r)
    PROVE  /\ readers' \in [Readers -> ReaderState]
           /\ \A q \in Readers \ {r} : readers'[q] = readers[q]
           /\ Fine(readers'[r], watched)
           /\ flights' \subseteq AFlight /\ \A f \in flights' : FlightIsIts(f)'
<1> DEFINE row == rows[readers[r].account]
<1>1. /\ readers \in [Readers -> ReaderState] /\ readers[r].account \in Accounts
      /\ readers[r].pc = "check" /\ Fine(readers[r], watched) /\ UNCHANGED watched
  BY DEF Check, LeafInv, LeafTypes, ReaderState
<1>2. row \in Row /\ row.episodes \subseteq watched[readers[r].account]
  BY <1>1 DEF LeafInv, LeafTypes, RowsAreTheirs
<1> HIDE DEF row
<1>3. CASE IsHit(row, readers[r].count)
  <2> DEFINE new == [readers[r] EXCEPT !.pc = "done", !.told = row.episodes,
                                       !.source = IF readers[r].count = -1 THEN "age" ELSE "count"]
  <2>1. readers' = [readers EXCEPT ![r] = new] /\ UNCHANGED flights
    BY <1>1, <1>3 DEF Check, row
  <2>2. new \in ReaderState
    BY <1>1, <1>2, ZenonT(30) DEF ReaderState, Steps, Row
  <2>3. /\ new.pc = "done" /\ new.told = row.episodes /\ new.account = readers[r].account
        /\ new.title = readers[r].title /\ new.silent = readers[r].silent
    BY <1>1 DEF ReaderState
  <2> HIDE DEF new
  <2>4. readers' \in [Readers -> ReaderState] /\ \A q \in Readers \ {r} : readers'[q] = readers[q]
    BY <1>1, <2>1, <2>2
  <2>5. Fine(new, watched)
    BY <1>1, <1>2, <2>3 DEF Fine, Known, Steps
  <2>6. readers'[r] = new
    BY <1>1, <2>1
  <2> QED BY <1>1, <2>1, <2>4, <2>5, <2>6 DEF LeafInv, LeafTypes, FlightIsIts
<1>4. CASE ~IsHit(row, readers[r].count)
  <2>1. Gets("leaves", readers[r].account) /\ Goes(r, "leaves")
    BY <1>4 DEF Check, row
  <2>2. "leaves" \in Known \ {"store", "done"} /\ readers[r].pc \in Known
    BY <1>1 DEF Known, Steps
  <2> QED BY <1>1, <2>1, <2>2, GetsAFlight, GoesMoves
<1> QED BY <1>3, <1>4

-----------------------------------------------------------------------------
(* One step of one reader.                                                 *)
LEMMA ReadsKeepMarks == ASSUME LeafInv, NEW r \in Readers, Reads(r) PROVE LeafInv'
<1>0. LeafTypes
  BY DEF LeafInv
<1>1. CASE FindUser(r)
  <2>1. UNCHANGED <<watched, rows, flights, tokens>>
    BY <1>1 DEF FindUser
  <2>2. \A q \in Readers : Fine(readers'[q], watched')
    BY <1>0, <1>1, <2>1, FindUserMoves, OthersStayFine DEF LeafTypes
  <2> QED BY <1>1, <2>1, <2>2, FindUserMoves DEF LeafInv, LeafTypes, RowsAreTheirs, FlightIsIts
<1>2. CASE MintToken(r)
  <2>1. UNCHANGED <<watched, rows, flights, users>>
    BY <1>2 DEF MintToken
  <2>2. \A q \in Readers : Fine(readers'[q], watched')
    BY <1>0, <1>2, <2>1, MintTokenMoves, OthersStayFine DEF LeafTypes
  <2> QED BY <1>2, <2>1, <2>2, MintTokenMoves DEF LeafInv, LeafTypes, RowsAreTheirs, FlightIsIts,
                                                  UsersAreNamed
<1>3. CASE AskCount(r)
  <2>1. UNCHANGED <<watched, rows, tokens, users>>
    BY <1>3 DEF AskCount
  <2>2. Goes(r, "count") /\ Gets("count", readers[r].account) /\ readers[r].pc \in Known
    BY <1>3 DEF AskCount, Known, Steps
  <2>3. readers[r].account \in Accounts /\ "count" \in Known \ {"store", "done"}
    BY <1>0 DEF LeafTypes, ReaderState, Known, Steps
  <2>4. flights' \subseteq AFlight /\ \A f \in flights' : FlightIsIts(f)'
    BY <2>1, <2>2, <2>3, GetsAFlight
  <2>5. \A q \in Readers : Fine(readers'[q], watched')
    BY <1>0, <2>1, <2>2, <2>3, GoesMoves, OthersStayFine DEF LeafTypes
  <2>6. readers' \in [Readers -> ReaderState]
    BY <2>2, <2>3, GoesMoves
  <2> QED BY <2>1, <2>4, <2>5, <2>6 DEF LeafInv, LeafTypes, RowsAreTheirs, UsersAreNamed
<1>4. CASE Check(r)
  <2>1. UNCHANGED <<watched, rows, tokens, users>>
    BY <1>4 DEF Check
  <2>2. \A q \in Readers : Fine(readers'[q], watched')
    BY <1>0, <1>4, <2>1, CheckMoves, OthersStayFine DEF LeafTypes
  <2> QED BY <1>4, <2>1, <2>2, CheckMoves DEF LeafInv, LeafTypes, RowsAreTheirs, UsersAreNamed
<1>5. CASE Store(r)
  <2> DEFINE account == readers[r].account
             row == [count |-> IF readers[r].count = -1 THEN 0 ELSE readers[r].count,
                     episodes |-> readers[r].told, isOld |-> FALSE]
  <2>1. UNCHANGED <<watched, flights, tokens, users>> /\ rows' = [rows EXCEPT ![account] = row]
    BY <1>5 DEF Store
  <2>2. /\ readers[r] \in ReaderState /\ account \in Accounts
        /\ readers[r].told \subseteq watched[account] /\ readers[r].account = WhoseMarks(readers[r].title, readers[r].silent)
    BY <1>0, <1>5 DEF LeafTypes, ReaderState, LeafInv, Fine, Store, Known, Steps
  <2>3. row \in Row /\ row.episodes = readers[r].told
    BY <2>2 DEF Row, ReaderState, Counted
  <2> HIDE DEF row
  <2>4. rows' \in [Accounts -> Row] /\ RowsAreTheirs'
    BY <1>0, <2>1, <2>2, <2>3 DEF LeafTypes, LeafInv, RowsAreTheirs
  <2> DEFINE new == [readers[r] EXCEPT !.pc = "done", !.source = "plex"]
  <2>5. readers' = [readers EXCEPT ![r] = new]
    BY <1>0, <1>5 DEF Store, LeafTypes
  <2>6. new \in ReaderState
    BY <2>2 DEF ReaderState, Steps
  <2>7. /\ new.pc = "done" /\ new.account = readers[r].account /\ new.told = readers[r].told
        /\ new.title = readers[r].title /\ new.silent = readers[r].silent
    BY <2>2 DEF ReaderState
  <2> HIDE DEF new
  <2>8. readers' \in [Readers -> ReaderState] /\ \A q \in Readers \ {r} : readers'[q] = readers[q]
    BY <1>0, <2>5, <2>6 DEF LeafTypes
  <2>9. readers'[r] = new /\ Fine(new, watched')
    BY <1>0, <2>1, <2>2, <2>5, <2>7 DEF LeafTypes, Fine
  <2>10. \A q \in Readers : Fine(readers'[q], watched')
    BY <1>0, <2>1, <2>8, <2>9, OthersStayFine DEF LeafTypes
  <2> QED BY <2>1, <2>4, <2>8, <2>10 DEF LeafInv, LeafTypes, UsersAreNamed, FlightIsIts
<1> QED BY <1>1, <1>2, <1>3, <1>4, <1>5 DEF Reads

(* A flight is answered, and its answer is every reader's who waits for it.*)
LEMMA ServingKeeps == ASSUME LeafInv, NEW f \in flights, Serve(f) PROVE LeafInv'
<1> DEFINE new == [f EXCEPT !.answer = watched[f.token]]
<1>1. f \in AFlight /\ f.token = f.key.token
  BY DEF LeafInv, LeafTypes, FlightIsIts
<1>2. UNCHANGED <<watched, rows, users, tokens, readers>> /\ flights' = (flights \ {f}) \cup {new}
  BY DEF Serve
<1>3. new \in AFlight /\ new.token = new.key.token /\ new.answer = watched[new.token]
  BY <1>1 DEF AFlight, LeafInv, LeafTypes
<1> HIDE DEF new
<1>4. flights' \subseteq AFlight /\ \A g \in flights' : FlightIsIts(g)'
  BY <1>2, <1>3 DEF LeafInv, LeafTypes, FlightIsIts
<1> QED BY <1>2, <1>4 DEF LeafInv, LeafTypes, RowsAreTheirs, UsersAreNamed

LEMMA LandingKeeps == ASSUME LeafInv, NEW f \in flights, Settle(f) \/ FlightFails(f) PROVE LeafInv'
<1>0. /\ LeafTypes /\ f \in AFlight /\ FlightIsIts(f)
      /\ UNCHANGED <<watched, rows, users, tokens>> /\ flights' \subseteq flights
  BY DEF LeafInv, LeafTypes, Settle, FlightFails
<1>1. ASSUME NEW r \in Readers
      PROVE  readers'[r] \in ReaderState /\ Fine(readers'[r], watched)
  <2>1. readers[r] \in ReaderState /\ Fine(readers[r], watched)
    BY <1>0 DEF LeafTypes, LeafInv
  <2>2. CASE ~Waits(r, f)
    BY <2>1, <2>2 DEF Settle, FlightFails
  <2>3. ASSUME Waits(r, f)
        PROVE  /\ f.token = readers[r].account /\ f.key.what = readers[r].pc
               /\ readers[r].pc \in {"count", "leaves"}
               /\ readers[r].account = WhoseMarks(readers[r].title, readers[r].silent)
    BY <1>0, <2>1, <2>3 DEF Waits, Flight, FlightIsIts, Fine, Known, Steps
  <2>4. CASE Settle(f) /\ Waits(r, f) /\ f.key.what = "count"
    <3> DEFINE new == [readers[r] EXCEPT !.pc = "check", !.count = Cardinality(f.answer)]
    <3>1. readers'[r] = new
      BY <2>4 DEF Settle
    <3>2. f.answer \in SUBSET Marks
      BY <1>0, <2>4 DEF Settle, FlightIsIts, LeafTypes, AFlight
    <3>3. Cardinality(f.answer) \in Counted
      BY <3>2 DEF Counted
    <3>4. new \in ReaderState
      BY <2>1, <3>3 DEF ReaderState, Steps
    <3>5. /\ new.pc = "check" /\ new.account = readers[r].account
          /\ new.title = readers[r].title /\ new.silent = readers[r].silent
      BY <2>1 DEF ReaderState
    <3> HIDE DEF new
    <3> QED BY <2>3, <2>4, <3>1, <3>4, <3>5 DEF Fine
  <2>5. CASE Settle(f) /\ Waits(r, f) /\ f.key.what # "count"
    <3> DEFINE new == [readers[r] EXCEPT !.pc = "store", !.told = f.answer]
    <3>1. readers'[r] = new
      BY <2>5 DEF Settle
    <3>2. f.answer \in SUBSET Marks /\ f.answer \subseteq watched[readers[r].account]
      BY <1>0, <2>3, <2>5 DEF Settle, FlightIsIts, LeafTypes, AFlight
    <3>3. new \in ReaderState
      BY <2>1, <3>2 DEF ReaderState, Steps
    <3>4. /\ new.pc = "store" /\ new.account = readers[r].account /\ new.told = f.answer
          /\ new.title = readers[r].title /\ new.silent = readers[r].silent
      BY <2>1 DEF ReaderState
    <3> HIDE DEF new
    <3> QED BY <2>3, <2>5, <3>1, <3>2, <3>3, <3>4 DEF Fine
  <2>6. CASE FlightFails(f) /\ Waits(r, f) /\ f.key.what = "count"
    <3> DEFINE new == [readers[r] EXCEPT !.pc = "check"]
    <3>1. readers'[r] = new
      BY <2>6 DEF FlightFails
    <3>2. new \in ReaderState
      BY <2>1 DEF ReaderState, Steps
    <3>3. /\ new.pc = "check" /\ new.account = readers[r].account
          /\ new.title = readers[r].title /\ new.silent = readers[r].silent
      BY <2>1 DEF ReaderState
    <3> HIDE DEF new
    <3> QED BY <2>3, <2>6, <3>1, <3>2, <3>3 DEF Fine
  <2>7. CASE FlightFails(f) /\ Waits(r, f) /\ f.key.what # "count"
    <3> DEFINE new == [readers[r] EXCEPT !.pc = "done", !.source = "failed"]
    <3>1. readers'[r] = new
      BY <2>7 DEF FlightFails
    <3>2. new \in ReaderState
      BY <2>1 DEF ReaderState, Steps
    <3>3. /\ new.pc = "done" /\ new.account = readers[r].account /\ new.source = "failed"
          /\ new.title = readers[r].title /\ new.silent = readers[r].silent
      BY <2>1 DEF ReaderState
    <3> HIDE DEF new
    <3> QED BY <2>3, <2>7, <3>1, <3>2, <3>3 DEF Fine
  <2> QED BY <2>2, <2>4, <2>5, <2>6, <2>7
<1>2. readers' \in [Readers -> ReaderState]
  <2>1. CASE Settle(f)
    BY <1>1, <2>1 DEF Settle
  <2>2. CASE FlightFails(f)
    BY <1>1, <2>2 DEF FlightFails
  <2> QED BY <2>1, <2>2
<1> QED BY <1>0, <1>1, <1>2 DEF LeafInv, LeafTypes, RowsAreTheirs, UsersAreNamed, FlightIsIts

(* The world: marks grow, rows are dropped or age.                         *)
LEMMA WatchingKeeps ==
    ASSUME LeafInv, NEW a \in Accounts, NEW e \in Episodes, Finish(a, e) PROVE LeafInv'
<1>1. /\ UNCHANGED <<rows, flights, users, tokens, readers>>
      /\ watched' = [watched EXCEPT ![a] = @ \cup {<<a, e>>}]
      /\ watched \in [Accounts -> SUBSET Marks]
  BY DEF Finish, LeafInv, LeafTypes
<1>2. <<a, e>> \in Marks
  BY DEF Marks
<1>3. watched' \in [Accounts -> SUBSET Marks] /\ \A b \in Accounts : watched[b] \subseteq watched'[b]
  BY <1>1, <1>2
<1>4. \A r \in Readers : Fine(readers'[r], watched')
  <2> SUFFICES ASSUME NEW r \in Readers PROVE Fine(readers[r], watched')
    BY <1>1
  <2>1. Fine(readers[r], watched) /\ readers[r].account \in Accounts
    BY DEF LeafInv, LeafTypes, ReaderState
  <2> QED BY <1>3, <2>1 DEF Fine
<1>5. \A f \in flights' : FlightIsIts(f)'
  <2> SUFFICES ASSUME NEW f \in flights PROVE FlightIsIts(f)'
    BY <1>1
  <2>1. FlightIsIts(f) /\ f.token \in Accounts
    BY DEF LeafInv, LeafTypes, AFlight
  <2> QED BY <1>3, <2>1 DEF FlightIsIts
<1>6. RowsAreTheirs'
  BY <1>1, <1>3 DEF LeafInv, RowsAreTheirs
<1> QED BY <1>1, <1>3, <1>4, <1>5, <1>6 DEF LeafInv, LeafTypes, UsersAreNamed

LEMMA RowsKeep == ASSUME LeafInv, NowPlaying \/ DayPasses PROVE LeafInv'
<1>1. UNCHANGED <<watched, flights, users, tokens, readers>>
  BY DEF NowPlaying, DayPasses
<1>2. rows \in [Accounts -> Row]
  BY DEF LeafInv, LeafTypes
<1>3. CASE NowPlaying
  <2>1. rows' = [a \in Accounts |-> NoRow] /\ NoRow.episodes = {}
    BY <1>3 DEF NowPlaying, NoRow
  <2> QED BY <1>1, <2>1, IdleIsFine DEF LeafInv, LeafTypes, RowsAreTheirs, UsersAreNamed, FlightIsIts
<1>4. CASE DayPasses
  <2>1. rows' = [a \in Accounts |-> IF rows[a] = NoRow THEN NoRow ELSE [rows[a] EXCEPT !.isOld = TRUE]]
    BY <1>4 DEF DayPasses
  <2>2. ASSUME NEW a \in Accounts
        PROVE  /\ [rows[a] EXCEPT !.isOld = TRUE] \in Row
               /\ [rows[a] EXCEPT !.isOld = TRUE].episodes = rows[a].episodes
    BY <1>2 DEF Row
  <2>3. rows' \in [Accounts -> Row] /\ \A a \in Accounts : rows'[a].episodes = rows[a].episodes
    BY <2>1, <2>2, IdleIsFine
  <2> QED BY <1>1, <2>3 DEF LeafInv, LeafTypes, RowsAreTheirs, UsersAreNamed, FlightIsIts
<1> QED BY <1>3, <1>4

-----------------------------------------------------------------------------
LEMMA NextKeepsMarks == LeafInv /\ [LeafNext]_leafVars => LeafInv'
<1> SUFFICES ASSUME LeafInv, [LeafNext]_leafVars PROVE LeafInv'
  OBVIOUS
<1>1. ASSUME NEW r \in Readers, Reads(r) PROVE LeafInv'
  BY <1>1, ReadsKeepMarks
<1>2. ASSUME NEW r \in Readers, NEW title \in Titles \cup {Nobody}, LeavesAsked(r, title) PROVE LeafInv'
  <2>1. UNCHANGED <<watched, rows, flights, users, tokens>> /\ LeafTypes
    BY <1>2 DEF LeavesAsked, LeafInv
  <2>2. \A q \in Readers : Fine(readers'[q], watched')
    BY <1>2, <2>1, BeginMoves, OthersStayFine DEF LeafTypes
  <2> QED BY <1>2, <2>1, <2>2, BeginMoves DEF LeafInv, LeafTypes, RowsAreTheirs, UsersAreNamed,
                                              FlightIsIts
<1>3. ASSUME NEW f \in flights, Serve(f) PROVE LeafInv'
  BY <1>3, ServingKeeps
<1>4. ASSUME NEW f \in flights, Settle(f) \/ FlightFails(f) PROVE LeafInv'
  BY <1>4, LandingKeeps
<1>5. ASSUME NEW a \in Accounts, NEW e \in Episodes, Finish(a, e) PROVE LeafInv'
  BY <1>5, WatchingKeeps
<1>6. CASE NowPlaying \/ DayPasses
  BY <1>6, RowsKeep
<1>7. CASE UNCHANGED leafVars
  BY <1>7 DEF leafVars, LeafInv, LeafTypes, RowsAreTheirs, UsersAreNamed, FlightIsIts
<1> QED BY <1>1, <1>2, <1>3, <1>4, <1>5, <1>6, <1>7 DEF LeafNext

\* However reads of different profiles overlap, share flights, rows and remembered accounts,
\* and fail, each is told marks of its own profile's account and of nobody else (profileScope,
\* plexGet, allLeaves).
THEOREM MarksStayTheReaders == LeafSpec => []MarksAreTheReaders
<1>1. LeafInv => MarksAreTheReaders
  <2> SUFFICES ASSUME LeafInv, NEW r \in Readers, Answered(r)
               PROVE  /\ readers[r].account = IF Named(readers[r].title) = Nobody \/ readers[r].silent
                                              THEN Owner ELSE Named(readers[r].title)
                      /\ readers[r].told \subseteq watched[readers[r].account]
    BY DEF MarksAreTheReaders
  <2> QED BY DEF LeafInv, Fine, Answered, WhoseMarks, Known, Steps
<1> QED BY <1>1, LeafBegins, NextKeepsMarks, PTL DEF LeafSpec

-----------------------------------------------------------------------------
(* EntryCounts.  A write is right by what its request carries: a request   *)
(* that does not reset the entry carries a count a person picked, and      *)
(* never the absence of one, wherever the tab took it from.                *)

Picks     == Counts \cup {NoOverride}
Values    == Counts \cup {NoOverride, 0}
Requests  ==
    [n : Nat, count : Picks, reset : BOOLEAN,
     step : {"reads", "writes", "answered", "failed"}, default : Values, at : Values]

CarriesACount(p) == ~p.reset => p.count \in Counts

CountsInv ==
    /\ setDefault \in Counts /\ override \in Values /\ countEdits \in Nat
    /\ countTab \in [default : Counts, own : Values]
    /\ patches \subseteq Requests /\ \A p \in patches : CarriesACount(p)
    /\ CountIsAsAsked

(* A picked count becomes a request that carries it.                       *)
LEMMA PatchIsARequest ==
    ASSUME NEW n \in Picks, NEW reset \in BOOLEAN, countEdits' \in Nat
    PROVE  /\ Patch(n, reset) \in Requests
           /\ Patch(n, reset).count = n /\ Patch(n, reset).reset = reset
BY DEF Patch, Requests, Values, Picks

LEMMA CountsBegin == CountInit => CountsInv
<1> SUFFICES ASSUME CountInit PROVE CountsInv
  OBVIOUS
<1>1. setDefault \in Counts /\ override \in Counts \cup {NoOverride} /\ override # setDefault
  BY DEF CountInit
<1>2. CountIsAsAsked
  BY <1>1, CountsAssumption DEF CountInit, CountIsAsAsked, Effective
<1>3. countTab \in [default : Counts, own : Values]
  BY <1>1 DEF CountInit, Values
<1> QED BY <1>1, <1>2, <1>3 DEF CountInit, CountsInv, Values

(* The sheet: what it sends is a count of the picker.                      *)
LEMMA SheetKeeps ==
    ASSUME CountsInv, NEW n \in Picks, NEW reset \in BOOLEAN, Edit,
           ~reset => n \in Counts,
           patches' = patches \cup {Patch(n, reset)},
           UNCHANGED <<setDefault, override, countTab, asked>>
    PROVE  CountsInv'
<1>1. countEdits' \in Nat
  BY DEF Edit, CountsInv
<1>2. patches' \subseteq Requests /\ \A p \in patches' : CarriesACount(p)
  BY <1>1, PatchIsARequest DEF CountsInv, CarriesACount
<1> QED BY <1>1, <1>2 DEF CountsInv, CountIsAsAsked

(* The server: a request goes on and still carries what it carried.        *)
LEMMA GoingKeeps ==
    ASSUME CountsInv, NEW p \in patches, NEW to \in Requests, PatchGoes(p, to), CarriesACount(to),
           UNCHANGED <<setDefault, override, countTab, asked, countEdits>>
    PROVE  CountsInv'
<1>1. patches' \subseteq Requests /\ \A q \in patches' : CarriesACount(q)
  BY DEF PatchGoes, CountsInv
<1> QED BY <1>1 DEF CountsInv, CountIsAsAsked

LEMMA ReadsKeep ==
    ASSUME CountsInv, NEW p \in patches, ReadsReset(p) \/ ReadsDefault(p) \/ PatchFails(p)
    PROVE  CountsInv'
<1>0. p \in Requests /\ CarriesACount(p) /\ setDefault \in Values
  BY DEF CountsInv, Values
<1>1. CASE ReadsReset(p)
  <2> DEFINE to == [p EXCEPT !.at = setDefault]
  <2>1. to \in Requests /\ to.count = p.count /\ to.reset = p.reset
    BY <1>0 DEF Requests
  <2>2. PatchGoes(p, to) /\ UNCHANGED <<setDefault, override, countTab, asked, countEdits>>
    BY <1>1 DEF ReadsReset
  <2> HIDE DEF to
  <2> QED BY <1>0, <2>1, <2>2, GoingKeeps DEF CarriesACount
<1>2. CASE ReadsDefault(p)
  <2> DEFINE to == [p EXCEPT !.step = "writes", !.default = setDefault]
  <2>1. to \in Requests /\ to.count = p.count /\ to.reset = p.reset
    BY <1>0 DEF Requests
  <2>2. PatchGoes(p, to) /\ UNCHANGED <<setDefault, override, countTab, asked, countEdits>>
    BY <1>2 DEF ReadsDefault
  <2> HIDE DEF to
  <2> QED BY <1>0, <2>1, <2>2, GoingKeeps DEF CarriesACount
<1>3. CASE PatchFails(p)
  <2> DEFINE to == [p EXCEPT !.step = "failed"]
  <2>1. to \in Requests /\ to.count = p.count /\ to.reset = p.reset
    BY <1>0 DEF Requests
  <2>2. PatchGoes(p, to) /\ UNCHANGED <<setDefault, override, countTab, asked, countEdits>>
    BY <1>3 DEF PatchFails
  <2> HIDE DEF to
  <2> QED BY <1>0, <2>1, <2>2, GoingKeeps DEF CarriesACount
<1> QED BY <1>1, <1>2, <1>3

(* The write, under the lock: by the default the request has read, which   *)
(* is the set's own unless it was edited meanwhile.                        *)
LEMMA RewritingKeeps ==
    ASSUME CountsInv, NEW p \in patches, Rewrites(p)
    PROVE  CountsInv'
<1>0. p \in Requests /\ CarriesACount(p) /\ setDefault \in Counts
  BY DEF CountsInv
<1>1. /\ override' = IF Wanted(p) = p.default THEN NoOverride ELSE Wanted(p)
      /\ asked' = [count |-> IF p.reset THEN setDefault ELSE p.count, under |-> setDefault,
                   mixed |-> p.default # setDefault \/ (p.reset /\ p.at # setDefault)]
      /\ UNCHANGED <<setDefault, countTab, countEdits>>
  BY DEF Rewrites
<1>2. Wanted(p) \in Values
  BY <1>0 DEF Wanted, Requests, Picks, Values
<1>3. CountIsAsAsked'
  <2> SUFFICES ASSUME ~asked'.mixed
               PROVE  /\ Effective(setDefault, override') = asked'.count
                      /\ asked'.count = setDefault => override' = NoOverride
    BY <1>1 DEF CountIsAsAsked
  <2>1. p.default = setDefault /\ (p.reset => p.at = setDefault)
    BY <1>1
  <2>2. asked'.count = IF p.reset THEN setDefault ELSE p.count
    BY <1>1
  <2>3. CASE p.reset
    BY <1>1, <2>1, <2>2, <2>3 DEF Wanted, Effective
  <2>4. CASE ~p.reset
    <3>1. p.count \in Counts /\ p.count # NoOverride
      BY <1>0, <2>4, CountsAssumption DEF CarriesACount
    <3> QED BY <1>1, <2>1, <2>2, <2>4, <3>1 DEF Wanted, Effective
  <2> QED BY <1>0, <2>3, <2>4 DEF Requests
<1>4. patches' \subseteq Requests /\ \A q \in patches' : CarriesACount(q)
  <2>1. CASE p.reset /\ p.count # NoOverride
    <3> DEFINE to == [p EXCEPT !.reset = FALSE, !.step = "reads"]
    <3>1. to \in Requests /\ to.count = p.count
      BY <1>0 DEF Requests
    <3>2. PatchGoes(p, to)
      BY <2>1 DEF Rewrites
    <3> HIDE DEF to
    <3>3. CarriesACount(to)
      BY <1>0, <2>1, <3>1 DEF CarriesACount, Requests, Picks
    <3> QED BY <3>1, <3>2, <3>3 DEF PatchGoes, CountsInv
  <2>2. CASE ~(p.reset /\ p.count # NoOverride)
    <3> DEFINE to == [p EXCEPT !.step = "answered"]
    <3>1. to \in Requests /\ to.count = p.count /\ to.reset = p.reset
      BY <1>0 DEF Requests
    <3>2. PatchGoes(p, to)
      BY <2>2 DEF Rewrites
    <3> HIDE DEF to
    <3>3. CarriesACount(to)
      BY <1>0, <3>1 DEF CarriesACount
    <3> QED BY <3>1, <3>2, <3>3 DEF PatchGoes, CountsInv
  <2> QED BY <2>1, <2>2
<1>5. override' \in Values
  BY <1>1, <1>2 DEF Values
<1> QED BY <1>0, <1>1, <1>3, <1>4, <1>5 DEF CountsInv

(* The answers: the tab's copies are counts of the server, or picked ones. *)
LEMMA AnswersKeep ==
    ASSUME CountsInv, CountsRefetched \/ \E p \in patches : PatchAnswered(p)
    PROVE  CountsInv'
<1>1. UNCHANGED <<setDefault, override, asked, countEdits>> /\ patches' \subseteq patches
  BY DEF CountsRefetched, PatchAnswered
<1>2. countTab' \in [default : Counts, own : Values]
  <2>1. CASE countTab' = [default |-> setDefault, own |-> override]
    BY <2>1 DEF CountsInv
  <2>2. ASSUME NEW p \in patches,
               countTab' = [countTab EXCEPT !.own = IF p.count = countTab.default THEN NoOverride
                                                    ELSE p.count]
        PROVE  countTab' \in [default : Counts, own : Values]
    <3>1. p.count \in Values /\ NoOverride \in Values
      BY DEF CountsInv, Requests, Picks, Values
    <3> QED BY <2>2, <3>1 DEF CountsInv
  <2> QED BY <2>1, <2>2 DEF CountsRefetched, PatchAnswered
<1> QED BY <1>1, <1>2 DEF CountsInv, CountIsAsAsked

-----------------------------------------------------------------------------
LEMMA NextKeepsCounts == CountsInv /\ [CountNext]_countVars => CountsInv'
<1> SUFFICES ASSUME CountsInv, [CountNext]_countVars PROVE CountsInv'
  OBVIOUS
<1>0. CASE UNCHANGED <<setDefault, override, patches, countTab, asked, countEdits>>
  BY <1>0 DEF CountsInv, CountIsAsAsked
<1>1. CASE OpenSheet \/ CloseSheet \/ PickCustom \/ \E n \in Counts \cup {0} : Type(n)
  BY <1>0, <1>1 DEF OpenSheet, CloseSheet, PickCustom, Type
<1>2. ASSUME NEW n \in Counts, PickPreset(n) PROVE CountsInv'
  BY <1>2, SheetKeeps DEF PickPreset, Emit, Picks
<1>3. CASE CommitDraft
  <2>1. CASE picker.draft \in Counts
    BY <1>3, <2>1, SheetKeeps DEF CommitDraft, Emit, Picks
  <2>2. CASE picker.draft \notin Counts
    BY <1>0, <1>3, <2>2 DEF CommitDraft
  <2> QED BY <2>1, <2>2
<1>4. CASE BackToPresets
  <2>1. countTab.default \in Counts
    BY DEF CountsInv
  <2>2. CASE IsPreset(Value, countTab.default)
    BY <1>0, <1>4, <2>2 DEF BackToPresets
  <2>3. CASE ~IsPreset(Value, countTab.default)
    BY <1>4, <2>1, <2>3, SheetKeeps DEF BackToPresets, Emit, Picks
  <2> QED BY <2>2, <2>3
<1>5. ASSUME NEW n \in Counts \cup {NoOverride}, Bulk(n) PROVE CountsInv'
  BY <1>5, SheetKeeps DEF Bulk, Picks
<1>6. ASSUME NEW n \in Counts, EditDefault(n) PROVE CountsInv'
  BY <1>6 DEF EditDefault, Edit, CountsInv, CountIsAsAsked
<1>7. ASSUME NEW p \in patches, ReadsReset(p) \/ ReadsDefault(p) \/ PatchFails(p) PROVE CountsInv'
  BY <1>7, ReadsKeep
<1>8. ASSUME NEW p \in patches, Rewrites(p) PROVE CountsInv'
  BY <1>8, RewritingKeeps
<1>9. CASE CountsRefetched \/ \E p \in patches : PatchAnswered(p)
  BY <1>9, AnswersKeep
<1>10. CASE UNCHANGED countVars
  BY <1>0, <1>10 DEF countVars
<1> QED BY <1>1, <1>2, <1>3, <1>4, <1>5, <1>6, <1>7, <1>8, <1>9, <1>10 DEF CountNext

\* However edits of an entry overlap, fail and are told late to the sheet, the entry plays the
\* count that was written last, and one that was put back to the default carries no override
\* of its own (setEpisodes, rewriteEntry), unless the set's default was edited under a request.
THEOREM CountStaysAsAsked == CountSpec => []CountIsAsAsked
<1>1. CountsInv => CountIsAsAsked
  BY DEF CountsInv
<1> QED BY <1>1, CountsBegin, NextKeepsCounts, PTL DEF CountSpec

-----------------------------------------------------------------------------
(* UndoHistory.  The stacks, the file and the requests in flight together  *)
(* are one line of states with a cursor on it, whichever request is where: *)
(* every step maps to a step of LinearHistory or to none.                  *)

(* Sequences taken apart at their end.                                     *)
LEMMA FrontAndLast ==
    ASSUME NEW S, NEW s \in Seq(S), s # << >>
    PROVE  /\ Front(s) \in Seq(S) /\ Last(s) \in S /\ Len(Front(s)) = Len(s) - 1
           /\ Append(Front(s), Last(s)) = s
<1>1. Len(s) \in Nat \ {0}
  BY EmptySeq
<1>2. Front(s) \in Seq(S) /\ Len(Front(s)) = Len(s) - 1 /\ \A i \in 1..Len(s) - 1 : Front(s)[i] = s[i]
  <2>1. \A i \in 1..Len(s) - 1 : s[i] \in S
    BY <1>1, ElementOfSeq
  <2>2. /\ Front(s) \in Seq(S)
        /\ Len(Front(s)) = IF 1 <= Len(s) - 1 THEN Len(s) - 1 - 1 + 1 ELSE 0
        /\ \A i \in 1..Len(s) - 1 - 1 + 1 : Front(s)[i] = s[1 + i - 1]
    BY <1>1, <2>1, SubSeqProperties DEF Front
  <2>3. Len(s) - 1 - 1 + 1 = Len(s) - 1 /\ \A i \in 1..Len(s) - 1 : 1 + i - 1 = i
    BY <1>1
  <2>4. Len(Front(s)) = Len(s) - 1
    <3>1. CASE 1 <= Len(s) - 1
      BY <3>1, <2>2, <2>3
    <3>2. CASE ~(1 <= Len(s) - 1)
      <4>1. \A n \in Nat \ {0} : ~(1 <= n - 1) => n = 1
        OBVIOUS
      <4>2. Len(s) = 1
        BY <3>2, <1>1, <4>1
      <4>3. Len(Front(s)) = 0
        BY <3>2, <2>2
      <4> QED BY <4>2, <4>3
    <3> QED BY <3>1, <3>2
  <2>5. ASSUME NEW i \in 1..Len(s) - 1 PROVE Front(s)[i] = s[i]
    BY <2>2, <2>3
  <2> QED BY <2>2, <2>4, <2>5
<1>3. Last(s) \in S
  BY <1>1, ElementOfSeq DEF Last
<1>4. Append(Front(s), Last(s)) = s
  <2> DEFINE t == Append(Front(s), Last(s))
  <2>1. /\ t \in Seq(S) /\ Len(t) = Len(s)
        /\ \A i \in 1..Len(s) - 1 : t[i] = s[i]
        /\ t[Len(s)] = s[Len(s)]
    BY <1>1, <1>2, <1>3, AppendProperties DEF Last
  <2>2. \A i \in 1..Len(t) : t[i] = s[i]
    BY <2>1, <1>1
  <2> QED BY <2>1, <2>2, SeqEqual
<1> QED BY <1>2, <1>3, <1>4

LEMMA FrontAndLastOfAppend ==
    ASSUME NEW S, NEW s \in Seq(S), NEW e \in S
    PROVE  Front(Append(s, e)) = s /\ Last(Append(s, e)) = e
<1>1. /\ Append(s, e) \in Seq(S) /\ Append(s, e) # << >> /\ Len(Append(s, e)) = Len(s) + 1
      /\ \A i \in 1..Len(s) : Append(s, e)[i] = s[i]
      /\ Append(s, e)[Len(s) + 1] = e
  BY AppendProperties
<1>2. Append(Front(Append(s, e)), Last(Append(s, e))) = Append(s, e) /\ Front(Append(s, e)) \in Seq(S)
      /\ Last(Append(s, e)) \in S
  BY <1>1, FrontAndLast
<1> QED BY <1>2, AppendInjective

LEMMA ReverseProperties ==
    ASSUME NEW S, NEW s \in Seq(S)
    PROVE  /\ Reverse(s) \in Seq(S) /\ Len(Reverse(s)) = Len(s)
           /\ \A i \in 1..Len(s) : Reverse(s)[i] = s[Len(s) - i + 1]
<1>1. Len(s) \in Nat /\ \A i \in 1..Len(s) : s[(Len(s) - i) + 1] \in S
  BY ElementOfSeq
<1>2. Reverse(s) \in Seq(S)
  BY <1>1, IsASeq DEF Reverse
<1>3. DOMAIN Reverse(s) = 1..Len(s)
  BY DEF Reverse
<1> QED BY <1>1, <1>2, <1>3, LenProperties DEF Reverse

LEMMA ReverseOfAppend ==
    ASSUME NEW S, NEW s \in Seq(S), NEW e \in S
    PROVE  Reverse(Append(s, e)) = <<e>> \o Reverse(s)
<1> DEFINE a == Append(s, e)
           l == Reverse(a)
           r == <<e>> \o Reverse(s)
<1>1. /\ a \in Seq(S) /\ Len(a) = Len(s) + 1 /\ Len(s) \in Nat
      /\ \A i \in 1..Len(s) : a[i] = s[i]
      /\ a[Len(s) + 1] = e
  BY AppendProperties
<1>2. /\ Reverse(s) \in Seq(S) /\ Len(Reverse(s)) = Len(s)
      /\ \A i \in 1..Len(s) : Reverse(s)[i] = s[Len(s) - i + 1]
  BY ReverseProperties
<1> HIDE DEF a
<1>3. /\ l \in Seq(S) /\ Len(l) = Len(s) + 1
      /\ \A i \in 1..Len(s) + 1 : l[i] = a[Len(s) + 1 - i + 1]
  <2>1. /\ l \in Seq(S) /\ Len(l) = Len(a)
        /\ \A i \in 1..Len(a) : l[i] = a[Len(a) - i + 1]
    BY <1>1, ReverseProperties
  <2> QED BY <1>1, <2>1
<1>4. /\ <<e>> \in Seq(S) /\ Len(<<e>>) = 1 /\ <<e>>[1] = e
  OBVIOUS
<1>5. /\ r \in Seq(S) /\ Len(r) = Len(s) + 1
      /\ \A i \in 1..Len(s) + 1 : r[i] = IF i <= 1 THEN e ELSE Reverse(s)[i - 1]
  BY <1>1, <1>2, <1>4, ConcatProperties
<1> HIDE DEF l, r
<1>6. ASSUME NEW i \in 1..Len(s) + 1 PROVE l[i] = r[i]
  <2>1. CASE i = 1
    <3>1. Len(s) + 1 - i + 1 = Len(s) + 1
      BY <2>1, <1>1
    <3> QED BY <2>1, <3>1, <1>1, <1>3, <1>5
  <2>2. CASE i # 1
    <3>1. i - 1 \in 1..Len(s) /\ Len(s) + 1 - i + 1 \in 1..Len(s)
      BY <2>2, <1>1
    <3>2. r[i] = s[Len(s) - (i - 1) + 1]
      BY <3>1, <2>2, <1>1, <1>2, <1>5, SMTT(30)
    <3>3. l[i] = s[Len(s) + 1 - i + 1]
      BY <3>1, <1>1, <1>3
    <3>4. Len(s) - (i - 1) + 1 = Len(s) + 1 - i + 1
      BY <1>1
    <3> QED BY <3>2, <3>3, <3>4
  <2> QED BY <2>1, <2>2
<1> QED BY <1>3, <1>5, <1>6, SeqEqual DEF l, r, a

LEMMA HeadAndTailOfCons ==
    ASSUME NEW S, NEW s \in Seq(S), NEW e \in S
    PROVE  <<e>> \o s # << >> /\ Head(<<e>> \o s) = e /\ Tail(<<e>> \o s) = s
<1> DEFINE c == <<e>> \o s
<1>1. <<e>> \in Seq(S) /\ Len(<<e>>) = 1 /\ <<e>>[1] = e /\ Len(s) \in Nat
  OBVIOUS
<1>2. /\ c \in Seq(S) /\ Len(c) = 1 + Len(s)
      /\ \A i \in 1..1 + Len(s) : c[i] = IF i <= 1 THEN e ELSE s[i - 1]
  BY <1>1, ConcatProperties
<1>3. c # << >>
  BY <1>1, <1>2
<1> HIDE DEF c
<1>4. Tail(c) \in Seq(S) /\ Len(Tail(c)) = Len(s) /\ \A i \in 1..Len(s) : Tail(c)[i] = c[i + 1]
  BY <1>1, <1>2, <1>3, HeadTailProperties
<1>5. Tail(c) = s
  <2>1. \A i \in 1..Len(s) : Tail(c)[i] = s[i]
    BY <1>1, <1>2, <1>4
  <2> QED BY <1>4, <2>1, SeqEqual
<1>6. Head(c) = e
  BY <1>1, <1>2
<1> QED BY <1>3, <1>5, <1>6 DEF c

-----------------------------------------------------------------------------
History == Seq(Version)

\* What a request has of itself at each of its steps.
RequestIsSound ==
    \/ request = Idle
    \/ /\ request \in [kind : {"edit"}, step : {"readQ", "readS", "push", "edit"},
                      read : Version, snap : Version]
    \/ /\ request \in [kind : {"undo", "redo"}, step : {"readQ", "readS", "push", "writeQ", "writeS"},
                      read : Version, snap : Version]

\* An undo or a redo has popped a version and not pushed one yet.
HasPopped == request.kind \in {"undo", "redo"} /\ request.step \in {"readQ", "readS", "push"}

\* The two stacks together never hold more than the undo stack may: only an edit makes a
\* version, and it empties the redo stack.  So a redo, which does not trim, overfills nothing.
StacksFit ==
    /\ Len(undoStack) + Len(redoStack) + (IF HasPopped THEN 1 ELSE 0) <= MaxUndo
    /\ Len(mirror.undo) + Len(mirror.redo) <= MaxUndo

\* Until the files are written, what was there is the last that was pushed.
PushedIsRead ==
    AtStep("writeQ") =>
        /\ request.kind = "undo" => redoStack # << >> /\ Last(redoStack) = request.read
        /\ request.kind = "redo" => undoStack # << >> /\ Last(undoStack) = request.read

UndoInv ==
    /\ files \in Version
    /\ undoStack \in History /\ redoStack \in History
    /\ mirror \in [undo : History, redo : History]
    /\ RequestIsSound /\ StacksFit /\ PushedIsRead

LEMMA UndoBegins == UndoInit => UndoInv
<1> SUFFICES ASSUME UndoInit PROVE UndoInv
  OBVIOUS
<1>1. << >> \in History /\ Len(<< >>) = 0
  BY DEF History
<1>2. mirror \in [undo : History, redo : History] /\ Len(mirror.undo) = 0 /\ Len(mirror.redo) = 0
  BY <1>1 DEF UndoInit
<1>3. ~HasPopped /\ ~AtStep("writeQ")
  BY DEF UndoInit, Idle, HasPopped, AtStep
<1>4. StacksFit
  BY <1>1, <1>2, <1>3, UndoAssumption DEF UndoInit, StacksFit
<1> QED BY <1>1, <1>2, <1>3, <1>4 DEF UndoInit, UndoInv, RequestIsSound, PushedIsRead

(* The version a request works on: arriving, and reading the two files.    *)
LEMMA ArrivingKeeps ==
    ASSUME UndoInv, EditArrives \/ UndoArrives \/ RedoArrives
    PROVE  UndoInv'
<1>1. request = Idle
  BY DEF EditArrives, UndoArrives, RedoArrives, AtStep, UndoInv, RequestIsSound
<1>2. ~HasPopped /\ Len(undoStack) \in Nat /\ Len(redoStack) \in Nat
  BY <1>1 DEF HasPopped, Idle, UndoInv, History
<1>3. CASE EditArrives
  <2>1. request' \in [kind : {"edit"}, step : {"readQ", "readS", "push", "edit"},
                      read : Version, snap : Version] /\ request'.kind = "edit" /\ request'.step = "readQ"
    BY <1>3 DEF EditArrives, Begin, UndoInv
  <2>2. ~HasPopped' /\ ~AtStep("writeQ")'
    BY <2>1 DEF HasPopped, AtStep
  <2> QED BY <1>2, <1>3, <2>1, <2>2
      DEF EditArrives, UndoInv, RequestIsSound, StacksFit, PushedIsRead
<1>4. CASE UndoArrives \/ RedoArrives
  <2>1. /\ UNCHANGED <<files, mirror>>
        /\ undoStack' \in History /\ redoStack' \in History
        /\ Len(undoStack') + Len(redoStack') = Len(undoStack) + Len(redoStack) - 1
        /\ request' \in [kind : {"undo", "redo"}, step : {"readQ"}, read : Version, snap : Version]
    <3>1. CASE UndoArrives
      <4>1. /\ Front(undoStack) \in History /\ Last(undoStack) \in Version
            /\ Len(Front(undoStack)) = Len(undoStack) - 1
        BY <3>1, FrontAndLast DEF UndoArrives, UndoInv, History
      <4> QED BY <1>2, <3>1, <4>1 DEF UndoArrives, Begin, UndoInv
    <3>2. CASE RedoArrives
      <4>1. /\ Front(redoStack) \in History /\ Last(redoStack) \in Version
            /\ Len(Front(redoStack)) = Len(redoStack) - 1
        BY <3>2, FrontAndLast DEF RedoArrives, UndoInv, History
      <4> QED BY <1>2, <3>2, <4>1 DEF RedoArrives, Begin, UndoInv
    <3> QED BY <1>4, <3>1, <3>2
  <2>2. HasPopped' /\ ~AtStep("writeQ")'
    BY <2>1 DEF HasPopped, AtStep
  <2>3. StacksFit'
    BY <1>2, <2>1, <2>2, UndoAssumption DEF StacksFit, UndoInv
  <2> QED BY <2>1, <2>2, <2>3 DEF UndoInv, RequestIsSound, PushedIsRead
<1> QED BY <1>3, <1>4

LEMMA ReadingKeeps ==
    ASSUME UndoInv, ReadsQueues \/ ReadsSets
    PROVE  UndoInv'
<1>1. files \in Version /\ UNCHANGED <<files, undoStack, redoStack, mirror>>
  BY DEF ReadsQueues, ReadsSets, UndoInv
<1>2. request # Idle
  BY DEF ReadsQueues, ReadsSets, AtStep, Idle
<1>3. RequestIsSound' /\ ~AtStep("writeQ")' /\ (HasPopped' <=> HasPopped)
  <2>1. files.q \in Texts \cup {Absent} /\ files.s \in Texts \cup {Absent}
    BY <1>1 DEF Version
  <2>2. request.read \in Version
    BY <1>2 DEF UndoInv, RequestIsSound
  <2>3. [request.read EXCEPT !.q = files.q] \in Version /\ [request.read EXCEPT !.s = files.s] \in Version
    BY <2>1, <2>2 DEF Version
  <2>4. CASE ReadsQueues
    BY <1>2, <2>3, <2>4 DEF ReadsQueues, AtStep, UndoInv, RequestIsSound, HasPopped
  <2>5. CASE ReadsSets
    BY <1>2, <2>3, <2>5 DEF ReadsSets, AtStep, UndoInv, RequestIsSound, HasPopped
  <2> QED BY <2>4, <2>5
<1> QED BY <1>1, <1>3 DEF UndoInv, StacksFit, PushedIsRead

(* A snapshot, and a current version, pushed.                              *)
LEMMA TrimmedIsNewest ==
    ASSUME NEW stack \in History, NEW version \in Version, Len(stack) <= MaxUndo
    PROVE  /\ Trimmed(Append(stack, version)) \in History
           /\ Len(Trimmed(Append(stack, version))) <= MaxUndo
           /\ Trimmed(Append(stack, version)) = Line!Newest(Append(stack, version))
<1> DEFINE a == Append(stack, version)
<1>1. a \in History /\ a # << >> /\ Len(a) = Len(stack) + 1 /\ Len(stack) \in Nat
  BY AppendProperties DEF History
<1> HIDE DEF a
<1>2. CASE Len(a) > MaxUndo
  <2>1. Len(a) - MaxUndo + 1 = 2
    BY <1>1, <1>2, UndoAssumption
  <2>2. Tail(a) \in History /\ Len(Tail(a)) = Len(a) - 1 /\ Tail(a) = SubSeq(a, 2, Len(a))
    BY <1>1, HeadTailProperties, TailIsSubSeq DEF History
  <2> QED BY <1>1, <1>2, <2>1, <2>2, UndoAssumption DEF Trimmed, Line!Newest, a
<1>3. CASE ~(Len(a) > MaxUndo)
  <2>1. SubSeq(a, 1, Len(a)) = a
    BY <1>1, SubSeqFull DEF History
  <2> QED BY <1>1, <1>3, <2>1, UndoAssumption DEF Trimmed, Line!Newest, a
<1> QED BY <1>2, <1>3

LEMMA PersistingKeeps ==
    ASSUME UndoInv, Persists(undoStack', redoStack'), undoStack' \in History, redoStack' \in History,
           Len(undoStack') + Len(redoStack') <= MaxUndo
    PROVE  mirror' \in [undo : History, redo : History] /\ Len(mirror.undo)' + Len(mirror.redo)' <= MaxUndo
<1>1. CASE mirror' = mirror
  BY <1>1 DEF UndoInv, StacksFit
<1>2. CASE mirror' = [undo |-> undoStack', redo |-> redoStack']
  BY <1>2
<1> QED BY <1>1, <1>2 DEF Persists

LEMMA PushingKeeps ==
    ASSUME UndoInv, SnapshotPushed \/ CurrentPushed
    PROVE  UndoInv'
<1>1. /\ files \in Version /\ undoStack \in History /\ redoStack \in History
      /\ Len(undoStack) \in Nat /\ Len(redoStack) \in Nat /\ UNCHANGED files
  BY DEF UndoInv, History, SnapshotPushed, CurrentPushed
<1>2. request # Idle /\ AtStep("push")
  BY DEF SnapshotPushed, CurrentPushed, AtStep, Idle
<1>3. request.read \in Version
  BY <1>2 DEF UndoInv, RequestIsSound
<1>4. CASE SnapshotPushed
  <2>1. ~HasPopped
    BY <1>4 DEF SnapshotPushed, HasPopped
  <2>2. /\ undoStack' \in History /\ redoStack' = << >> /\ redoStack' \in History
        /\ Len(undoStack') \in Nat /\ Len(undoStack') + Len(redoStack') <= MaxUndo
    <3>1. Len(undoStack) <= MaxUndo
      BY <1>1, <2>1, UndoAssumption DEF UndoInv, StacksFit
    <3>2. undoStack' \in History /\ Len(undoStack') <= MaxUndo
      BY <1>1, <1>3, <1>4, <3>1, TrimmedIsNewest DEF SnapshotPushed
    <3> QED BY <1>4, <3>2, UndoAssumption DEF SnapshotPushed, RedoAfterEdit, History
  <2>3. mirror' \in [undo : History, redo : History] /\ Len(mirror.undo)' + Len(mirror.redo)' <= MaxUndo
    BY <1>4, <2>2, PersistingKeeps DEF SnapshotPushed
  <2>4. RequestIsSound' /\ ~AtStep("writeQ")' /\ ~HasPopped'
    BY <1>2, <1>4 DEF SnapshotPushed, GoTo, UndoInv, RequestIsSound, AtStep, HasPopped
  <2> QED BY <1>1, <2>2, <2>3, <2>4 DEF UndoInv, StacksFit, PushedIsRead
<1>5. CASE CurrentPushed
  <2>1. HasPopped /\ request.kind \in {"undo", "redo"}
    BY <1>2, <1>5 DEF CurrentPushed, HasPopped, UndoInv, RequestIsSound, AtStep
  <2>2. RequestIsSound' /\ ~HasPopped' /\ request'.kind = request.kind /\ request'.read = request.read
    BY <1>2, <1>5 DEF CurrentPushed, GoTo, UndoInv, RequestIsSound, AtStep, HasPopped
  <2>3. /\ undoStack' \in History /\ redoStack' \in History
        /\ Len(undoStack') + Len(redoStack') = Len(undoStack) + Len(redoStack) + 1
        /\ PushedIsRead'
    <3>1. CASE request.kind = "undo"
      <4>1. redoStack' = Append(redoStack, request.read) /\ undoStack' = undoStack
        BY <1>5, <3>1 DEF CurrentPushed
      <4>2. /\ redoStack' \in History /\ redoStack' # << >> /\ Len(redoStack') = Len(redoStack) + 1
            /\ Last(redoStack') = request.read
        BY <1>1, <1>3, <4>1, AppendProperties, FrontAndLastOfAppend DEF History
      <4> QED BY <1>1, <2>2, <3>1, <4>1, <4>2 DEF PushedIsRead
    <3>2. CASE request.kind = "redo"
      <4>1. undoStack' = Append(undoStack, request.read) /\ redoStack' = redoStack
        BY <1>5, <3>2 DEF CurrentPushed
      <4>2. /\ undoStack' \in History /\ undoStack' # << >> /\ Len(undoStack') = Len(undoStack) + 1
            /\ Last(undoStack') = request.read
        BY <1>1, <1>3, <4>1, AppendProperties, FrontAndLastOfAppend DEF History
      <4> QED BY <1>1, <2>2, <3>2, <4>1, <4>2 DEF PushedIsRead
    <3> QED BY <2>1, <3>1, <3>2
  <2>4. UNCHANGED mirror
    BY <1>5 DEF CurrentPushed
  <2>5. StacksFit'
    BY <1>1, <2>1, <2>2, <2>3, <2>4, UndoAssumption DEF StacksFit, UndoInv
  <2> QED BY <1>1, <2>2, <2>3, <2>4, <2>5 DEF UndoInv
<1> QED BY <1>4, <1>5

(* The files restored, or written by an edit or by the program.            *)
LEMMA WritingKeeps ==
    ASSUME UndoInv, EditWritten \/ QueuesRestored \/ SetsRestored \/ ProgramMarks
    PROVE  UndoInv'
<1>1. UNCHANGED <<undoStack, redoStack>>
  BY DEF EditWritten, QueuesRestored, SetsRestored, ProgramMarks
<1>2. files' \in Version
  <2>1. CASE EditWritten \/ ProgramMarks
    BY <2>1 DEF EditWritten, ProgramMarks, UndoInv, Version
  <2>2. CASE QueuesRestored \/ SetsRestored
    <3>1. request.snap \in Version
      BY <2>2 DEF QueuesRestored, SetsRestored, AtStep, UndoInv, RequestIsSound, Idle
    <3> QED BY <2>2, <3>1 DEF QueuesRestored, SetsRestored, RestoredText, UndoInv, Version
  <2> QED BY <2>1, <2>2
<1>3. CASE ProgramMarks
  BY <1>1, <1>2, <1>3 DEF ProgramMarks, UndoInv, RequestIsSound, StacksFit, PushedIsRead, AtStep,
                          HasPopped
<1>4. CASE QueuesRestored
  <2>1. RequestIsSound' /\ ~HasPopped' /\ ~HasPopped /\ ~AtStep("writeQ")'
    BY <1>4 DEF QueuesRestored, GoTo, UndoInv, RequestIsSound, AtStep, HasPopped, Idle
  <2> QED BY <1>1, <1>2, <1>4, <2>1 DEF QueuesRestored, UndoInv, StacksFit, PushedIsRead
<1>5. CASE EditWritten
  <2>1. request' = Idle /\ ~HasPopped' /\ ~HasPopped /\ ~AtStep("writeQ")'
    BY <1>5 DEF EditWritten, UndoInv, RequestIsSound, AtStep, HasPopped, Idle
  <2> QED BY <1>1, <1>2, <1>5, <2>1
      DEF EditWritten, UndoInv, RequestIsSound, StacksFit, PushedIsRead
<1>6. CASE SetsRestored
  <2>1. request' = Idle /\ ~HasPopped' /\ ~HasPopped /\ ~AtStep("writeQ")'
    BY <1>6 DEF SetsRestored, UndoInv, RequestIsSound, AtStep, HasPopped, Idle
  <2>2. Len(undoStack') + Len(redoStack') <= MaxUndo
    BY <1>1, <2>1, UndoAssumption DEF UndoInv, StacksFit, History
  <2>3. mirror' \in [undo : History, redo : History] /\ Len(mirror.undo)' + Len(mirror.redo)' <= MaxUndo
    BY <1>1, <1>6, <2>2, PersistingKeeps DEF SetsRestored, UndoInv
  <2> QED BY <1>1, <1>2, <2>1, <2>2, <2>3
      DEF UndoInv, RequestIsSound, StacksFit, PushedIsRead
<1> QED BY <1>3, <1>4, <1>5, <1>6

(* A boot takes both stacks from one write of the mirror.                  *)
LEMMA RebootKeeps == ASSUME UndoInv, Reboots PROVE UndoInv'
<1>1. ~HasPopped' /\ ~AtStep("writeQ")'
  BY DEF Reboots, HasPopped, AtStep, Idle
<1> QED BY <1>1 DEF Reboots, UndoInv, RequestIsSound, StacksFit, PushedIsRead

LEMMA NextKeepsUndo == UndoInv /\ [UndoNext]_undoVars => UndoInv'
<1>1. UndoInv /\ UNCHANGED undoVars => UndoInv'
  BY DEF UndoInv, RequestIsSound, StacksFit, PushedIsRead, HasPopped, AtStep, undoVars
<1> QED BY <1>1, ArrivingKeeps, ReadingKeeps, PushingKeeps, WritingKeeps, RebootKeeps DEF UndoNext

-----------------------------------------------------------------------------
(* The mapping, for each kind of request, before and after a step.         *)
LEMMA MappingAtRest ==
    /\ ~IsUndoing => PastNow = undoStack /\ FutureNow = Reverse(redoStack)
    /\ ~IsUndoing' => PastNow' = undoStack' /\ FutureNow' = Reverse(redoStack')
BY DEF IsUndoing, PastNow, FutureNow, AtStep

LEMMA MappingOfUndo ==
    /\ request.kind = "undo" /\ IsUndoing =>
          /\ PastNow = Append(undoStack, request.snap)
          /\ FutureNow = Reverse(IF AtStep("writeQ") THEN Front(redoStack) ELSE redoStack)
    /\ request'.kind = "undo" /\ IsUndoing' =>
          /\ PastNow' = Append(undoStack', request'.snap)
          /\ FutureNow' = Reverse(IF AtStep("writeQ")' THEN Front(redoStack') ELSE redoStack')
BY DEF PastNow, FutureNow, IsUndoing, AtStep

LEMMA MappingOfRedo ==
    /\ request.kind = "redo" /\ IsUndoing =>
          /\ PastNow = IF AtStep("writeQ") THEN Front(undoStack) ELSE undoStack
          /\ FutureNow = Reverse(Append(redoStack, request.snap))
    /\ request'.kind = "redo" /\ IsUndoing' =>
          /\ PastNow' = IF AtStep("writeQ")' THEN Front(undoStack') ELSE undoStack'
          /\ FutureNow' = Reverse(Append(redoStack', request'.snap))
BY DEF PastNow, FutureNow, IsUndoing, AtStep

(* Steps that the line does not see: popping and pushing cancel out.       *)
LEMMA QuietSteps ==
    ASSUME UndoInv,
           \/ EditArrives \/ UndoArrives \/ RedoArrives \/ ReadsQueues \/ ReadsSets
           \/ EditWritten \/ CurrentPushed \/ SetsRestored \/ ProgramMarks
    PROVE  Line!Amend
<1>1. UNCHANGED <<edits, steps, boots>>
  BY DEF EditArrives, UndoArrives, RedoArrives, ReadsQueues, ReadsSets, EditWritten, CurrentPushed,
         SetsRestored, ProgramMarks
<1>2. undoStack \in History /\ redoStack \in History
  BY DEF UndoInv
<1>3. CASE EditArrives \/ EditWritten \/ SetsRestored
  <2>1. ~IsUndoing /\ ~IsUndoing' /\ UNCHANGED <<undoStack, redoStack>>
    BY <1>3 DEF EditArrives, EditWritten, SetsRestored, Begin, AtStep, IsUndoing, Idle, UndoInv,
                RequestIsSound
  <2> QED BY <1>1, <2>1, MappingAtRest DEF Line!Amend
<1>4. CASE UndoArrives
  <2>1. ~IsUndoing /\ IsUndoing' /\ ~AtStep("writeQ")' /\ request'.kind = "undo"
    BY <1>4 DEF UndoArrives, Begin, AtStep, IsUndoing, Idle, UndoInv, RequestIsSound
  <2>2. Append(undoStack', request'.snap) = undoStack /\ redoStack' = redoStack
    BY <1>2, <1>4, FrontAndLast DEF UndoArrives, Begin, History
  <2> QED BY <1>1, <2>1, <2>2, MappingAtRest, MappingOfUndo DEF Line!Amend
<1>5. CASE RedoArrives
  <2>1. ~IsUndoing /\ IsUndoing' /\ ~AtStep("writeQ")' /\ request'.kind = "redo"
    BY <1>5 DEF RedoArrives, Begin, AtStep, IsUndoing, Idle, UndoInv, RequestIsSound
  <2>2. Append(redoStack', request'.snap) = redoStack /\ undoStack' = undoStack
    BY <1>2, <1>5, FrontAndLast DEF RedoArrives, Begin, History
  <2> QED BY <1>1, <2>1, <2>2, MappingAtRest, MappingOfRedo DEF Line!Amend
<1>6. CASE ReadsQueues \/ ReadsSets \/ ProgramMarks
  <2>1. /\ UNCHANGED <<undoStack, redoStack>> /\ request'.kind = request.kind
        /\ request'.snap = request.snap \/ ~IsUndoing
        /\ AtStep("writeQ")' <=> AtStep("writeQ")
        /\ IsUndoing' <=> IsUndoing
        /\ IsUndoing => request.kind \in {"undo", "redo"}
    <3>1. request = Idle => ~IsUndoing
      BY DEF Idle, IsUndoing
    <3>2. request # Idle => request.kind \in {"edit", "undo", "redo"}
      BY DEF UndoInv, RequestIsSound
    <3>3. CASE ProgramMarks
      BY <3>1, <3>2, <3>3 DEF ProgramMarks, AtStep, IsUndoing
    <3>4. CASE ReadsQueues
      BY <3>1, <3>2, <3>4 DEF ReadsQueues, AtStep, IsUndoing, UndoInv, RequestIsSound, Idle
    <3>5. CASE ReadsSets
      BY <3>1, <3>2, <3>5 DEF ReadsSets, AtStep, IsUndoing, UndoInv, RequestIsSound, Idle
    <3> QED BY <1>6, <3>3, <3>4, <3>5
  <2> QED BY <1>1, <2>1, MappingAtRest, MappingOfUndo, MappingOfRedo DEF Line!Amend
<1>7. CASE CurrentPushed
  <2>1. /\ IsUndoing /\ IsUndoing' /\ ~AtStep("writeQ") /\ AtStep("writeQ")'
        /\ request'.kind = request.kind /\ request'.snap = request.snap
        /\ request.kind \in {"undo", "redo"} /\ request.read \in Version
    BY <1>7 DEF CurrentPushed, GoTo, AtStep, IsUndoing, Idle, UndoInv, RequestIsSound
  <2>2. CASE request.kind = "undo"
    <3>1. redoStack' = Append(redoStack, request.read) /\ undoStack' = undoStack
      BY <1>7, <2>2 DEF CurrentPushed
    <3>2. Front(redoStack') = redoStack
      BY <1>2, <2>1, <3>1, FrontAndLastOfAppend DEF History
    <3> QED BY <1>1, <2>1, <2>2, <3>1, <3>2, MappingOfUndo DEF Line!Amend
  <2>3. CASE request.kind = "redo"
    <3>1. undoStack' = Append(undoStack, request.read) /\ redoStack' = redoStack
      BY <1>7, <2>3 DEF CurrentPushed
    <3>2. Front(undoStack') = undoStack
      BY <1>2, <2>1, <3>1, FrontAndLastOfAppend DEF History
    <3> QED BY <1>1, <2>1, <2>3, <3>1, <3>2, MappingOfRedo DEF Line!Amend
  <2> QED BY <2>1, <2>2, <2>3
<1> QED BY <1>3, <1>4, <1>5, <1>6, <1>7

(* A snapshot forks the line.                                              *)
LEMMA PushForks == ASSUME UndoInv, SnapshotPushed PROVE Line!Fork
<1>1. /\ ~IsUndoing /\ ~IsUndoing' /\ request.read \in Version /\ ~HasPopped
      /\ AtStep("push")
  BY DEF SnapshotPushed, GoTo, AtStep, IsUndoing, Idle, UndoInv, RequestIsSound, HasPopped
<1>2. undoStack \in History /\ Len(undoStack) <= MaxUndo
  BY <1>1, UndoAssumption DEF UndoInv, StacksFit, History
<1>3. ReadSoFar = request.read
  BY <1>1 DEF ReadSoFar, AtStep
<1>4. PastNow' = Line!Newest(Append(PastNow, ReadSoFar))
  BY <1>1, <1>2, <1>3, MappingAtRest, TrimmedIsNewest DEF SnapshotPushed
<1>5. Reverse(<< >>) = << >>
  BY DEF Reverse
<1>6. FutureNow' = << >>
  BY <1>1, <1>5, MappingAtRest DEF SnapshotPushed, RedoAfterEdit
<1> QED BY <1>4, <1>6 DEF SnapshotPushed, Line!Fork

(* The write of queues.yaml is where an undo or a redo happens.            *)
LEMMA RestoringIsOnTheLine == ASSUME UndoInv, QueuesRestored PROVE Line!Undo \/ Line!Redo
<1> DEFINE old == request.snap
<1>1. /\ IsUndoing /\ AtStep("writeQ") /\ ~IsUndoing' /\ request.kind \in {"undo", "redo"}
      /\ old \in Version /\ request.read \in Version /\ request'.snap = old /\ AtStep("writeS")'
  BY DEF QueuesRestored, GoTo, AtStep, IsUndoing, Idle, UndoInv, RequestIsSound
<1>2. undoStack \in History /\ redoStack \in History /\ UNCHANGED <<undoStack, redoStack>>
  BY DEF UndoInv, QueuesRestored
<1>3. ReadSoFar = request.read
  BY <1>1 DEF ReadSoFar, AtStep
<1>4. Line!IsRestored(old)
  <2>1. files' = [files EXCEPT !.q = RestoredText("q")] /\ files \in Version
    BY DEF QueuesRestored, UndoInv
  <2>2. ReadSoFar' = [files' EXCEPT !.s = IF old.s = Absent THEN files'.s ELSE old.s]
    BY <1>1 DEF ReadSoFar, AtStep, RestoredText
  <2>3. files'.q = IF old.q = Absent THEN files.q ELSE old.q
    BY <2>1 DEF RestoredText, Version
  <2>4. DOMAIN old = {"q", "s"}
    BY <1>1 DEF Version
  <2>5. ReadSoFar'.q = files'.q /\ (old.s # Absent => ReadSoFar'.s = old.s)
    BY <2>1, <2>2 DEF Version
  <2> QED BY <2>3, <2>4, <2>5 DEF Line!IsRestored
<1>5. UNCHANGED <<edits, boots>> /\ steps' = steps + 1
  BY DEF QueuesRestored
<1>6. CASE request.kind = "undo"
  <2>1. PastNow = Append(undoStack, old) /\ FutureNow = Reverse(Front(redoStack))
    BY <1>1, <1>6, MappingOfUndo
  <2>2. PastNow # << >> /\ Front(PastNow) = undoStack /\ Last(PastNow) = old
    BY <1>1, <1>2, <2>1, AppendProperties, FrontAndLastOfAppend DEF History
  <2>3. redoStack # << >> /\ Last(redoStack) = ReadSoFar
    BY <1>1, <1>3, <1>6 DEF UndoInv, PushedIsRead
  <2>4. redoStack = Append(Front(redoStack), ReadSoFar) /\ Front(redoStack) \in History
        /\ ReadSoFar \in Version
    BY <1>2, <2>3, FrontAndLast DEF History
  <2>5. Reverse(redoStack) = <<ReadSoFar>> \o FutureNow
    BY <2>1, <2>4, ReverseOfAppend DEF History
  <2>6. PastNow' = undoStack /\ FutureNow' = Reverse(redoStack)
    BY <1>1, <1>2, MappingAtRest
  <2>7. Line!Front(PastNow) = undoStack /\ Line!Last(PastNow) = old
    BY <2>2 DEF Line!Front, Line!Last, Front, Last
  <2> QED BY <1>4, <1>5, <2>2, <2>5, <2>6, <2>7 DEF Line!Undo
<1>7. CASE request.kind = "redo"
  <2>1. PastNow = Front(undoStack) /\ FutureNow = Reverse(Append(redoStack, old))
    BY <1>1, <1>7, MappingOfRedo
  <2>2. FutureNow = <<old>> \o Reverse(redoStack) /\ Reverse(redoStack) \in History
    BY <1>1, <1>2, <2>1, ReverseOfAppend, ReverseProperties DEF History
  <2>3. FutureNow # << >> /\ Head(FutureNow) = old /\ Tail(FutureNow) = Reverse(redoStack)
    BY <1>1, <2>2, HeadAndTailOfCons DEF History
  <2>4. undoStack # << >> /\ Last(undoStack) = ReadSoFar
    BY <1>1, <1>3, <1>7 DEF UndoInv, PushedIsRead
  <2>5. undoStack = Append(PastNow, ReadSoFar)
    BY <1>2, <2>1, <2>4, FrontAndLast DEF History
  <2>6. PastNow' = undoStack /\ FutureNow' = Reverse(redoStack)
    BY <1>1, <1>2, MappingAtRest
  <2> QED BY <1>4, <1>5, <2>3, <2>5, <2>6 DEF Line!Redo
<1> QED BY <1>1, <1>6, <1>7

\* However the program's own writes and restarts fall between the steps of a request, undo and
\* redo walk one line of versions, and a new edit forks it (history.ts, undoSnapshot.ts).
THEOREM UndoStaysLinear == UndoSpec => UndoIsLinear
<1>1. UndoInit => Line!LinearInit
  <2> SUFFICES ASSUME UndoInit PROVE Line!LinearInit
    OBVIOUS
  <2>1. ~IsUndoing /\ Reverse(<< >>) = << >>
    BY DEF UndoInit, Idle, IsUndoing, Reverse
  <2> QED BY <2>1, MappingAtRest DEF UndoInit, Line!LinearInit
<1>2. UndoInv /\ [UndoNext]_undoVars => [Line!LinearNext]_(Line!historyVars)
  <2> SUFFICES ASSUME UndoInv, [UndoNext]_undoVars PROVE [Line!LinearNext]_(Line!historyVars)
    OBVIOUS
  <2>1. CASE UNCHANGED undoVars
    BY <2>1 DEF undoVars, Line!historyVars, PastNow, FutureNow, ReadSoFar, RestoredText, AtStep,
                IsUndoing
  <2>2. CASE Reboots
    BY <2>2 DEF Reboots, Line!Reboot, Line!LinearNext
  <2> QED BY <2>1, <2>2, QuietSteps, PushForks, RestoringIsOnTheLine DEF UndoNext, Line!LinearNext
<1> QED BY <1>1, <1>2, UndoBegins, NextKeepsUndo, PTL DEF UndoSpec, UndoIsLinear, Line!LinearSpec

-----------------------------------------------------------------------------
(* EntryMigration.  What is behind the tool is migrated and what is before *)
(* it is as it was read, so the property of the document is a property of  *)
(* one entry and one answer of the library, taken apart by the entry's     *)
(* spelling.                                                               *)

\* A text that was read and the document that is made of it, as far as the tool has come.
ToolState == [step : {"idle", "resolves", "locks", "writes", "fills"}, read : Seq(EntryLine),
              doc : Seq(EntryLine), at : Nat, dirty : BOOLEAN]

MigratedTo(before, after) == \E answer \in LibraryAnswers(before) : after = Migrated(before, answer)

\* What is behind the tool is migrated, what is before it is as it was read.
MigrationInv ==
    /\ lines \in Seq(EntryLine) /\ tool \in ToolState
    /\ Len(tool.doc) = Len(tool.read)
    /\ \A n \in DOMAIN tool.doc : IF n < tool.at THEN MigratedTo(tool.read[n], tool.doc[n])
                                  ELSE tool.doc[n] = tool.read[n]

LEMMA FieldsOfLines ==
    ASSUME NEW e \in EntryLine
    PROVE  /\ e.mapping \in BOOLEAN /\ e.key \in DOMAIN Caption \cup {None}
           /\ e.coll \in Collection \cup {None} /\ e.title \in TitleText \cup {None}
           /\ ~e.mapping => e.coll = None /\ (e.key = None \/ e.title = None)
BY DEF EntryLine

\* splitValue, on the spellings there are.
LEMMA SplitLine ==
    ASSUME NEW e \in EntryLine
    PROVE  /\ Split(e) \in [set : {e.set}, mapping : {e.mapping}, key : {e.key},
                            coll : Collection \cup {None}, title : TitleText \cup {None}, rest : {e.rest}]
           /\ e.coll = None /\ e.key = None /\ Prefixed(e) =>
                 /\ Split(e).coll = [name |-> e.title.name, hint |-> e.title.hint]
                 /\ Split(e).coll # None /\ Split(e).title = None
           /\ ~(e.coll = None /\ e.key = None /\ Prefixed(e)) => Split(e) = e
<1>1. CASE e.coll = None /\ e.key = None /\ Prefixed(e)
  <2>1. [name |-> e.title.name, hint |-> e.title.hint] \in Collection
    BY <1>1, FieldsOfLines DEF Prefixed, TitleText, Collection
  <2>2. Split(e) = [e EXCEPT !.coll = [name |-> e.title.name, hint |-> e.title.hint], !.title = None]
    BY <1>1 DEF Split
  <2> QED BY <1>1, <2>1, <2>2, MigrationAssumption DEF EntryLine
<1>2. CASE ~(e.coll = None /\ e.key = None /\ Prefixed(e))
  <2>1. Split(e) = e
    BY <1>2 DEF Split
  <2> QED BY <1>2, <2>1 DEF EntryLine
<1> QED BY <1>1, <1>2

LEMMA AnswersAreTyped ==
    ASSUME NEW e \in EntryLine, NEW answer \in LibraryAnswers(e), answer # None
    PROVE  \/ /\ Split(e).coll = None /\ Split(e).key # None /\ Split(e).title = None
              /\ answer = Caption[e.key] /\ answer \in TitleText
           \/ /\ Split(e).coll = None /\ Split(e).key = None /\ Split(e).title # None
              /\ answer = Lookup[Split(e).title.name] /\ answer \in DOMAIN Caption
<1> DEFINE s == Split(e)
<1>1. s.key = e.key /\ s.title \in TitleText \cup {None} /\ s.key \in DOMAIN Caption \cup {None}
  BY SplitLine, FieldsOfLines
<1>2. \/ s.coll = None /\ s.key # None /\ s.title = None /\ answer = Caption[s.key]
      \/ s.coll = None /\ s.key = None /\ s.title # None /\ answer = Lookup[s.title.name]
  BY DEF LibraryAnswers
<1> HIDE DEF s
<1>3. s.title # None => s.title.name \in DOMAIN Lookup
  BY <1>1 DEF TitleText
<1>4. s.key # None => Caption[s.key] \in TitleText \cup {None}
  BY <1>1, MigrationAssumption
<1>5. s.title # None => Lookup[s.title.name] \in DOMAIN Caption \cup {None}
  BY <1>3, MigrationAssumption
<1> QED BY <1>1, <1>2, <1>4, <1>5 DEF s

\* What one line may become.
LEMMA MigratedLine ==
    ASSUME NEW e \in EntryLine, NEW answer \in LibraryAnswers(e)
    PROVE  LET s == Split(e) new == Migrated(e, answer) IN
           \/ new = e /\ ~Rewritten(e, answer)
           \/ new = [s EXCEPT !.mapping = TRUE] /\ (s.coll # None \/ answer = None)
              /\ (s.coll # None \/ s.key # None \/ s.title # None)
           \/ s = e /\ e.coll = None /\ e.key # None /\ e.title = None /\ ~e.mapping
              /\ answer = Caption[e.key] /\ answer \in TitleText
              /\ new = [e EXCEPT !.mapping = TRUE, !.title = answer]
           \/ s = e /\ e.coll = None /\ e.key = None /\ e.title # None
              /\ answer = Lookup[e.title.name] /\ answer \in DOMAIN Caption /\ answer # None
              /\ new = [e EXCEPT !.mapping = TRUE, !.key = answer]
<1> DEFINE s == Split(e)
           new == Migrated(e, answer)
<1>1. CASE ~Rewritten(e, answer)
  BY <1>1 DEF Migrated
<1>2. CASE Rewritten(e, answer) /\ (s.coll # None \/ answer = None)
  <2>1. new = [s EXCEPT !.mapping = TRUE]
    BY <1>2 DEF Migrated
  <2>2. s.coll # None \/ s.key # None \/ s.title # None
    BY <1>2 DEF Rewritten, Verdict
  <2> QED BY <1>2, <2>1, <2>2
<1>3. CASE Rewritten(e, answer) /\ s.coll = None /\ answer # None
  <2>1. s = e
    BY <1>3, SplitLine
  <2>2. CASE s.key # None
    <3>1. answer = Caption[e.key] /\ answer \in TitleText /\ e.title = None
      BY <1>3, <2>1, <2>2, AnswersAreTyped
    <3>2. ~e.mapping
      BY <1>3, <2>2 DEF Rewritten, Verdict
    <3>3. new = [e EXCEPT !.mapping = TRUE, !.title = answer]
      BY <1>3, <2>1, <2>2 DEF Migrated
    <3> QED BY <1>3, <2>1, <2>2, <3>1, <3>2, <3>3
  <2>3. CASE s.key = None
    <3>1. answer = Lookup[e.title.name] /\ answer \in DOMAIN Caption /\ e.title # None
      BY <1>3, <2>1, <2>3, AnswersAreTyped
    <3>2. new = [e EXCEPT !.mapping = TRUE, !.key = answer]
      BY <1>3, <2>1, <2>3 DEF Migrated
    <3> QED BY <1>3, <2>1, <2>3, <3>1, <3>2
  <2> QED BY <2>2, <2>3
<1> QED BY <1>1, <1>2, <1>3

\* Everything the invariant says of a line before and after.
IsFaithful(before, after) ==
    /\ after \in EntryLine
    /\ after.set = before.set /\ after.rest = before.rest
    /\ ~Hinted(before) /\ ~Misreads(before) => Names(after) = Names(before)
    /\ LineKey(after) = LineKey(before) \/ (before.key = None /\ after.key # None)

LEMMA FaithfulToItself == \A e \in EntryLine : IsFaithful(e, e)
BY DEF IsFaithful

LEMMA MigratedIsFaithful ==
    ASSUME NEW e \in EntryLine, NEW answer \in LibraryAnswers(e), NEW new, new = Migrated(e, answer)
    PROVE  IsFaithful(e, new) /\ (LineKey(new) # None => Played(new) /\ ~Rewritten(new, None))
<1> DEFINE s == Split(e)
<1>1. CASE new = e /\ ~Rewritten(e, answer)
  <2>1. LineKey(e) # None => e.mapping /\ ~Rewritten(e, None)
    <3> SUFFICES ASSUME LineKey(e) # None PROVE e.mapping /\ ~Rewritten(e, None)
      OBVIOUS
    <3>1. Verdict(e, answer) = "keep" \/ (Verdict(e, answer) = "unresolved" /\ e.mapping)
      BY <1>1 DEF Rewritten
    <3>2. CASE s.coll # None
      BY <3>1, <3>2 DEF Verdict, Rewritten
    <3>3. CASE s.coll = None /\ s.key # None
      BY <3>1, <3>3 DEF Verdict, Rewritten
    <3>4. CASE s.coll = None /\ s.key = None /\ s.title # None
      BY <3>1, <3>4 DEF Verdict, Rewritten
    <3>5. CASE s.coll = None /\ s.key = None /\ s.title = None
      <4>1. s = e
        BY <3>5, SplitLine
      <4> QED BY <3>5, <4>1 DEF LineKey
    <3> QED BY <3>2, <3>3, <3>4, <3>5
  <2> QED BY <1>1, <2>1, FaithfulToItself DEF Played
<1>2. CASE /\ new = [s EXCEPT !.mapping = TRUE] /\ (s.coll # None \/ answer = None)
           /\ s.coll # None \/ s.key # None \/ s.title # None
  <2>1. CASE e.coll = None /\ e.key = None /\ Prefixed(e)
    <3>1. /\ s.coll = [name |-> e.title.name, hint |-> e.title.hint] /\ s.coll # None /\ s.title = None
          /\ s.key = None /\ s.set = e.set /\ s.rest = e.rest /\ s.coll \in Collection
      BY <2>1, SplitLine
    <3>2. /\ new.coll = [name |-> e.title.name, hint |-> e.title.hint] /\ new.coll # None
          /\ new.title = None /\ new.key = None /\ new.mapping = TRUE
          /\ new.set = e.set /\ new.rest = e.rest /\ new.coll \in Collection
          /\ new = [set |-> e.set, mapping |-> TRUE, key |-> None, coll |-> new.coll,
                    title |-> None, rest |-> e.rest]
      BY <1>2, <3>1, SplitLine
    <3>3. new \in EntryLine
      BY <3>2 DEF EntryLine
    <3>4. e.title \in TitleText /\ e.title.prefix
      BY <2>1, FieldsOfLines DEF Prefixed
    <3>5. Names(new) = [collection |-> new.coll]
      BY <3>2 DEF Names, NamedCollection
    <3>6. NamedCollection(e) = [name |-> e.title.name, hint |-> FALSE] /\ NamedCollection(e) # None
      <4>1. [name |-> e.title.name, hint |-> FALSE] \in Collection
        BY <3>4 DEF TitleText, Collection
      <4> QED BY <2>1, <4>1, MigrationAssumption DEF NamedCollection
    <3>7. ~Hinted(e) => e.title.hint = FALSE
      BY <2>1, <3>4, <3>6 DEF Hinted, Prefixed, TitleText
    <3>8. ~Hinted(e) => Names(new) = Names(e)
      BY <3>2, <3>5, <3>6, <3>7 DEF Names
    <3>9. LineKey(new) = LineKey(e)
      <4>1. LineKey(new) = [name |-> e.title.name, prefix |-> TRUE, hint |-> e.title.hint]
        BY <3>2 DEF LineKey
      <4>2. LineKey(e) = e.title
        BY <2>1 DEF LineKey
      <4>3. e.title = [name |-> e.title.name, prefix |-> TRUE, hint |-> e.title.hint]
        BY <3>4 DEF TitleText
      <4> QED BY <4>1, <4>2, <4>3
    <3>10. ~Rewritten(new, None)
      <4>1. Split(new) = new
        BY <3>2 DEF Split
      <4> QED BY <3>2, <4>1 DEF Rewritten, Verdict
    <3> QED BY <3>2, <3>3, <3>8, <3>9, <3>10 DEF IsFaithful, Played
  <2>2. CASE ~(e.coll = None /\ e.key = None /\ Prefixed(e))
    <3>1. s = e
      BY <2>2, SplitLine
    <3>2. /\ new.coll = e.coll /\ new.key = e.key /\ new.title = e.title /\ new.mapping = TRUE
          /\ new.set = e.set /\ new.rest = e.rest /\ new \in EntryLine
      BY <1>2, <3>1 DEF EntryLine
    <3>3. Names(new) = Names(e) /\ LineKey(new) = LineKey(e)
      BY <3>2 DEF Names, NamedCollection, Prefixed, LineKey
    <3>4. ~Rewritten(new, None)
      <4>1. Split(new) = new
        BY <2>2, <3>2 DEF Split, Prefixed
      <4> QED BY <3>2, <4>1 DEF Rewritten, Verdict
    <3> QED BY <3>2, <3>3, <3>4 DEF IsFaithful, Played
  <2> QED BY <2>1, <2>2
<1>3. CASE /\ s = e /\ e.coll = None /\ e.key # None /\ e.title = None /\ ~e.mapping
           /\ answer = Caption[e.key] /\ answer \in TitleText
           /\ new = [e EXCEPT !.mapping = TRUE, !.title = answer]
  <2>1. /\ new.coll = None /\ new.key = e.key /\ new.title = answer /\ new.mapping = TRUE
        /\ new.set = e.set /\ new.rest = e.rest /\ new \in EntryLine
    BY <1>3 DEF EntryLine
  <2>2. answer # None
    BY <1>3, MigrationAssumption
  <2>3. ~Misreads(e) => Names(new) = Names(e)
    <3>1. ~Misreads(e) => ~answer.prefix
      BY <1>3, <2>2 DEF Misreads
    <3> QED BY <1>3, <2>1, <3>1 DEF Names, NamedCollection, Prefixed
  <2>4. LineKey(new) = LineKey(e)
    BY <1>3, <2>1 DEF LineKey
  <2>5. ~Rewritten(new, None)
    <3>1. Split(new) = new
      BY <1>3, <2>1 DEF Split
    <3> QED BY <1>3, <2>1, <3>1 DEF Rewritten, Verdict
  <2> QED BY <2>1, <2>3, <2>4, <2>5 DEF IsFaithful, Played
<1>4. CASE /\ s = e /\ e.coll = None /\ e.key = None /\ e.title # None
           /\ answer = Lookup[e.title.name] /\ answer \in DOMAIN Caption /\ answer # None
           /\ new = [e EXCEPT !.mapping = TRUE, !.key = answer]
  <2>1. /\ new.coll = None /\ new.key = answer /\ new.title = e.title /\ new.mapping = TRUE
        /\ new.set = e.set /\ new.rest = e.rest /\ new \in EntryLine
    BY <1>4 DEF EntryLine
  <2>2. ~Prefixed(e)
    <3>1. Prefixed(e) => s.coll # None
      BY <1>4, SplitLine
    <3> QED BY <1>4, <3>1
  <2>3. Names(new) = Names(e)
    BY <1>4, <2>1, <2>2 DEF Names, NamedCollection, Prefixed
  <2>4. ~Rewritten(new, None)
    <3>1. Split(new) = new
      BY <1>4, <2>1 DEF Split
    <3> QED BY <1>4, <2>1, <3>1 DEF Rewritten, Verdict
  <2> QED BY <1>4, <2>1, <2>3, <2>4 DEF IsFaithful, Played
<1> QED BY <1>1, <1>2, <1>3, <1>4, MigratedLine

LEMMA MigrationBegins == MigrationInit => MigrationInv
<1> SUFFICES ASSUME MigrationInit PROVE MigrationInv
  OBVIOUS
<1>1. lines \in Seq(EntryLine)
  BY MigrationAssumption DEF MigrationInit
<1>2. tool \in ToolState /\ tool.doc = << >> /\ tool.read = << >>
  BY DEF MigrationInit, NoTool, ToolState
<1> QED BY <1>1, <1>2 DEF MigrationInv

LEMMA NextKeepsMigration == MigrationInv /\ [MigrationNext]_migrationVars => MigrationInv'
<1> SUFFICES ASSUME MigrationInv, [MigrationNext]_migrationVars PROVE MigrationInv'
  OBVIOUS
<1>1. ASSUME ToolReads PROVE MigrationInv'
  <2>1. tool' = [step |-> "resolves", read |-> lines, doc |-> lines, at |-> 1, dirty |-> FALSE] /\ lines' = lines
    BY <1>1 DEF ToolReads
  <2>2. tool' \in ToolState /\ tool'.doc = tool'.read
    BY <2>1 DEF MigrationInv, ToolState
  <2>3. \A n \in DOMAIN tool'.doc : ~(n < tool'.at)
    <3>1. DOMAIN tool'.doc = 1..Len(lines) /\ Len(lines) \in Nat /\ tool'.at = 1
      BY <2>1 DEF MigrationInv
    <3> QED BY <3>1
  <2> QED BY <2>1, <2>2, <2>3 DEF MigrationInv
<1>2. ASSUME ToolResolves PROVE MigrationInv'
  <2> DEFINE e == tool.read[tool.at]
             k == tool.at
  <2>1. /\ tool \in ToolState /\ k \in Nat /\ k <= Len(tool.read) /\ Len(tool.doc) = Len(tool.read)
        /\ tool.read \in Seq(EntryLine) /\ tool.doc \in Seq(EntryLine) /\ tool.dirty \in BOOLEAN
    BY <1>2 DEF ToolResolves, MigrationInv, ToolState
  <2>2. PICK answer \in LibraryAnswers(e) :
            tool' = [tool EXCEPT !.doc[k] = Migrated(e, answer), !.at = k + 1,
                                 !.dirty = tool.dirty \/ Rewritten(e, answer)]
    BY <1>2 DEF ToolResolves
  <2> DEFINE doc == [tool.doc EXCEPT ![k] = Migrated(e, answer)]
             dirty == tool.dirty \/ Rewritten(e, answer)
  <2>3. dirty \in BOOLEAN
    OBVIOUS
  <2>4. ASSUME NEW n \in DOMAIN tool.doc, n = k PROVE e \in EntryLine /\ Migrated(e, answer) \in EntryLine
    <3>1. e \in EntryLine
      BY <2>1, <2>4
    <3> QED BY <3>1, MigratedIsFaithful DEF IsFaithful
  <2>5. doc \in Seq(EntryLine) /\ Len(doc) = Len(tool.doc) /\ DOMAIN doc = DOMAIN tool.doc
    <3>1. DOMAIN tool.doc = 1..Len(tool.doc) /\ Len(tool.doc) \in Nat
      BY <2>1
    <3>2. \A n \in DOMAIN tool.doc : doc[n] \in EntryLine
      BY <2>1, <2>4
    <3>3. doc \in [1..Len(tool.doc) -> EntryLine]
      BY <3>1, <3>2
    <3> HIDE DEF doc
    <3> QED BY <3>1, <3>3
  <2>6. \A n \in DOMAIN tool.doc : doc[n] = IF n = k THEN Migrated(e, answer) ELSE tool.doc[n]
    OBVIOUS
  <2>7. tool' \in ToolState /\ tool'.doc = doc /\ tool'.read = tool.read /\ tool'.at = k + 1
    <3>1. tool' = [tool EXCEPT !.doc = doc, !.at = k + 1, !.dirty = dirty]
      BY <2>2
    <3>2. k + 1 \in Nat
      BY <2>1
    <3> HIDE DEF doc, dirty, k
    <3>3. tool'.doc = doc /\ tool'.read = tool.read /\ tool'.at = k + 1
      BY <2>1, <3>1 DEF ToolState
    <3>4. tool' \in ToolState
      BY <2>1, <2>3, <2>5, <3>1, <3>2 DEF ToolState
    <3> QED BY <3>3, <3>4
  <2>8. ASSUME NEW n \in DOMAIN doc
        PROVE  IF n < k + 1 THEN MigratedTo(tool.read[n], doc[n]) ELSE doc[n] = tool.read[n]
    <3>1. n \in Nat /\ n \in DOMAIN tool.doc
      BY <2>1, <2>5
    <3>2. CASE n = k
      <4>1. doc[n] = Migrated(tool.read[n], answer) /\ answer \in LibraryAnswers(tool.read[n])
        BY <2>6, <3>1, <3>2
      <4> QED BY <2>1, <3>2, <4>1 DEF MigratedTo
    <3>3. CASE n # k
      <4>1. doc[n] = tool.doc[n] /\ (n < k + 1 <=> n < k)
        BY <2>1, <2>6, <3>1, <3>3
      <4> QED BY <3>1, <4>1 DEF MigrationInv
    <3> QED BY <3>2, <3>3
  <2>9. lines' = lines
    BY <1>2 DEF ToolResolves
  <2> HIDE DEF doc, k
  <2> QED BY <2>1, <2>5, <2>7, <2>8, <2>9 DEF MigrationInv
<1>3. ASSUME tool' = NoTool, lines' = lines \/ lines' = tool.doc PROVE MigrationInv'
  <2>1. tool' \in ToolState /\ tool'.doc = << >> /\ tool'.read = << >>
    BY <1>3 DEF NoTool, ToolState
  <2>2. lines' \in Seq(EntryLine)
    BY <1>3 DEF MigrationInv, ToolState
  <2> QED BY <2>1, <2>2 DEF MigrationInv
<1>4. ASSUME NEW step \in {"locks", "writes", "fills"}, tool' = [tool EXCEPT !.step = step],
             lines' = lines \/ lines' = << >>
      PROVE  MigrationInv'
  <2>1. /\ tool' \in ToolState /\ tool'.doc = tool.doc /\ tool'.read = tool.read /\ tool'.at = tool.at
    BY <1>4 DEF MigrationInv, ToolState
  <2>2. lines' \in Seq(EntryLine)
    <3>1. << >> \in Seq(EntryLine)
      OBVIOUS
    <3> QED BY <1>4, <3>1 DEF MigrationInv
  <2> QED BY <2>1, <2>2 DEF MigrationInv
<1>5. ASSUME NEW n, NEW setting \in Settings, AppSaves(n, setting) PROVE MigrationInv'
  <2>1. tool' = tool
    BY <1>5 DEF AppSaves
  <2>2. lines' \in Seq(EntryLine)
    <3>1. CASE lines' = lines
      BY <3>1 DEF MigrationInv
    <3>2. CASE n \in DOMAIN lines /\ lines' = [lines EXCEPT ![n].mapping = TRUE, ![n].rest = setting]
      <4> DEFINE new == [lines[n] EXCEPT !.mapping = TRUE, !.rest = setting]
      <4>1. lines[n] \in EntryLine /\ DOMAIN lines = 1..Len(lines) /\ Len(lines) \in Nat
        BY <3>2 DEF MigrationInv
      <4>2. new \in EntryLine
        BY <4>1 DEF EntryLine
      <4>3. lines' = [lines EXCEPT ![n] = new]
        BY <3>2
      <4> HIDE DEF new
      <4>4. \A k \in 1..Len(lines) : lines'[k] \in EntryLine
        BY <4>1, <4>2, <4>3 DEF MigrationInv
      <4>5. lines' \in [1..Len(lines) -> EntryLine]
        BY <4>1, <4>3, <4>4
      <4> QED BY <4>1, <4>5
    <3> QED BY <1>5, <3>1, <3>2 DEF AppSaves, Addressed
  <2> QED BY <2>1, <2>2 DEF MigrationInv
<1>6. ASSUME AppLocks \/ UNCHANGED migrationVars PROVE MigrationInv'
  BY <1>6 DEF AppLocks, migrationVars, MigrationInv
<1> QED BY <1>1, <1>2, <1>3, <1>4, <1>5, <1>6
        DEF MigrationNext, ToolReports, ToolBacksUp, ToolLocks, ToolTimesOut, ToolTruncates,
            ToolFills, ToolDies

\* For any file, library and sets, with outages, kills of the tool and edits of the app in
\* between: what the tool has made of a line names what the line named, keeps its identity and
\* all it carries beside it, is played, and is left alone by a second pass (migrateDocument,
\* describe, entryKey).
THEOREM MigrationStaysFaithful == MigrationSpec => []MigrationIsFaithful
<1>1. MigrationInv => MigrationIsFaithful
  <2> SUFFICES ASSUME MigrationInv PROVE MigrationIsFaithful
    OBVIOUS
  <2>1. /\ Len(tool.doc) = Len(tool.read) /\ tool.doc \in Seq(EntryLine) /\ tool.read \in Seq(EntryLine)
    BY DEF MigrationInv, ToolState
  <2>2. ASSUME NEW n \in DOMAIN tool.doc
        PROVE  /\ IsFaithful(tool.read[n], tool.doc[n])
               /\ n < tool.at /\ LineKey(tool.doc[n]) # None =>
                      Played(tool.doc[n]) /\ ~Rewritten(tool.doc[n], None)
    <3>1. tool.read[n] \in EntryLine
      BY <2>1
    <3>2. CASE n < tool.at
      <4>1. PICK answer \in LibraryAnswers(tool.read[n]) : tool.doc[n] = Migrated(tool.read[n], answer)
        BY <3>2 DEF MigrationInv, MigratedTo
      <4> QED BY <3>1, <4>1, MigratedIsFaithful
    <3>3. CASE ~(n < tool.at)
      BY <3>1, <3>3, FaithfulToItself DEF MigrationInv
    <3> QED BY <3>2, <3>3
  <2> QED BY <2>1, <2>2 DEF MigrationIsFaithful, IsFaithful
<1> QED BY <1>1, MigrationBegins, NextKeepsMigration, PTL DEF MigrationSpec

-----------------------------------------------------------------------------
(* GameShelf.  A game is passed over by a reference a tab took to the file *)
(* some time ago, so the invariant says of every stamp, in the file and in *)
(* a tab, that it is no older than the first launch that met the entry.    *)

ARef == {r \in [id : GameSet, batch : Nat, queuedAt : Nat] : r.batch = Owes[r.id]}
Opening == [step : {"none", "stamp"}, todo : Seq(ARef), refs : Seq(ARef)]

PlaysSince(g, at) == {t \in log[g] : t >= at}

GameTypes ==
    /\ clock \in Nat \ {0}
    /\ log \in [GameSet -> SUBSET (1..clock)]
    /\ queued \subseteq GameSet
    /\ stamp \in [GameSet -> Nat] /\ since \in [GameSet -> 0..clock]
    /\ memo \in [known : BOOLEAN, last : [GameSet -> Nat], owned : SUBSET GameSet]
    /\ owned \subseteq GameSet
    /\ open \in [Tabs -> Opening]
    /\ "passed" \in DOMAIN card /\ card.passed \subseteq GameSet

\* A stamp is of a launch, and no older than the first of its entry.
IsSince(g, at) == since[g] > 0 /\ (at > 0 => at >= since[g])

StampsAreSince == \A g \in GameSet : stamp[g] > 0 => IsSince(g, stamp[g])

LaunchIsSince(t) ==
    /\ \A n \in DOMAIN open[t].todo :
          open[t].todo[n].id \in queued => IsSince(open[t].todo[n].id, open[t].todo[n].queuedAt)
    /\ \A n \in DOMAIN open[t].refs :
          open[t].refs[n].id \in queued =>
              /\ IsSince(open[t].refs[n].id, open[t].refs[n].queuedAt)
              /\ kind # "mister" => open[t].refs[n].queuedAt > 0

\* What Steam's client remembers has been.
MemoHasBeen == \A g \in GameSet : memo.last[g] \in log[g] \cup {0}

PassedHasBeenPlayed ==
    \A g \in card.passed \cap queued :
        since[g] > 0 /\ Cardinality(PlaysSince(g, since[g])) >= OwedBy(Ref(g, 0))

GameInv ==
    /\ GameTypes /\ StampsAreSince /\ (\A t \in Tabs : LaunchIsSince(t))
    /\ MemoHasBeen /\ PassedHasBeenPlayed

LEMMA LatestIsOne ==
    ASSUME NEW times, NEW c \in Nat, times \subseteq 1..c, times # {}
    PROVE  Latest(times) \in times
<1> DEFINE Above == {n \in 0..c : \A u \in times : u <= n}
<1>1. c \in Above
  OBVIOUS
<1>2. PICK m \in Above : \A n \in Above : ~(n < m)
  BY <1>1, LeastNumber, Above \subseteq Nat
<1>3. m \in times
  <2> SUFFICES ASSUME m \notin times PROVE FALSE
    OBVIOUS
  <2>1. m # 0
    <3>1. PICK u \in times : TRUE
      OBVIOUS
    <3>2. u >= 1 /\ u <= m
      BY <3>1
    <3> QED BY <3>2
  <2>2. m - 1 \in Above
    BY <2>1
  <2> QED BY <1>2, <2>2
<1>4. \E t \in times : \A u \in times : u <= t
  BY <1>3
<1> QED BY <1>4 DEF Latest

LEMMA PlaysAreFinite ==
    ASSUME GameTypes, NEW g \in GameSet, NEW S, S \subseteq log[g]
    PROVE  IsFiniteSet(S) /\ Cardinality(S) \in Nat
<1>1. IsFiniteSet(1..clock)
  <2>1. 1 \in Int /\ clock \in Int
    BY DEF GameTypes
  <2> QED BY ONLY <2>1, FS_Interval
<1>2. S \subseteq 1..clock
  BY DEF GameTypes
<1> QED BY <1>1, <1>2, FS_Subset, FS_CardinalityType

LEMMA MorePlays ==
    ASSUME GameTypes, NEW g \in GameSet, NEW S, NEW T, S \subseteq T, T \subseteq log[g]
    PROVE  Cardinality(S) <= Cardinality(T) /\ Cardinality(S) \in Nat /\ Cardinality(T) \in Nat
BY PlaysAreFinite, FS_Subset

LEMMA NoLaunch == NoOpen \in Opening
BY EmptySeq DEF Opening, NoOpen

LEMMA PickedFromThere ==
    ASSUME NEW S, NEW seq \in Seq(S), NEW places
    PROVE  /\ Picked(seq, places) \in Seq(S)
           /\ \A n \in DOMAIN Picked(seq, places) :
                 \E p \in places \cap DOMAIN seq : Picked(seq, places)[n] = seq[p]
<1>1. PICK from : PicksBy(Picked(seq, places), seq, places, Len(seq), from)
  BY PickedPicks
<1>2. Picked(seq, places) \in Seq(S)
  BY PickedPicks
<1>3. ASSUME NEW n \in DOMAIN Picked(seq, places)
      PROVE  \E p \in places \cap DOMAIN seq : Picked(seq, places)[n] = seq[p]
  <2>1. n \in 1..Len(Picked(seq, places))
    BY <1>2
  <2>2. from[n] \in places \cap (1..Len(seq)) /\ Picked(seq, places)[n] = seq[from[n]]
    BY <1>1, <2>1 DEF PicksBy
  <2> QED BY <2>2
<1> QED BY <1>2, <1>3

(* What a tab has in hand stays right while its entries stay.              *)
LEMMA LaunchStays ==
    ASSUME NEW u \in Tabs, open[u] \in Opening, open'[u] = open[u], LaunchIsSince(u), kind' = kind,
           \A g \in GameSet : g \in queued' /\ since[g] > 0 => g \in queued /\ since'[g] = since[g],
           queued' \subseteq queued
    PROVE  LaunchIsSince(u)'
<1>1. ASSUME NEW n \in DOMAIN open[u].todo, open[u].todo[n].id \in queued'
      PROVE  IsSince(open[u].todo[n].id, open[u].todo[n].queuedAt)'
  <2>1. open[u].todo[n].id \in GameSet
    BY <1>1 DEF Opening, ARef
  <2>2. IsSince(open[u].todo[n].id, open[u].todo[n].queuedAt)
    BY <1>1 DEF LaunchIsSince
  <2> QED BY <1>1, <2>1, <2>2 DEF IsSince
<1>2. ASSUME NEW n \in DOMAIN open[u].refs, open[u].refs[n].id \in queued'
      PROVE  /\ IsSince(open[u].refs[n].id, open[u].refs[n].queuedAt)'
             /\ kind # "mister" => open[u].refs[n].queuedAt > 0
  <2>1. open[u].refs[n].id \in GameSet
    BY <1>2 DEF Opening, ARef
  <2>2. /\ IsSince(open[u].refs[n].id, open[u].refs[n].queuedAt)
        /\ kind # "mister" => open[u].refs[n].queuedAt > 0
    BY <1>2 DEF LaunchIsSince
  <2> QED BY <1>2, <2>1, <2>2 DEF IsSince
<1> QED BY <1>1, <1>2 DEF LaunchIsSince

LEMMA GameBegins == GameInit => GameInv
<1> SUFFICES ASSUME GameInit PROVE GameInv
  OBVIOUS
<1>1. GameTypes
  <2>1. log \in [GameSet -> SUBSET (1..clock)]
    BY DEF GameInit
  <2>2. memo \in [known : BOOLEAN, last : [GameSet -> Nat], owned : SUBSET GameSet]
    BY DEF GameInit, NoMemo
  <2>3. open \in [Tabs -> Opening]
    BY NoLaunch DEF GameInit
  <2>4. "passed" \in DOMAIN card /\ card.passed \subseteq GameSet
    BY DEF GameInit, NoCard
  <2> QED BY <2>1, <2>2, <2>3, <2>4 DEF GameTypes, GameInit
<1>2. StampsAreSince
  BY DEF StampsAreSince, GameInit
<1>3. \A t \in Tabs : LaunchIsSince(t)
  BY DEF LaunchIsSince, GameInit, NoOpen
<1>4. MemoHasBeen
  BY DEF MemoHasBeen, GameInit, NoMemo
<1>5. PassedHasBeenPlayed
  BY DEF PassedHasBeenPlayed, GameInit, NoCard
<1> QED BY <1>1, <1>2, <1>3, <1>4, <1>5 DEF GameInv

-----------------------------------------------------------------------------
(* A launch.                                                               *)

LEMMA FollowKeeps ==
    ASSUME GameInv, NEW t \in Tabs, Follow(t)
    PROVE  GameInv'
<1> USE DEF Follow
<1>1. Listed \in Seq(GameSet) /\ \A n \in DOMAIN Listed : Listed[n] \in queued
  BY GameAssumption, PickedFromThere DEF Listed
<1> DEFINE todo == [n \in DOMAIN Listed |-> Ref(Listed[n], stamp[Listed[n]])]
<1>2. \A n \in DOMAIN Listed : todo[n] \in ARef
  BY <1>1, GameAssumption DEF Ref, ARef, GameInv, GameTypes
<1>3. todo \in Seq(ARef)
  BY <1>1, <1>2
<1>4. open' = [open EXCEPT ![t] = [step |-> "stamp", todo |-> todo, refs |-> << >>]]
  OBVIOUS
<1>5. open' \in [Tabs -> Opening]
  BY <1>3, <1>4, EmptySeq DEF GameInv, GameTypes, Opening
<1>6. since' \in [GameSet -> 0..clock]
  BY DEF GameInv, GameTypes
<1>7. GameTypes'
  BY <1>5, <1>6 DEF GameInv, GameTypes
<1>8. \A g \in GameSet : since[g] > 0 => since'[g] = since[g]
  BY DEF GameInv, GameTypes
<1>9. StampsAreSince'
  BY <1>8 DEF GameInv, StampsAreSince, IsSince
<1>10. ASSUME NEW u \in Tabs PROVE LaunchIsSince(u)'
  <2>1. CASE u # t
    <3>1. open'[u] = open[u] /\ open[u] \in Opening
      BY <2>1 DEF GameInv, GameTypes
    <3> QED BY <3>1, <1>8, LaunchStays DEF GameInv
  <2>2. CASE u = t
    <3>1. open'[t] = [step |-> "stamp", todo |-> todo, refs |-> << >>]
      BY <1>4 DEF GameInv, GameTypes
    <3>2. ASSUME NEW n \in DOMAIN Listed
          PROVE  since'[Listed[n]] > 0 /\ (stamp[Listed[n]] > 0 => stamp[Listed[n]] >= since'[Listed[n]])
      <4>1. Listed[n] \in GameSet /\ Listed[n] \in Range(Listed)
        BY <1>1 DEF Range
      <4>2. CASE since[Listed[n]] = 0
        <5>1. since'[Listed[n]] = clock /\ clock > 0
          BY <4>1, <4>2 DEF GameInv, GameTypes
        <5>2. ~(stamp[Listed[n]] > 0)
          BY <4>1, <4>2 DEF GameInv, GameTypes, StampsAreSince, IsSince
        <5> QED BY <5>1, <5>2
      <4>3. CASE since[Listed[n]] > 0
        <5>1. stamp[Listed[n]] > 0 => stamp[Listed[n]] >= since[Listed[n]]
          BY <4>1 DEF GameInv, StampsAreSince, IsSince
        <5>2. since'[Listed[n]] = since[Listed[n]]
          BY <4>1, <4>3, <1>8
        <5> QED BY <4>3, <5>1, <5>2
      <4>4. since[Listed[n]] \in Nat
        BY <4>1 DEF GameInv, GameTypes
      <4> QED BY <4>2, <4>3, <4>4
    <3>3. \A n \in DOMAIN todo : todo[n].id = Listed[n] /\ todo[n].queuedAt = stamp[Listed[n]]
      BY DEF Ref
    <3> HIDE DEF todo
    <3>4. open'[t].todo = todo /\ open'[t].refs = << >>
      BY <3>1
    <3>5. \A n \in DOMAIN todo : n \in DOMAIN Listed
      BY DEF todo
    <3>6. ASSUME NEW n \in DOMAIN todo
          PROVE  since'[todo[n].id] > 0 /\ (todo[n].queuedAt > 0 => todo[n].queuedAt >= since'[todo[n].id])
      BY <3>2, <3>3, <3>5
    <3> HIDE DEF Follow
    <3> QED BY <2>2, <3>4, <3>6 DEF LaunchIsSince, IsSince
  <2> QED BY <2>1, <2>2
<1>11. MemoHasBeen'
  BY DEF GameInv, MemoHasBeen
<1>12. PassedHasBeenPlayed'
  <2> SUFFICES ASSUME NEW g \in card.passed \cap queued
               PROVE  since'[g] > 0 /\ Cardinality(PlaysSince(g, since[g])') >= OwedBy(Ref(g, 0))
    BY <1>8 DEF PassedHasBeenPlayed, OwedBy, Ref, PlaysSince, GameInv, GameTypes
  <2> QED BY <1>8 DEF GameInv, GameTypes, PassedHasBeenPlayed, PlaysSince
<1> QED BY <1>7, <1>9, <1>10, <1>11, <1>12 DEF GameInv

LEMMA StampKeeps ==
    ASSUME GameInv, NEW t \in Tabs, StampNext(t)
    PROVE  GameInv'
<1> USE DEF StampNext
<1> DEFINE todo == open[t].todo
           r    == Head(todo)
           at   == StampOf(r)
<1>1. open[t] \in Opening /\ todo \in Seq(ARef) /\ todo # << >> /\ open[t].refs \in Seq(ARef)
  BY DEF GameInv, GameTypes, Opening
<1>2. r = todo[1] /\ 1 \in DOMAIN todo /\ r \in ARef /\ Tail(todo) \in Seq(ARef)
  BY <1>1
<1>3. r.id \in GameSet /\ r.queuedAt \in Nat
  BY <1>2 DEF ARef
<1>4. stamp[r.id] \in Nat /\ since[r.id] \in 0..clock /\ clock \in Nat \ {0}
  BY <1>3 DEF GameInv, GameTypes
<1>5. at \in Nat
  BY <1>3, <1>4 DEF StampOf
<1>6. r.id \in queued => IsSince(r.id, at) /\ (kind # "mister" => at > 0)
  <2>1. r.id \in queued => IsSince(r.id, r.queuedAt)
    BY <1>2 DEF GameInv, LaunchIsSince
  <2>2. stamp[r.id] > 0 => IsSince(r.id, stamp[r.id])
    BY <1>3 DEF GameInv, StampsAreSince
  <2> QED BY <1>3, <1>4, <2>1, <2>2 DEF IsSince, StampOf
<1>7. Append(open[t].refs, Ref(r.id, at)) \in Seq(ARef)
  <2>1. Ref(r.id, at) \in ARef
    BY <1>3, <1>5, GameAssumption DEF Ref, ARef
  <2> QED BY <1>1, <2>1
<1>8. open' = [open EXCEPT ![t] = [step |-> "stamp", todo |-> Tail(todo),
                                   refs |-> Append(open[t].refs, Ref(r.id, at))]]
  OBVIOUS
<1>9. open' \in [Tabs -> Opening]
  <2>1. [step |-> "stamp", todo |-> Tail(todo), refs |-> Append(open[t].refs, Ref(r.id, at))] \in Opening
    BY <1>2, <1>7 DEF Opening
  <2> QED BY <1>8, <2>1 DEF GameInv, GameTypes
<1>10. stamp' \in [GameSet -> Nat]
  BY <1>3, <1>5 DEF GameInv, GameTypes
<1>11. GameTypes'
  BY <1>9, <1>10 DEF GameInv, GameTypes
<1>12. \A g \in GameSet : stamp'[g] = stamp[g] \/ (g = r.id /\ r.id \in queued /\ stamp'[g] = at)
  BY <1>3 DEF GameInv, GameTypes
<1>13. StampsAreSince'
  BY <1>6, <1>12 DEF GameInv, StampsAreSince, IsSince
<1>14. ASSUME NEW u \in Tabs PROVE LaunchIsSince(u)'
  <2>1. CASE u # t
    <3>1. open'[u] = open[u]
      BY <2>1 DEF GameInv, GameTypes
    <3> QED BY <3>1, LaunchStays DEF GameInv, GameTypes
  <2>2. CASE u = t
    <3>1. open'[t].todo = Tail(todo) /\ open'[t].refs = Append(open[t].refs, Ref(r.id, at))
      BY <1>8 DEF GameInv, GameTypes
    <3>2. ASSUME NEW n \in DOMAIN Tail(todo)
          PROVE  Tail(todo)[n] = todo[n + 1] /\ n + 1 \in DOMAIN todo
      BY <1>1
    <3>3. ASSUME NEW n \in DOMAIN Append(open[t].refs, Ref(r.id, at))
          PROVE  \/ n \in DOMAIN open[t].refs /\ Append(open[t].refs, Ref(r.id, at))[n] = open[t].refs[n]
                 \/ Append(open[t].refs, Ref(r.id, at))[n] = Ref(r.id, at)
      BY <1>1
    <3>4. Ref(r.id, at).id = r.id /\ Ref(r.id, at).queuedAt = at
      BY DEF Ref
    <3>5. \A n \in DOMAIN Tail(todo) :
             Tail(todo)[n].id \in queued => IsSince(Tail(todo)[n].id, Tail(todo)[n].queuedAt)
      BY <3>2 DEF GameInv, LaunchIsSince
    <3>6. ASSUME NEW n \in DOMAIN Append(open[t].refs, Ref(r.id, at)),
                 Append(open[t].refs, Ref(r.id, at))[n].id \in queued
          PROVE  LET ref == Append(open[t].refs, Ref(r.id, at))[n] IN
                 IsSince(ref.id, ref.queuedAt) /\ (kind # "mister" => ref.queuedAt > 0)
      BY <3>3, <3>4, <3>6, <1>6 DEF GameInv, LaunchIsSince
    <3>7. queued' = queued /\ since' = since /\ kind' = kind
      OBVIOUS
    <3> HIDE DEF at, r, todo
    <3> QED BY <2>2, <3>1, <3>5, <3>6, <3>7 DEF LaunchIsSince, IsSince
  <2> QED BY <2>1, <2>2
<1>15. MemoHasBeen' /\ PassedHasBeenPlayed'
  BY DEF GameInv, MemoHasBeen, PassedHasBeenPlayed, PlaysSince, OwedBy, Ref
<1> QED BY <1>11, <1>13, <1>14, <1>15 DEF GameInv

LEMMA LibraryHasBeen ==
    ASSUME GameInv
    PROVE  /\ Library \in [known : BOOLEAN, last : [GameSet -> Nat], owned : SUBSET GameSet]
           /\ \A g \in GameSet : Library.last[g] \in log[g] \cup {0}
<1>1. ASSUME NEW g \in GameSet PROVE Latest(log[g]) \in log[g] \cup {0}
  BY LatestIsOne DEF GameInv, GameTypes, Latest
<1>2. \A g \in GameSet : Latest(log[g]) \in Nat
  BY <1>1 DEF GameInv, GameTypes
<1> QED BY <1>1, <1>2 DEF Library, GameInv, GameTypes, MemoHasBeen

\* What an entry state counts has been played since the entry was met.
LEMMA NothingLeftMeansPlayed ==
    ASSUME GameInv, NEW r \in ARef, r.id \in queued, IsSince(r.id, r.queuedAt),
           kind # "mister" => r.queuedAt > 0, EntryState(r, Library).remaining = 0
    PROVE  Cardinality(PlaysSince(r.id, since[r.id])) >= OwedBy(Ref(r.id, 0))
<1> DEFINE plays == PlaysSince(r.id, since[r.id])
<1>1. r.id \in GameSet /\ r.queuedAt \in Nat /\ r.batch = Owes[r.id] /\ r.batch \in Nat
  BY DEF ARef
<1>2. plays \subseteq log[r.id] /\ Cardinality(plays) \in Nat /\ IsFiniteSet(plays)
  BY <1>1, PlaysAreFinite DEF PlaysSince, GameInv
<1>3. OwedBy(r) = OwedBy(Ref(r.id, 0)) /\ OwedBy(r) \in Nat
  BY <1>1 DEF OwedBy, Ref
<1>4. since[r.id] \in Nat /\ log[r.id] \subseteq Nat
  BY <1>1 DEF GameInv, GameTypes
<1>5. CASE kind = "picker"
  <2>1. r.queuedAt > 0
    BY <1>5
  <2>2. {t \in log[r.id] : r.queuedAt = 0 \/ t >= r.queuedAt} \subseteq plays
    BY <1>1, <1>4, <2>1 DEF PlaysSince, IsSince
  <2>3. PlayedOnPicker(r) <= Cardinality(plays) /\ PlayedOnPicker(r) \in Nat
    BY <1>1, <1>2, <2>2, MorePlays DEF PlayedOnPicker, GameInv
  <2>4. OwedBy(r) - PlayedOnPicker(r) <= 0
    BY <1>3, <1>5, <2>3 DEF EntryState
  <2> QED BY <1>2, <1>3, <2>3, <2>4
<1>6. CASE kind = "steam"
  <2>1. OwedBy(r) = 1
    BY <1>6 DEF OwedBy
  <2>2. PlayedOnSteam(r, Library) = 1
    BY <1>6, <2>1 DEF EntryState, PlayedOnSteam
  <2>3. Library.last[r.id] > r.queuedAt /\ r.queuedAt > 0
    BY <2>2 DEF PlayedOnSteam
  <2>4. Library.last[r.id] \in log[r.id]
    BY <1>1, <2>3, LibraryHasBeen
  <2>5. Library.last[r.id] \in plays
    BY <1>1, <1>4, <2>3, <2>4 DEF PlaysSince, IsSince
  <2>6. Cardinality(plays) # 0
    BY <1>2, <2>5, FS_EmptySet
  <2> QED BY <1>2, <1>3, <2>1, <2>6
<1>7. CASE kind \notin {"picker", "steam"}
  BY <1>7 DEF EntryState, OwedBy
<1> QED BY <1>5, <1>6, <1>7

LEMMA AnswerKeeps ==
    ASSUME GameInv, NEW t \in Tabs, Answer(t)
    PROVE  GameInv'
<1> DEFINE inHand == open[t].refs
           places(refused) == {n \in DOMAIN inHand : /\ IsThere(inHand[n], Library)
                                                    /\ inHand[n].id \notin refused}
           refsOf(refused) == Picked(inHand, places(refused))
           statesOf(refused) == [n \in DOMAIN refsOf(refused) |-> EntryState(refsOf(refused)[n], Library)]
<1>1. PICK refused :
         LET states == statesOf(refused)
             head   == HeadOf(states)
             ahead  == IF head = 0 THEN DOMAIN states ELSE 1..(head - 1)
         IN  /\ card' = [passed |-> {states[n].id : n \in ahead},
                         taken |-> IF head = 0 THEN << >> ELSE TakenOf(states[head])]
             /\ memo' = IF kind = "steam" /\ refused = {} /\ refsOf(refused) # << >> THEN Library ELSE memo
  BY DEF Answer
<1> DEFINE refs   == refsOf(refused)
           states == statesOf(refused)
           head   == HeadOf(states)
           ahead  == IF head = 0 THEN DOMAIN states ELSE 1..(head - 1)
           waiting == {n \in DOMAIN states : states[n].remaining > 0}
<1>2. card'.passed = {states[n].id : n \in ahead} /\ "passed" \in DOMAIN card'
  BY <1>1
<1>3. memo' \in {Library, memo}
  BY <1>1
<1>4. open[t] \in Opening /\ inHand \in Seq(ARef) /\ open[t].step = "stamp"
  BY DEF GameInv, GameTypes, Opening, Answer
<1>5. /\ refs \in Seq(ARef)
      /\ \A n \in DOMAIN refs : \E p \in DOMAIN inHand : refs[n] = inHand[p]
  <2> DEFINE those == places(refused)
  <2> HIDE DEF those
  <2>1. /\ Picked(inHand, those) \in Seq(ARef)
        /\ \A n \in DOMAIN Picked(inHand, those) : \E p \in DOMAIN inHand : Picked(inHand, those)[n] = inHand[p]
    BY <1>4, PickedFromThere
  <2> QED BY <2>1 DEF those
<1>6. DOMAIN states = 1..Len(refs) /\ Len(refs) \in Nat
  BY <1>5
<1> HIDE DEF refs
<1>7. ASSUME NEW n \in DOMAIN refs
      PROVE  /\ states[n].id = refs[n].id /\ refs[n] \in ARef
             /\ states[n] = EntryState(refs[n], Library) /\ states[n].remaining \in Nat
  <2>1. refs[n] \in ARef
    BY <1>5
  <2>2. OwedBy(refs[n]) \in Nat
    BY <2>1 DEF OwedBy, ARef
  <2>3. PlayedOnPicker(refs[n]) \in Nat
    BY <2>1, PlaysAreFinite DEF PlayedOnPicker, GameInv, ARef
  <2>4. PlayedOnSteam(refs[n], Library) \in Nat
    BY DEF PlayedOnSteam
  <2>5. states[n] = EntryState(refs[n], Library)
    BY DEF refs
  <2>6. EntryState(refs[n], Library).id = refs[n].id
    BY DEF EntryState
  <2>7. EntryState(refs[n], Library).remaining \in Nat
    <3> DEFINE played == CASE kind = "picker" -> PlayedOnPicker(refs[n])
                           [] kind = "steam"  -> PlayedOnSteam(refs[n], Library)
                           [] OTHER           -> 0
    <3>1. played \in Nat
      BY <2>3, <2>4
    <3>2. OwedBy(refs[n]) - played \in Int
      BY <2>2, <3>1
    <3> HIDE DEF played
    <3>3. EntryState(refs[n], Library).remaining
             = IF OwedBy(refs[n]) - played > 0 THEN OwedBy(refs[n]) - played ELSE 0
      BY DEF EntryState, played
    <3> QED BY <3>2, <3>3
  <2> QED BY <2>1, <2>5, <2>6, <2>7
<1> HIDE DEF states
<1>8. ASSUME NEW n \in ahead
      PROVE  n \in DOMAIN refs /\ states[n].remaining = 0
  <2>1. CASE waiting = {}
    <3>1. head = 0
      BY <2>1 DEF HeadOf
    <3> QED BY <2>1, <3>1, <1>5, <1>6, <1>7
  <2>2. CASE waiting # {}
    <3>1. \E m \in waiting : \A k \in waiting : ~(k < m)
      BY <1>6, <2>2, LeastNumber, waiting \subseteq Nat
    <3>2. \E m \in waiting : \A k \in waiting : m <= k
      BY <1>6, <3>1
    <3>3. head = CHOOSE m \in waiting : \A k \in waiting : m <= k
      BY <2>2 DEF HeadOf
    <3>4. head \in waiting /\ \A k \in waiting : head <= k
      BY <3>2, <3>3
    <3>5. head \in 1..Len(refs)
      BY <1>6, <3>4
    <3>6. n \in 1..(head - 1)
      BY <3>5
    <3>7. n \in DOMAIN states /\ n \notin waiting
      BY <1>6, <3>4, <3>5, <3>6
    <3> QED BY <1>5, <1>6, <1>7, <3>7
  <2> QED BY <2>1, <2>2
<1>9. open' = [open EXCEPT ![t] = NoOpen]
  BY DEF Answer
<1>10. GameTypes'
  <2>1. open' \in [Tabs -> Opening]
    BY <1>9, NoLaunch DEF GameInv, GameTypes
  <2>2. card'.passed \subseteq GameSet
    BY <1>2, <1>7, <1>8 DEF ARef
  <2>3. memo' \in [known : BOOLEAN, last : [GameSet -> Nat], owned : SUBSET GameSet]
    BY <1>3, LibraryHasBeen DEF GameInv, GameTypes
  <2> QED BY <1>2, <2>1, <2>2, <2>3 DEF Answer, GameInv, GameTypes
<1>11. StampsAreSince'
  BY DEF Answer, GameInv, StampsAreSince, IsSince
<1>12. ASSUME NEW u \in Tabs PROVE LaunchIsSince(u)'
  <2>1. CASE u = t
    <3>1. open'[u].todo = << >> /\ open'[u].refs = << >>
      BY <1>9, <2>1 DEF GameInv, GameTypes, NoOpen
    <3> QED BY <3>1 DEF LaunchIsSince
  <2>2. CASE u # t
    <3>1. open'[u] = open[u]
      BY <1>9, <2>2 DEF GameInv, GameTypes
    <3> QED BY <3>1, LaunchStays DEF Answer, GameInv, GameTypes
  <2> QED BY <2>1, <2>2
<1>13. MemoHasBeen'
  BY <1>3, LibraryHasBeen DEF Answer, GameInv, MemoHasBeen
<1>14. PassedHasBeenPlayed'
  <2> SUFFICES ASSUME NEW g \in card'.passed \cap queued
               PROVE  since[g] > 0 /\ Cardinality(PlaysSince(g, since[g])) >= OwedBy(Ref(g, 0))
    BY DEF Answer, PassedHasBeenPlayed, PlaysSince, OwedBy, Ref
  <2>1. PICK n \in ahead : g = states[n].id
    BY <1>2
  <2>2. /\ g = refs[n].id /\ refs[n] \in ARef /\ n \in DOMAIN refs
        /\ EntryState(refs[n], Library).remaining = 0
    BY <2>1, <1>7, <1>8
  <2>3. PICK p \in DOMAIN inHand : refs[n] = inHand[p]
    BY <1>5, <2>2
  <2>4. IsSince(g, refs[n].queuedAt) /\ (kind # "mister" => refs[n].queuedAt > 0)
    BY <2>2, <2>3 DEF GameInv, LaunchIsSince
  <2> QED BY <2>2, <2>4, NothingLeftMeansPlayed DEF IsSince
<1> QED BY <1>10, <1>11, <1>12, <1>13, <1>14 DEF GameInv

-----------------------------------------------------------------------------
(* Everybody else.                                                         *)

LEMMA PlayKeeps ==
    ASSUME GameInv, NEW g \in GameSet, Play(g)
    PROVE  GameInv'
<1>1. clock' = clock + 1 /\ log' = [log EXCEPT ![g] = @ \cup {clock + 1}] /\ clock \in Nat
  BY DEF Play, GameInv, GameTypes
<1>2. GameTypes'
  <2>1. log' \in [GameSet -> SUBSET (1..clock')]
    BY <1>1 DEF GameInv, GameTypes
  <2>2. since \in [GameSet -> 0..clock']
    BY <1>1 DEF GameInv, GameTypes
  <2> QED BY <1>1, <2>1, <2>2 DEF Play, GameInv, GameTypes
<1>3. StampsAreSince'
  BY DEF Play, GameInv, StampsAreSince, IsSince
<1>4. ASSUME NEW u \in Tabs PROVE LaunchIsSince(u)'
  BY LaunchStays DEF Play, GameInv, GameTypes
<1>5. \A h \in GameSet : log[h] \subseteq log'[h]
  BY <1>1 DEF GameInv, GameTypes
<1>6. MemoHasBeen'
  BY <1>5 DEF Play, GameInv, MemoHasBeen
<1>7. PassedHasBeenPlayed'
  <2> SUFFICES ASSUME NEW h \in card.passed \cap queued
               PROVE  since[h] > 0 /\ Cardinality(PlaysSince(h, since[h])') >= OwedBy(Ref(h, 0))
    BY DEF Play, PassedHasBeenPlayed, PlaysSince, OwedBy, Ref
  <2>1. h \in GameSet
    BY DEF GameInv, GameTypes
  <2>2. since' = since /\ kind' = kind
    BY DEF Play
  <2>3. PlaysSince(h, since[h]) \subseteq {t \in log'[h] : t >= since[h]}
    BY <1>5, <2>1 DEF PlaysSince
  <2>4. IsFiniteSet(log'[h]) /\ IsFiniteSet({t \in log'[h] : t >= since[h]})
    <3>1. 1 \in Int /\ clock' \in Int /\ log'[h] \subseteq 1..clock'
      BY <1>2, <2>1 DEF GameTypes
    <3>2. IsFiniteSet(1..clock')
      BY ONLY <3>1, FS_Interval
    <3> QED BY <3>1, <3>2, FS_Subset
  <2>5. Cardinality(PlaysSince(h, since[h])) <= Cardinality({t \in log'[h] : t >= since[h]})
    BY <2>3, <2>4, FS_Subset
  <2>6. Cardinality(PlaysSince(h, since[h])) \in Nat /\ Cardinality({t \in log'[h] : t >= since[h]}) \in Nat
    BY <2>3, <2>4, FS_Subset, FS_CardinalityType
  <2>7. since[h] > 0 /\ Cardinality(PlaysSince(h, since[h])) >= OwedBy(Ref(h, 0))
    BY DEF GameInv, PassedHasBeenPlayed
  <2>8. OwedBy(Ref(h, 0)) \in Nat
    BY <2>1, GameAssumption DEF OwedBy, Ref
  <2> QED BY <2>2, <2>5, <2>6, <2>7, <2>8 DEF PlaysSince
<1> QED BY <1>2, <1>3, <1>4, <1>6, <1>7 DEF GameInv

LEMMA UnqueueKeeps ==
    ASSUME GameInv, NEW g \in GameSet, Unqueue(g)
    PROVE  GameInv'
<1>1. /\ queued' = queued \ {g}
      /\ \A h \in GameSet : h # g => stamp'[h] = stamp[h] /\ since'[h] = since[h]
      /\ stamp'[g] = 0 /\ since'[g] = 0
      /\ stamp' \in [GameSet -> Nat] /\ since' \in [GameSet -> 0..clock]
  BY DEF Unqueue, GameInv, GameTypes
<1>2. GameTypes'
  BY <1>1 DEF Unqueue, GameInv, GameTypes
<1>3. StampsAreSince'
  BY <1>1 DEF GameInv, StampsAreSince, IsSince
<1>4. ASSUME NEW u \in Tabs PROVE LaunchIsSince(u)'
  <2>1. open'[u] = open[u] /\ open[u] \in Opening /\ kind' = kind
    BY DEF Unqueue, GameInv, GameTypes
  <2> QED BY <1>1, <2>1, LaunchStays DEF GameInv
<1>5. MemoHasBeen'
  BY DEF Unqueue, GameInv, MemoHasBeen
<1>6. PassedHasBeenPlayed'
  <2> SUFFICES ASSUME NEW h \in card.passed \cap queued'
               PROVE  since'[h] > 0 /\ Cardinality({t \in log[h] : t >= since'[h]}) >= OwedBy(Ref(h, 0))
    BY DEF Unqueue, PassedHasBeenPlayed, PlaysSince, OwedBy, Ref
  <2>1. h \in GameSet /\ h # g /\ h \in card.passed \cap queued
    BY <1>1 DEF GameInv, GameTypes
  <2>2. since'[h] = since[h]
    BY <1>1, <2>1
  <2> QED BY <2>1, <2>2 DEF GameInv, PassedHasBeenPlayed, PlaysSince
<1> QED BY <1>2, <1>3, <1>4, <1>5, <1>6 DEF GameInv

LEMMA RequeueKeeps ==
    ASSUME GameInv, NEW g \in GameSet, Requeue(g)
    PROVE  GameInv'
<1>1. card'.passed = card.passed \ {g} /\ DOMAIN card' = DOMAIN card
  BY DEF Requeue, Without, GameInv, GameTypes
<1>2. GameTypes'
  BY <1>1 DEF Requeue, GameInv, GameTypes
<1>3. StampsAreSince' /\ MemoHasBeen'
  BY DEF Requeue, GameInv, StampsAreSince, IsSince, MemoHasBeen
<1>4. ASSUME NEW u \in Tabs PROVE LaunchIsSince(u)'
  <2>1. open'[u].todo = << >> /\ open'[u].refs = << >>
    BY DEF Requeue, NoOpen
  <2> QED BY <2>1 DEF LaunchIsSince
<1>5. PassedHasBeenPlayed'
  BY <1>1 DEF Requeue, GameInv, PassedHasBeenPlayed, PlaysSince, OwedBy, Ref
<1> QED BY <1>2, <1>3, <1>4, <1>5 DEF GameInv

LEMMA TimeKeeps ==
    ASSUME GameInv, Forget \/ (\E g \in GameSet : Lose(g)) \/ UNCHANGED gameVars
    PROVE  GameInv'
<1>1. /\ UNCHANGED <<kind, log, queued, stamp, open, since, card>>
      /\ clock' \in {clock, clock + 1} /\ owned' \subseteq owned /\ memo' \in {memo, NoMemo}
  BY DEF Forget, Lose, gameVars
<1>2. GameTypes'
  <2>1. clock \in Nat \ {0}
    BY DEF GameInv, GameTypes
  <2>2. log \in [GameSet -> SUBSET (1..clock')] /\ since \in [GameSet -> 0..clock'] /\ clock' \in Nat \ {0}
    BY <1>1, <2>1 DEF GameInv, GameTypes
  <2>3. memo' \in [known : BOOLEAN, last : [GameSet -> Nat], owned : SUBSET GameSet]
    <3>1. NoMemo \in [known : BOOLEAN, last : [GameSet -> Nat], owned : SUBSET GameSet]
      BY DEF NoMemo
    <3> QED BY <1>1, <3>1 DEF GameInv, GameTypes
  <2> QED BY <1>1, <2>2, <2>3 DEF GameInv, GameTypes
<1>3. StampsAreSince'
  BY <1>1 DEF GameInv, StampsAreSince, IsSince
<1>4. ASSUME NEW u \in Tabs PROVE LaunchIsSince(u)'
  BY <1>1, LaunchStays DEF GameInv, GameTypes
<1>5. MemoHasBeen'
  BY <1>1 DEF GameInv, MemoHasBeen, NoMemo
<1>6. PassedHasBeenPlayed'
  BY <1>1 DEF GameInv, PassedHasBeenPlayed, PlaysSince, OwedBy, Ref
<1> QED BY <1>2, <1>3, <1>4, <1>5, <1>6 DEF GameInv

LEMMA NextKeepsGames == GameInv /\ [GameNext]_gameVars => GameInv'
<1> SUFFICES ASSUME GameInv, [GameNext]_gameVars PROVE GameInv'
  OBVIOUS
<1>1. CASE \E t \in Tabs : Follow(t) \/ StampNext(t) \/ Answer(t)
  BY <1>1, FollowKeeps, StampKeeps, AnswerKeeps
<1>2. CASE \E g \in GameSet : Play(g) \/ Unqueue(g) \/ Requeue(g) \/ Lose(g)
  BY <1>2, PlayKeeps, UnqueueKeeps, RequeueKeeps, TimeKeeps
<1>3. CASE Forget \/ UNCHANGED gameVars
  BY <1>3, TimeKeeps
<1> QED BY <1>1, <1>2, <1>3 DEF GameNext

\* For any queue, any number of tabs that follow links at once and any provider: a launch
\* passes a game over only for plays since the first launch that met its entry, however
\* long ago the references it works with were taken, and whatever was played before.
THEOREM PassedOverStaysPlayed == GameSpec => []PassedOverWasPlayed
<1>1. GameInv => PassedOverWasPlayed
  BY DEF GameInv, PassedHasBeenPlayed, PassedOverWasPlayed, PlaysSince
<1> QED BY <1>1, GameBegins, NextKeepsGames, PTL DEF GameSpec

-----------------------------------------------------------------------------
(* PendingDesk.  First the rule: the least of some keys and the best of    *)
(* some hits are among them, and what Plex resolves could be told to be.   *)

LEMMA LeastOf ==
    ASSUME NEW T, T \subseteq Nat, T # {}
    PROVE  Min(T) \in T
<1>1. PICK x \in T : \A y \in T : ~(y < x)
  BY LeastNumber
<1>2. \E m \in T : \A y \in T : m =< y
  BY <1>1
<1> QED BY <1>2 DEF Min

LEMMA BestOf ==
    ASSUME NEW S, S # {}, NEW N \in Nat, NEW f \in [S -> -N..N]
    PROVE  \E j \in S : \A k \in S : f[k] <= f[j]
<1> DEFINE short == {N - f[j] : j \in S}
<1>1. short \subseteq Nat /\ short # {}
  OBVIOUS
<1>2. PICK x \in short : \A y \in short : ~(y < x)
  BY <1>1, LeastNumber
<1>3. PICK j \in S : x = N - f[j]
  BY <1>2
<1>4. ASSUME NEW k \in S PROVE f[k] <= f[j]
  <2>1. ~(N - f[k] < N - f[j]) /\ f[k] \in Int /\ f[j] \in Int
    BY <1>2, <1>3
  <2> QED BY <2>1
<1> QED BY <1>4

LEMMA ScoresAreSmall ==
    ASSUME NEW desc, NEW item
    PROVE  EngineScore(desc, item) \in -115..115
<1>1. TitleScore(desc, item) \in {-5, -4, 0, 1, 5, 10, 11, 15}
  BY DEF TitleScore
<1> QED BY <1>1 DEF EngineScore

\* A title that Plex resolves to an item could name it, which the listing can tell.
LEMMA ResolvedCouldBeNamed ==
    ASSUME NEW w, IsWorld(w), NEW desc, NEW sec, NEW i \in ResolveTitle(desc, sec, w)
    PROVE  i \in DOMAIN w.items /\ CouldName(desc, w.items[i]) /\ w.items[i].sec = sec
<1> DEFINE score(j) == EngineScore(desc, w.items[j])
           hits == {j \in w.found : w.items[j].sec = sec /\ score(j) > 0}
           best == {j \in hits : \A k \in hits : score(k) <= score(j)}
<1>1. hits # {} /\ i = Min(best)
  BY DEF ResolveTitle
<1>2. hits \subseteq DOMAIN w.items /\ hits \subseteq Nat
  BY DEF IsWorld
<1>3. \A j \in hits : score(j) \in -115..115
  BY ScoresAreSmall
<1>4. best # {}
  <2> DEFINE f == [j \in hits |-> score(j)]
  <2>1. f \in [hits -> -115..115]
    BY <1>3
  <2>2. PICK j \in hits : \A k \in hits : f[k] <= f[j]
    <3> HIDE DEF f, hits
    <3> QED BY <1>1, <2>1, BestOf
  <2>3. \A k \in hits : score(k) <= score(j)
    <3> HIDE DEF score
    <3> QED BY <2>2
  <2> QED BY <2>3
<1>5. i \in best
  <2>1. best \subseteq Nat
    BY <1>2
  <2> QED BY <1>1, <1>4, <2>1, LeastOf
<1>6. i \in DOMAIN w.items /\ w.items[i].sec = sec /\ score(i) > 0
  BY <1>2, <1>5
<1>7. CouldName(desc, w.items[i])
  BY <1>6 DEF CouldName, EngineScore, TitleScore
<1> QED BY <1>6, <1>7

LEMMA TitlesAnswerSomewhere ==
    ASSUME NEW w, IsWorld(w), NEW desc, NEW set, set.sections \in Seq(DOMAIN w.libs), desc.kind = "title",
           NEW i \in ResolveQueueEntry(desc, set, w)
    PROVE  \E n \in 1..Len(set.sections) : i \in ResolveTitle(desc, set.sections[n], w)
<1> DEFINE I == {n \in 1..Len(set.sections) : ResolveTitle(desc, set.sections[n], w) # {}}
<1>1. I \subseteq Nat
  OBVIOUS
<1>2. I # {} => Min(I) \in I
  <2> HIDE DEF I
  <2> QED BY <1>1, LeastOf
<1>3. ResolveQueueEntry(desc, set, w) = IF I = {} THEN {} ELSE ResolveTitle(desc, set.sections[Min(I)], w)
  BY <1>1, <1>2 DEF ResolveQueueEntry, FirstAnswer, SelectInSeq
<1> QED BY <1>2, <1>3

\* A collection is one there is.
LEMMA NamedIsThere ==
    ASSUME NEW w, IsWorld(w), NEW set, set.sections \in Seq(DOMAIN w.libs), NEW name
    PROVE  CollectionNamed(name, set, w) \subseteq DOMAIN w.colls
<1> DEFINE In(sec) == {c \in DOMAIN w.colls : w.colls[c].sec = sec /\ w.colls[c].name = name}
           One(sec) == IF In(sec) = {} THEN {} ELSE {Min(In(sec))}
           I == {n \in 1..Len(set.sections) : One(set.sections[n]) # {}}
<1>1. \A sec : One(sec) \subseteq DOMAIN w.colls
  BY LeastOf DEF IsWorld
<1>2. I \subseteq Nat /\ 0 \notin I
  OBVIOUS
<1>3. I # {} => Min(I) \in I
  <2> HIDE DEF I
  <2> QED BY <1>2, LeastOf
<1>4. CollectionNamed(name, set, w) = IF I = {} THEN {} ELSE One(set.sections[Min(I)])
  <2>1. CollectionNamed(name, set, w) =
           LET n == IF I # {} THEN Min(I) ELSE 0 IN IF n = 0 THEN {} ELSE One(set.sections[n])
    BY DEF CollectionNamed, FirstAnswer, SelectInSeq
  <2> HIDE DEF One, I
  <2> QED BY <1>2, <1>3, <2>1
<1> HIDE DEF One
<1> QED BY <1>1, <1>4

-----------------------------------------------------------------------------
(* What is listed is not going to be played: a film is neither named by an *)
(* entry nor taken by a pool's rule, and whatever plays is a film.         *)

LEMMA NamedIsCurated ==
    ASSUME NEW w, IsWorld(w), NEW s \in DOMAIN w.sets, NEW e \in w.sets[s].entries,
           NEW fresh \in SUBSET DOMAIN w.items, NEW i \in PlaysEntry(e, w.sets[s], w)
    PROVE  i \in DOMAIN w.items /\ (i \in fresh => i \in CuratedKeys(w, fresh))
<1> DEFINE set == w.sets[s]
           Keyed(d, x) ==
            CASE d.kind = "key"   -> {d.key}
              [] d.kind = "title" -> IF WorthResolving(d, x, w, fresh)
                                     THEN ResolveQueueEntry(d, x, w) ELSE {}
              [] OTHER            -> {}
<1>1. set.sections \in Seq(DOMAIN w.libs)
  BY DEF IsWorld
<1>2. CuratedKeys(w, fresh) =
         ChildrenOf(NamedCollections(w), w)
         \cup UNION {UNION {Keyed(d, w.sets[t]) : d \in w.sets[t].entries} : t \in DOMAIN w.sets}
  BY DEF CuratedKeys
<1>3. ChildrenOf(NamedCollections(w), w) \subseteq CuratedKeys(w, fresh)
  <2> HIDE DEF Keyed
  <2> QED BY <1>2
<1>4. Keyed(e, set) \subseteq CuratedKeys(w, fresh)
  <2> HIDE DEF Keyed
  <2>1. Keyed(e, set) \subseteq UNION {Keyed(d, w.sets[s]) : d \in w.sets[s].entries}
    OBVIOUS
  <2> DEFINE all(t) == UNION {Keyed(d, w.sets[t]) : d \in w.sets[t].entries}
  <2>2. Keyed(e, set) \subseteq all(s) /\ CuratedKeys(w, fresh) =
           ChildrenOf(NamedCollections(w), w) \cup UNION {all(t) : t \in DOMAIN w.sets}
    BY <1>2, <2>1
  <2> HIDE DEF all
  <2> QED BY <2>2
<1>5. CASE e.kind = "collection"
  <2>1. PICK c \in CollectionNamed(e.name, set, w) : i \in w.colls[c].children
    BY <1>5 DEF PlaysEntry, ChildrenOf
  <2>2. c \in DOMAIN w.colls
    BY <1>1, <2>1, NamedIsThere
  <2>3. c \in NamedCollections(w)
    BY <1>5, <2>1 DEF NamedCollections
  <2>4. i \in ChildrenOf(NamedCollections(w), w)
    BY <2>1, <2>3 DEF ChildrenOf
  <2> QED BY <1>3, <2>1, <2>2, <2>4 DEF IsWorld
<1>6. CASE e.kind = "key"
  BY <1>4, <1>6 DEF PlaysEntry, ResolveQueueEntry
<1>7. CASE e.kind = "title"
  <2>1. i \in ResolveQueueEntry(e, set, w)
    BY <1>7 DEF PlaysEntry
  <2>2. i \in DOMAIN w.items /\ CouldName(e, w.items[i])
        /\ \E n \in 1..Len(set.sections) : w.items[i].sec = set.sections[n]
    <3>1. PICK n \in 1..Len(set.sections) : i \in ResolveTitle(e, set.sections[n], w)
      BY <1>1, <1>7, <2>1, TitlesAnswerSomewhere
    <3> QED BY <3>1, ResolvedCouldBeNamed
  <2>3. w.items[i].sec \in Range(set.sections)
    BY <1>1, <2>2 DEF Range
  <2>4. i \in fresh => WorthResolving(e, set, w, fresh)
    BY <2>2, <2>3 DEF WorthResolving
  <2> QED BY <1>4, <1>7, <2>1, <2>2, <2>4
<1>8. CASE e.kind \notin {"collection", "key", "title"}
  BY <1>8 DEF PlaysEntry, ResolveQueueEntry
<1> QED BY <1>5, <1>6, <1>7, <1>8

LEMMA ListedIsNotPlayed ==
    ASSUME NEW w, IsWorld(w), NEW state
    PROVE  PendingItems(w, state) \cap WillPlay(w) = {}
<1> DEFINE films == PendingFilms(w, state)
           fresh == Fresh(w, state)
<1> SUFFICES ASSUME NEW i \in PendingItems(w, state) \cap WillPlay(w) PROVE FALSE
  OBVIOUS
<1>1. fresh \subseteq DOMAIN w.items /\ films \subseteq fresh
  BY DEF Fresh, PendingFilms
<1>2. PICK s \in DOMAIN w.sets :
         i \in PlaysPool(w.sets[s], w) \/ \E e \in w.sets[s].entries : i \in PlaysEntry(e, w.sets[s], w)
  <2> DEFINE named(t) == UNION {PlaysEntry(e, w.sets[t], w) : e \in w.sets[t].entries}
  <2>1. WillPlay(w) = UNION {PlaysPool(w.sets[t], w) \cup named(t) : t \in DOMAIN w.sets}
    BY DEF WillPlay
  <2>2. \A t : i \in named(t) => \E e \in w.sets[t].entries : i \in PlaysEntry(e, w.sets[t], w)
    OBVIOUS
  <2> HIDE DEF named
  <2> QED BY <2>1, <2>2
<1>3. i \in DOMAIN w.items
  BY <1>1, <1>2, NamedIsCurated DEF PlaysPool
<1>4. i \in films
  BY <1>3 DEF PendingItems, PendingCollections, IsWorld
<1>5. i \notin CuratedKeys(w, fresh) /\ ~IsInAnyRule(i, w)
  BY <1>4 DEF PendingFilms
<1>6. i \notin PlaysPool(w.sets[s], w)
  BY <1>5 DEF IsInAnyRule, PlaysPool, ExpandedBlocklist
<1>7. PICK e \in w.sets[s].entries : i \in PlaysEntry(e, w.sets[s], w)
  BY <1>2, <1>6
<1> QED BY <1>1, <1>4, <1>5, <1>7, NamedIsCurated

-----------------------------------------------------------------------------
(* The boxes.  While a choice of libraries is in flight the list will be   *)
(* read again; otherwise what the newest read has found so far is what the *)
(* file says, because nobody else changes the libraries meanwhile.         *)

Choosing == Waiting({"libraries"})

\* What the boxes are when they are the server's.
BoxesOf(boxes, isDefault) ==
    boxes = SelectedLibraries(world.libs, file.libraries) /\ isDefault = (file.libraries = Unchosen)

ScreenTypes ==
    /\ {"phase", "items", "drawn", "boxes", "isDefault", "read", "shown"} \subseteq DOMAIN screen
    /\ screen.read \in Nat

RequestTypes(r) ==
    /\ {"n", "op", "arg", "stage", "seen", "answer"} \subseteq DOMAIN r
    /\ "libraries" \in DOMAIN r.seen
    /\ r.op = "read" => r.arg \in Nat /\ r.arg <= screen.read

\* A dismissal writes the libraries back as they are, as none are being chosen.
DismissalIsAlone(r) ==
    r.op \in {"dismiss", "seen"} =>
        ~Choosing /\ (r.stage = "read" => r.seen.libraries = file.libraries)

NewestIsCurrent(r) ==
    r.op = "read" /\ r.arg = screen.read /\ ~Choosing =>
        /\ r.stage = "read" => r.seen.libraries = file.libraries
        /\ r.stage = "answered" => BoxesOf(r.answer.boxes, r.answer.isDefault)

IsSound(r) == RequestTypes(r) /\ DismissalIsAlone(r) /\ NewestIsCurrent(r)

PendingInv ==
    /\ IsWorld(world) /\ ScreenTypes /\ "libraries" \in DOMAIN file
    /\ \A r \in requests : IsSound(r)
    /\ screen.shown /\ ~Choosing => BoxesOf(screen.boxes, screen.isDefault)

\* A request that is as it was stays sound, whatever else comes and goes, while the libraries
\* stay and no newer read is called the newest one.
LEMMA SoundStays ==
    ASSUME NEW r, IsSound(r), screen.read \in Nat, screen'.read \in Nat, screen'.read >= screen.read,
           world'.libs = world.libs, file'.libraries = file.libraries,
           Choosing => Choosing' \/ (r.op \notin {"dismiss", "seen"} /\ screen'.read > screen.read),
           Choosing' => Choosing \/ r.op \notin {"dismiss", "seen"}
    PROVE  IsSound(r)'
BY DEF IsSound, RequestTypes, DismissalIsAlone, NewestIsCurrent, BoxesOf

LEMMA PendingBegins == PendingInit => PendingInv
BY WorldsAssumption DEF PendingInit, PendingInv, ScreenTypes, NewFile

\* A gesture, and what the libraries hold.
LEMMA LoadingTypes ==
    ASSUME ScreenTypes
    PROVE  /\ Loading.read = screen.read + 1 /\ ~Loading.shown
           /\ {"phase", "items", "drawn", "boxes", "isDefault", "read", "shown"} \subseteq DOMAIN Loading
BY DEF ScreenTypes, Loading

LEMMA SentIsSound ==
    ASSUME NEW op, NEW arg, NEW r, r = Request(op, arg), op = "read" => arg \in Nat /\ arg <= screen'.read,
           op \in {"dismiss", "seen"} => ~Choosing'
    PROVE  IsSound(r)' /\ r.op = op
BY DEF IsSound, RequestTypes, DismissalIsAlone, NewestIsCurrent, Request, NewFile

LEMMA SendChooses ==
    ASSUME NEW op, NEW arg, Send(op, arg)
    PROVE  Choosing' <=> Choosing \/ op = "libraries"
<1>1. PICK new : new = Request(op, arg)
  OBVIOUS
<1>2. requests' = requests \cup {new} /\ new.op = op
  BY <1>1 DEF Send, Request
<1> QED BY <1>2 DEF Choosing, Waiting

\* What is sent is sound, and the others stay so unless a choice meets a dismissal.
LEMMA SendKeeps ==
    ASSUME PendingInv, NEW op, NEW arg, Send(op, arg), UNCHANGED <<world, file>>,
           op = "read" => arg = screen'.read, op \in {"dismiss", "seen"} => ~Choosing,
           op = "libraries" => ~Waiting({"dismiss", "seen"}),
           ScreenTypes', screen'.read >= screen.read,
           screen'.shown /\ ~Choosing' => BoxesOf(screen'.boxes, screen'.isDefault)
    PROVE  PendingInv'
<1>1. PICK new : new = Request(op, arg)
  OBVIOUS
<1>2. requests' = requests \cup {new} /\ new.op = op
  BY <1>1 DEF Send, Request
<1>3. Choosing' <=> Choosing \/ op = "libraries"
  BY SendChooses
<1>4. IsSound(new)'
  BY <1>1, <1>3, SentIsSound DEF ScreenTypes
<1>5. ASSUME NEW r \in requests PROVE IsSound(r)'
  <2>1. IsSound(r)
    BY DEF PendingInv
  <2>2. Choosing' /\ ~Choosing => r.op \notin {"dismiss", "seen"}
    BY <1>3 DEF Waiting
  <2> QED BY <1>3, <2>1, <2>2, SoundStays DEF PendingInv, ScreenTypes
<1>6. "libraries" \in DOMAIN file' /\ IsWorld(world)'
  BY DEF PendingInv
<1>7. (screen.shown /\ ~Choosing => BoxesOf(screen.boxes, screen.isDefault))'
  BY DEF BoxesOf
<1> QED BY <1>2, <1>4, <1>5, <1>6, <1>7 DEF PendingInv

LEMMA GesturesKeepPending ==
    ASSUME PendingInv, Gestures
    PROVE  PendingInv'
<1>1. world' = world /\ file' = file
  BY DEF Gestures, OpenView, BackToDefault, MarkAllSeen, Toggle, ChooseLibraries, Dismiss, PickStart, AddTo
<1>2. CASE OpenView
  <2>1. screen' = Loading /\ Send("read", screen.read + 1)
    BY <1>2 DEF OpenView
  <2>2. ScreenTypes' /\ screen'.read = screen.read + 1 /\ ~screen'.shown
    BY <2>1, LoadingTypes DEF PendingInv, ScreenTypes
  <2> QED BY <1>1, <2>1, <2>2, SendKeeps DEF PendingInv, ScreenTypes
<1>3. ASSUME NEW next, ChooseLibraries(next) PROVE PendingInv'
  <2>1. Send("libraries", next) /\ ~Waiting({"dismiss", "seen"})
    BY <1>3 DEF ChooseLibraries
  <2>2. Choosing'
    BY <2>1, SendChooses
  <2>3. ScreenTypes' /\ screen'.read = screen.read
    BY <1>3 DEF ChooseLibraries, PendingInv, ScreenTypes
  <2> QED BY <1>1, <2>1, <2>2, <2>3, SendKeeps DEF PendingInv, ScreenTypes
<1>4. CASE MarkAllSeen \/ \E item : Dismiss(item)
  <2>1. ~Choosing
    BY <1>4 DEF MarkAllSeen, Dismiss, Choosing, Waiting, Writers
  <2>2. ScreenTypes' /\ screen'.read = screen.read /\ screen'.shown = screen.shown
        /\ screen'.boxes = screen.boxes /\ screen'.isDefault = screen.isDefault
    BY <1>4 DEF MarkAllSeen, Dismiss, PendingInv, ScreenTypes
  <2>3. PICK op \in {"dismiss", "seen"} : \E arg : Send(op, arg)
    BY <1>4 DEF MarkAllSeen, Dismiss
  <2>4. PICK arg : Send(op, arg)
    BY <2>3
  <2>5. screen'.shown /\ ~Choosing' => BoxesOf(screen'.boxes, screen'.isDefault)
    BY <2>1, <2>2 DEF PendingInv
  <2> QED BY <1>1, <2>1, <2>2, <2>4, <2>5, SendKeeps DEF PendingInv, ScreenTypes
<1>5. ASSUME NEW item, PickStart(item) PROVE PendingInv'
  <2>1. screen' = screen /\ requests' = requests
    BY <1>5 DEF PickStart
  <2> QED BY <1>1, <2>1 DEF PendingInv, ScreenTypes, IsSound, RequestTypes, DismissalIsAlone, NewestIsCurrent,
                            BoxesOf, Choosing, Waiting
<1>6. ASSUME NEW item, NEW queue, AddTo(item, queue) PROVE PendingInv'
  <2>1. screen' = screen /\ Send("add", [item |-> item, queue |-> queue, start |-> item \in picks])
    BY <1>6 DEF AddTo
  <2>3. Choosing' <=> Choosing
    BY <2>1, SendChooses
  <2>4. ScreenTypes' /\ screen'.read >= screen.read
    BY <2>1 DEF PendingInv, ScreenTypes
  <2>5. screen'.shown /\ ~Choosing' => BoxesOf(screen'.boxes, screen'.isDefault)
    BY <2>1, <2>3 DEF PendingInv
  <2> QED BY <1>1, <2>1, <2>4, <2>5, SendKeeps
<1> QED BY <1>2, <1>3, <1>4, <1>5, <1>6 DEF Gestures, BackToDefault, Toggle

-----------------------------------------------------------------------------
(* The server.  A request that moves on keeps its kind.                    *)

LEMMA MoveKeeps ==
    ASSUME PendingInv, NEW r \in requests, NEW moved, Moves(r, moved), moved.op = r.op, UNCHANGED screen,
           IsWorld(world)', world'.libs = world.libs, "libraries" \in DOMAIN file',
           file'.libraries = file.libraries \/ r.op = "libraries", IsSound(moved)'
    PROVE  PendingInv'
<1>1. Choosing' <=> Choosing
  BY DEF Moves, Choosing, Waiting
<1>2. file'.libraries = file.libraries \/ Choosing
  BY DEF Choosing, Waiting
<1>3. ASSUME NEW q \in requests PROVE IsSound(q)'
  <2>1. IsSound(q)
    BY DEF PendingInv
  <2> QED BY <1>1, <1>2, <2>1 DEF IsSound, RequestTypes, DismissalIsAlone, NewestIsCurrent, BoxesOf
<1>4. (screen.shown /\ ~Choosing => BoxesOf(screen.boxes, screen.isDefault))'
  BY <1>1, <1>2 DEF PendingInv, BoxesOf
<1> QED BY <1>3, <1>4 DEF PendingInv, Moves, ScreenTypes

\* An addition, a start, and whatever fails have no say about the libraries.
LEMMA OthersKeepPending ==
    ASSUME PendingInv, NEW r \in requests, NEW stage, NEW answer,
           Moves(r, [r EXCEPT !.stage = stage, !.answer = answer]),
           r.op \in {"add", "start"} \/ stage = "failed", UNCHANGED <<screen, file>>,
           IsWorld(world)', world'.libs = world.libs
    PROVE  PendingInv'
<1>1. IsSound(r) /\ "libraries" \in DOMAIN file
  BY DEF PendingInv
<1>2. PICK m : m = [r EXCEPT !.stage = stage, !.answer = answer]
  OBVIOUS
<1>3. m.op = r.op /\ m.arg = r.arg /\ m.stage = stage /\ m.seen = r.seen /\ DOMAIN m = DOMAIN r
  BY <1>1, <1>2 DEF IsSound, RequestTypes
<1>4. Choosing' <=> Choosing
  BY <1>2, <1>3 DEF Moves, Choosing, Waiting
<1>5. IsSound(m)'
  BY <1>1, <1>3, <1>4 DEF IsSound, RequestTypes, DismissalIsAlone, NewestIsCurrent
<1> QED BY <1>1, <1>2, <1>3, <1>5, MoveKeeps

LEMMA ServesKeepPending ==
    ASSUME PendingInv, NEW r \in requests, Serves(r)
    PROVE  PendingInv'
<1>1. IsSound(r) /\ IsWorld(world) /\ "libraries" \in DOMAIN file /\ UNCHANGED screen
  BY DEF PendingInv, Serves, ReadState, WriteState, List, Add, WriteStart, Fails
<1>2. CASE ReadState(r)
  <2> DEFINE moved == [r EXCEPT !.stage = "read", !.seen = file]
  <2>1. Moves(r, moved) /\ UNCHANGED <<world, file>>
    BY <1>2 DEF ReadState
  <2>2. moved.op = r.op /\ moved.arg = r.arg /\ moved.stage = "read" /\ moved.seen = file /\ DOMAIN moved = DOMAIN r
    BY <1>1 DEF IsSound, RequestTypes
  <2> HIDE DEF moved
  <2>3. Choosing' <=> Choosing
    BY <2>1, <2>2 DEF Moves, Choosing, Waiting
  <2>4. PICK m : m = moved
    OBVIOUS
  <2>5. IsSound(m)'
    BY <1>1, <2>1, <2>2, <2>3, <2>4 DEF IsSound, RequestTypes, DismissalIsAlone, NewestIsCurrent
  <2> QED BY <1>1, <2>1, <2>2, <2>4, <2>5, MoveKeeps
<1>3. CASE WriteState(r)
  <2> DEFINE moved == [r EXCEPT !.stage = "answered", !.answer = "ok"]
  <2>1. Moves(r, moved) /\ UNCHANGED world /\ file' = Written(r) /\ r.op \in Writers /\ r.stage = "read"
    BY <1>3 DEF WriteState, Answers
  <2>2. /\ moved.op = r.op /\ moved.arg = r.arg /\ moved.stage = "answered" /\ moved.seen = r.seen
        /\ DOMAIN moved = DOMAIN r
    BY <1>1 DEF IsSound, RequestTypes
  <2> HIDE DEF moved
  <2>3. Choosing' <=> Choosing
    BY <2>1, <2>2 DEF Moves, Choosing, Waiting
  <2>4. "libraries" \in DOMAIN file'
    BY <1>1, <2>1 DEF Written, Writers, IsSound, RequestTypes
  <2>5. r.op # "libraries" => file'.libraries = file.libraries
    BY <1>1, <2>1 DEF Written, Writers, IsSound, RequestTypes, DismissalIsAlone
  <2>6. PICK m : m = moved
    OBVIOUS
  <2>7. IsSound(m)'
    BY <1>1, <2>1, <2>2, <2>3, <2>6 DEF IsSound, RequestTypes, DismissalIsAlone, NewestIsCurrent, Writers
  <2> QED BY <1>1, <2>1, <2>2, <2>4, <2>5, <2>6, <2>7, MoveKeeps
<1>4. CASE List(r)
  <2> DEFINE answer == [items |-> PendingItems(world, r.seen),
                        boxes |-> SelectedLibraries(world.libs, r.seen.libraries),
                        isDefault |-> r.seen.libraries = Unchosen]
             moved == [r EXCEPT !.stage = "answered", !.answer = answer]
  <2>1. Moves(r, moved) /\ UNCHANGED <<world, file>> /\ r.op = "read" /\ r.stage = "read"
    BY <1>4 DEF List, Answers
  <2>2. answer.boxes = SelectedLibraries(world.libs, r.seen.libraries) /\ answer.isDefault = (r.seen.libraries = Unchosen)
    OBVIOUS
  <2> HIDE DEF answer
  <2>3. /\ moved.op = r.op /\ moved.arg = r.arg /\ moved.stage = "answered" /\ moved.seen = r.seen
        /\ moved.answer = answer /\ DOMAIN moved = DOMAIN r
    BY <1>1 DEF IsSound, RequestTypes
  <2> HIDE DEF moved
  <2>4. Choosing' <=> Choosing
    BY <2>1, <2>3 DEF Moves, Choosing, Waiting
  <2>5. PICK m : m = moved
    OBVIOUS
  <2>6. IsSound(m)'
    BY <1>1, <2>1, <2>2, <2>3, <2>4, <2>5
       DEF IsSound, RequestTypes, DismissalIsAlone, NewestIsCurrent, BoxesOf
  <2> QED BY <1>1, <2>1, <2>3, <2>5, <2>6, MoveKeeps
<1>5. CASE Add(r)
  <2>1. UNCHANGED file /\ r.op = "add" /\ \E a : Answers(r, a)
    BY <1>5 DEF Add
  <2>2. PICK a : Answers(r, a)
    BY <2>1
  <2>3. \/ world' = world
        \/ world' = [world EXCEPT !.sets[r.arg.queue].entries = @ \cup {EntryFor(r.arg.item)}]
    BY <1>5 DEF Add
  <2>4. /\ DOMAIN world' = DOMAIN world /\ world'.items = world.items /\ world'.colls = world.colls
        /\ world'.libs = world.libs /\ world'.found = world.found
        /\ DOMAIN world'.sets = DOMAIN world.sets
    BY <1>1, <2>3 DEF IsWorld
  <2>5. \A q \in DOMAIN world.sets :
           world'.sets[q].sections = world.sets[q].sections /\ "sections" \in DOMAIN world'.sets[q]
    BY <1>1, <2>3 DEF IsWorld
  <2>6. IsWorld(world)'
    BY <1>1, <2>4, <2>5 DEF IsWorld
  <2> QED BY <1>1, <2>1, <2>2, <2>4, <2>6, OthersKeepPending DEF Answers
<1>6. CASE WriteStart(r)
  BY <1>1, <1>6, OthersKeepPending DEF WriteStart, Answers
<1>7. CASE Fails(r)
  <2>1. Moves(r, [r EXCEPT !.stage = "failed"]) /\ UNCHANGED <<world, file>>
    BY <1>7 DEF Fails
  <2>2. [r EXCEPT !.stage = "failed"] = [r EXCEPT !.stage = "failed", !.answer = r.answer]
    BY <1>1 DEF IsSound, RequestTypes
  <2> QED BY <1>1, <2>1, <2>2, OthersKeepPending
<1> QED BY <1>2, <1>3, <1>4, <1>5, <1>6, <1>7 DEF Serves

-----------------------------------------------------------------------------
(* The answers.  A choice that comes back is followed by a newer read.     *)

\* A request goes, and the screen keeps its boxes.
LEMMA DoneKeeps ==
    ASSUME PendingInv, NEW r \in requests, r.op # "libraries", Done(r), UNCHANGED <<world, file>>,
           ScreenTypes', screen'.read = screen.read,
           screen'.shown /\ ~Choosing' => BoxesOf(screen'.boxes, screen'.isDefault)
    PROVE  PendingInv'
<1>1. Choosing' <=> Choosing
  BY DEF Done, Choosing, Waiting
<1>2. ASSUME NEW q \in requests PROVE IsSound(q)'
  <2>1. IsSound(q)
    BY DEF PendingInv
  <2> QED BY <1>1, <2>1 DEF IsSound, RequestTypes, DismissalIsAlone, NewestIsCurrent, BoxesOf
<1>3. (screen.shown /\ ~Choosing => BoxesOf(screen.boxes, screen.isDefault))'
  BY DEF BoxesOf
<1> QED BY <1>2, <1>3 DEF PendingInv, Done

LEMMA ReloadKeeps ==
    ASSUME PendingInv, NEW r \in requests, Reload(r), UNCHANGED <<world, file>>
    PROVE  PendingInv'
<1>1. PICK new : new = Request("read", screen.read + 1)
  OBVIOUS
<1>2. requests' = (requests \ {r}) \cup {new} /\ screen' = Loading /\ new.op = "read"
  BY <1>1 DEF Reload, Request
<1>3. ScreenTypes' /\ screen'.read = screen.read + 1 /\ ~screen'.shown
  BY <1>2, LoadingTypes DEF PendingInv, ScreenTypes
<1>4. Choosing' => Choosing
  BY <1>2 DEF Choosing, Waiting
<1>5. IsSound(new)'
  BY <1>1, <1>3, SentIsSound DEF ScreenTypes
<1>6. ASSUME NEW q \in requests PROVE IsSound(q)'
  <2>1. IsSound(q)
    BY DEF PendingInv
  <2> QED BY <1>3, <1>4, <2>1 DEF PendingInv, ScreenTypes, IsSound, RequestTypes, DismissalIsAlone, NewestIsCurrent
<1> QED BY <1>2, <1>3, <1>5, <1>6 DEF PendingInv

LEMMA DeliversKeepPending ==
    ASSUME PendingInv, NEW r \in requests, Delivers(r)
    PROVE  PendingInv'
<1>1. UNCHANGED <<world, file>> /\ ScreenTypes /\ IsSound(r)
  BY DEF Delivers, ShowList, LibrariesAnswered, DismissAnswered, AddAnswered, StartAnswered, PendingInv
<1>2. CASE ShowList(r)
  <2>1. ScreenTypes' /\ screen'.read = screen.read
    BY <1>1, <1>2 DEF ShowList, ScreenTypes
  <2>2. r.op = "read" /\ Done(r) /\ (~Choosing' => ~Choosing)
    BY <1>2 DEF ShowList, Done, Choosing, Waiting
  <2>3. ASSUME screen'.shown, ~Choosing' PROVE BoxesOf(screen'.boxes, screen'.isDefault)
    <3>1. CASE screen' = screen
      BY <2>2, <2>3, <3>1 DEF PendingInv
    <3>2. CASE screen' # screen /\ r.stage = "answered" /\ IsNewest(r)
      <4>1. screen'.boxes = r.answer.boxes /\ screen'.isDefault = r.answer.isDefault
        BY <1>1, <1>2, <3>2 DEF ShowList, ScreenTypes
      <4>2. BoxesOf(r.answer.boxes, r.answer.isDefault)
        BY <1>1, <2>2, <2>3, <3>2 DEF IsSound, NewestIsCurrent, IsNewest
      <4> QED BY <4>1, <4>2
    <3>3. CASE screen' # screen /\ r.stage = "failed" /\ IsNewest(r)
      <4>1. screen'.boxes = screen.boxes /\ screen'.isDefault = screen.isDefault /\ screen'.shown = screen.shown
        BY <1>1, <1>2, <3>3 DEF ShowList, ScreenTypes
      <4> QED BY <2>2, <2>3, <4>1 DEF PendingInv
    <3> QED BY <1>2, <3>1, <3>2, <3>3 DEF ShowList, Settled
  <2> QED BY <1>1, <2>1, <2>2, <2>3, DoneKeeps
<1>3. CASE LibrariesAnswered(r)
  BY <1>1, <1>3, ReloadKeeps DEF LibrariesAnswered
<1>4. CASE DismissAnswered(r)
  <2>1. CASE r.stage = "failed"
    BY <1>1, <1>4, <2>1, ReloadKeeps DEF DismissAnswered
  <2>2. CASE r.stage # "failed"
    <3>1. Done(r) /\ UNCHANGED screen /\ r.op # "libraries"
      BY <1>4, <2>2 DEF DismissAnswered
    <3>2. ~Choosing' => ~Choosing
      BY <3>1 DEF Done, Choosing, Waiting
    <3> QED BY <1>1, <3>1, <3>2, DoneKeeps DEF PendingInv, ScreenTypes
  <2> QED BY <2>1, <2>2
<1>5. CASE AddAnswered(r) \/ StartAnswered(r)
  <2>1. /\ ScreenTypes' /\ screen'.read = screen.read /\ screen'.boxes = screen.boxes
        /\ screen'.isDefault = screen.isDefault /\ screen'.shown = screen.shown
    BY <1>1, <1>5 DEF AddAnswered, StartAnswered, Leaves, ScreenTypes
  <2>2. r.op \in {"add", "start"}
    BY <1>5 DEF AddAnswered, StartAnswered
  <2>3. CASE Done(r)
    <3>1. ~Choosing' => ~Choosing
      BY <2>2, <2>3 DEF Done, Choosing, Waiting
    <3> QED BY <1>1, <2>1, <2>2, <2>3, <3>1, DoneKeeps DEF PendingInv
  <2>4. CASE Moves(r, Request("start", r.arg)) /\ UNCHANGED screen
    <3>1. PICK new : new = Request("start", r.arg)
      OBVIOUS
    <3>2. requests' = (requests \ {r}) \cup {new} /\ new.op = "start"
      BY <2>4, <3>1 DEF Moves, Request
    <3>3. Choosing' <=> Choosing
      BY <2>2, <3>2 DEF Choosing, Waiting
    <3>4. IsSound(new)'
      BY <3>1, SentIsSound
    <3>5. ASSUME NEW q \in requests PROVE IsSound(q)'
      <4>1. IsSound(q)
        BY DEF PendingInv
      <4> QED BY <1>1, <2>4, <3>3, <4>1 DEF IsSound, RequestTypes, DismissalIsAlone, NewestIsCurrent, BoxesOf
    <3>6. (screen.shown /\ ~Choosing => BoxesOf(screen.boxes, screen.isDefault))'
      BY <1>1, <2>4, <3>3 DEF PendingInv, BoxesOf
    <3> QED BY <1>1, <2>1, <3>2, <3>4, <3>5, <3>6 DEF PendingInv
  <2> QED BY <1>5, <2>3, <2>4 DEF AddAnswered, StartAnswered
<1> QED BY <1>2, <1>3, <1>4, <1>5 DEF Delivers

LEMMA NextKeepsPending == PendingInv /\ [PendingNext]_pendingVars => PendingInv'
<1> SUFFICES ASSUME PendingInv, [PendingNext]_pendingVars PROVE PendingInv'
  OBVIOUS
<1>1. CASE UNCHANGED pendingVars
  BY <1>1 DEF pendingVars, PendingInv, ScreenTypes, IsSound, RequestTypes, DismissalIsAlone, NewestIsCurrent,
              BoxesOf, Choosing, Waiting
<1>2. CASE PendingNext
  BY <1>2, GesturesKeepPending, ServesKeepPending, DeliversKeepPending DEF PendingNext
<1> QED BY <1>1, <1>2

\* For any libraries, collections, queues and pools: nothing the Pending screen lists is named
\* by an entry, whatever its spelling, or taken by a pool's rule, and however reads, choices,
\* dismissals and their failures interleave, the boxes at rest are the server's.
THEOREM PendingStaysHonest == PendingSpec => []PendingIsHonest
<1>1. PendingInv => PendingIsHonest
  <2>1. PendingInv => ListedIsUnplayed
    BY ListedIsNotPlayed DEF PendingInv, ListedIsUnplayed
  <2>2. PendingInv => BoxesAreTheServers
    BY DEF PendingInv, BoxesAreTheServers, BoxesOf, Choosing, Waiting
  <2> QED BY <2>1, <2>2 DEF PendingIsHonest
<1> QED BY <1>1, PendingBegins, NextKeepsPending, PTL DEF PendingSpec

-----------------------------------------------------------------------------
(* GroupsEditor.  Groups are stored in the order a person gave them, and   *)
(* of two of one id the later counts: the sort must keep those in order.   *)

\* How many come before a number, itself counted.
PlaceOf(B, L, n) == Cardinality({m \in 1..L : m = n \/ <<m, n>> \in B})

\* B puts 1..L in a line.
IsLine(B, L) ==
    /\ \A a \in 1..L : <<a, a>> \notin B
    /\ \A a, b, c \in 1..L : <<a, b>> \in B /\ <<b, c>> \in B => <<a, c>> \in B
    /\ \A a, b \in 1..L : a # b => <<a, b>> \in B \/ <<b, a>> \in B

(* The places of a line are the numbers it puts in line, each once and in  *)
(* its order.                                                              *)
LEMMA PlacesInLine ==
    ASSUME NEW L \in Nat, NEW B, IsLine(B, L)
    PROVE  /\ \A n \in 1..L : PlaceOf(B, L, n) \in 1..L
           /\ \A a, b \in 1..L : <<a, b>> \in B => PlaceOf(B, L, a) < PlaceOf(B, L, b)
           /\ \A a, b \in 1..L : PlaceOf(B, L, a) = PlaceOf(B, L, b) => a = b
           /\ \A k \in 1..L : \E n \in 1..L : PlaceOf(B, L, n) = k
<1> DEFINE Up(n) == {m \in 1..L : m = n \/ <<m, n>> \in B}
<1>0. IsFiniteSet(1..L) /\ Cardinality(1..L) = L
  <2>1. L \in Int /\ 1 \in Int /\ (1 > L => L = 0)
    OBVIOUS
  <2>2. IsFiniteSet(1..L) /\ Cardinality(1..L) = IF 1 > L THEN 0 ELSE L - 1 + 1
    BY ONLY <2>1, FS_Interval
  <2> QED BY <2>1, <2>2
<1>1. ASSUME NEW n \in 1..L
      PROVE  IsFiniteSet(Up(n)) /\ Cardinality(Up(n)) \in 1..L
  <2>1. Up(n) \in SUBSET (1..L) /\ n \in Up(n)
    OBVIOUS
  <2> HIDE DEF Up
  <2>2. IsFiniteSet(Up(n)) /\ Cardinality(Up(n)) <= L
    BY <2>1, <1>0, FS_Subset
  <2>3. Cardinality(Up(n)) \in Nat /\ Cardinality(Up(n)) # 0
    BY <2>1, <2>2, FS_CardinalityType, FS_EmptySet
  <2> QED BY <2>2, <2>3
<1>2. ASSUME NEW a \in 1..L, NEW b \in 1..L, <<a, b>> \in B
      PROVE  Cardinality(Up(a)) < Cardinality(Up(b))
  <2>1. Up(a) \in SUBSET Up(b)
    BY <1>2 DEF IsLine
  <2>2. b \in Up(b) /\ b \notin Up(a)
    BY <1>2 DEF IsLine
  <2> HIDE DEF Up
  <2>3. Cardinality(Up(a)) <= Cardinality(Up(b)) /\ Cardinality(Up(a)) # Cardinality(Up(b))
    BY <2>1, <2>2, <1>1, FS_Subset
  <2> QED BY <2>3, <1>1
<1>3. \A a, b \in 1..L : Cardinality(Up(a)) = Cardinality(Up(b)) => a = b
  <2> SUFFICES ASSUME NEW a \in 1..L, NEW b \in 1..L, a # b
               PROVE  Cardinality(Up(a)) # Cardinality(Up(b))
    OBVIOUS
  <2>1. <<a, b>> \in B \/ <<b, a>> \in B
    BY DEF IsLine
  <2> HIDE DEF Up
  <2> QED BY <2>1, <1>1, <1>2
<1>4. \A k \in 1..L : \E n \in 1..L : Cardinality(Up(n)) = k
  <2> DEFINE P == [n \in 1..L |-> Cardinality(Up(n))]
  <2>1. P \in [1..L -> 1..L] /\ \A a, b \in 1..L : P[a] = P[b] => a = b
    <3> HIDE DEF Up
    <3> QED BY <1>1, <1>3
  <2>2. \A n \in 1..L : P[n] = Cardinality(Up(n))
    OBVIOUS
  <2> HIDE DEF P, Up
  <2>3. P \in Injection(1..L, 1..L)
    BY <2>1 DEF Injection, IsInjective
  <2>4. P \in Surjection(1..L, 1..L)
    BY <2>3, <1>0, FS_Injection
  <2> QED BY <2>2, <2>4 DEF Surjection
<1>5. \A n \in 1..L : PlaceOf(B, L, n) = Cardinality(Up(n))
  BY DEF PlaceOf
<1> HIDE DEF Up
<1> QED BY <1>1, <1>2, <1>3, <1>4, <1>5

IsList(f) == \E n \in Nat : f = [k \in 1..n |-> f[k]]

\* The last entry of an id.
LastOf(list, id, n) ==
    /\ n \in DOMAIN list /\ list[n].id = id
    /\ \A k \in DOMAIN list : list[k].id = id => k <= n

LEMMA ListsAreSequences ==
    ASSUME NEW f, IsList(f)
    PROVE  \E S : /\ f \in Seq(S) /\ Len(f) \in Nat /\ DOMAIN f = 1..Len(f)
                  /\ f = [k \in 1..Len(f) |-> f[k]]
<1>1. PICK n \in Nat : f = [k \in 1..n |-> f[k]]
  BY DEF IsList
<1> DEFINE S == {f[k] : k \in 1..n}
<1>2. f \in [1..n -> S]
  BY <1>1
<1>3. f \in Seq(S)
  BY <1>2
<1>4. Len(f) = n /\ DOMAIN f = 1..n
  BY <1>2, <1>3
<1> HIDE DEF S
<1> QED BY <1>1, <1>3, <1>4

LEMMA SequencesAreLists ==
    ASSUME NEW S, NEW f \in Seq(S)
    PROVE  IsList(f)
<1>1. Len(f) \in Nat /\ f = [k \in 1..Len(f) |-> f[k]]
  OBVIOUS
<1> QED BY <1>1 DEF IsList

(* An id a list has, it has a last entry of.                               *)
LEMMA LastExists ==
    ASSUME NEW list, IsList(list), NEW id \in Ids(list)
    PROVE  \E n : LastOf(list, id, n)
<1>1. PICK S : list \in Seq(S) /\ Len(list) \in Nat /\ DOMAIN list = 1..Len(list)
  BY ListsAreSequences
<1> DEFINE T == {d \in 0..Len(list) : Len(list) - d \in DOMAIN list /\ list[Len(list) - d].id = id}
<1>2. PICK k \in DOMAIN list : list[k].id = id
  BY DEF Ids, Range
<1>3. T # {} /\ T \subseteq Nat
  <2>1. Len(list) - k \in 0..Len(list) /\ Len(list) - (Len(list) - k) = k
    BY <1>1, <1>2
  <2> QED BY <2>1, <1>1, <1>2
<1>4. PICK d \in T : \A e \in T : ~(e < d)
  <2> HIDE DEF T
  <2> QED BY <1>3, LeastNumber
<1>5. ASSUME NEW m \in DOMAIN list, list[m].id = id
      PROVE  m <= Len(list) - d
  <2>1. Len(list) - m \in 0..Len(list) /\ Len(list) - (Len(list) - m) = m
    BY <1>1
  <2>2. Len(list) - m \in T
    BY <2>1, <1>5
  <2>3. ~(Len(list) - m < d)
    BY <1>4, <2>2
  <2> QED BY <1>1, <1>4, <2>3
<1> QED BY <1>4, <1>5 DEF LastOf

LEMMA GroupIsLast ==
    ASSUME NEW list, IsList(list), NEW id, NEW n, LastOf(list, id, n)
    PROVE  GroupOf(list, id) = list[n] /\ id \in Ids(list)
<1>1. DOMAIN list \subseteq Int
  BY ListsAreSequences
<1>2. \A m \in DOMAIN list : (list[m].id = id /\ \A k \in DOMAIN list : list[k].id = id => k <= m) => m = n
  BY <1>1 DEF LastOf
<1> QED BY <1>2 DEF GroupOf, LastOf, Ids, Range

\* The same groups, in whatever order.
SameGroups(a, b) == Ids(a) = Ids(b) /\ \A id \in Ids(a) : GroupOf(a, id) = GroupOf(b, id)

(* However the list is sorted, each id stands for the group it stood for.  *)
LEMMA ReorderKeepsGroups ==
    ASSUME NEW doc, IsList(doc), NEW ids, IsList(ids)
    PROVE  IsList(Reordered(doc, ids)) /\ SameGroups(Reordered(doc, ids), doc)
<1> DEFINE L == Len(doc)
           Rank(n) == IF doc[n].id \in Range(ids) THEN CHOOSE k \in DOMAIN ids : ids[k] = doc[n].id
                      ELSE Len(ids) + 1
           Before(a, b) == Rank(a) < Rank(b) \/ (Rank(a) = Rank(b) /\ a < b)
           B == {p \in (1..L) \X (1..L) : Before(p[1], p[2])}
           Place(n) == PlaceOf(B, L, n)
           byPlace == [k \in 1..L |-> CHOOSE n \in 1..L : Place(n) = k]
           new == Reordered(doc, ids)
<1>1. L \in Nat /\ DOMAIN doc = 1..L /\ Len(ids) \in Nat /\ DOMAIN ids = 1..Len(ids)
  BY ListsAreSequences
<1>2. \A n \in 1..L : Rank(n) \in Int
  BY <1>1 DEF Range
<1>3. \A a, b \in 1..L : <<a, b>> \in B <=> Before(a, b)
  <2> SUFFICES ASSUME NEW a \in 1..L, NEW b \in 1..L
               PROVE  <<a, b>> \in B <=> Before(a, b)
    OBVIOUS
  <2>1. <<a, b>> \in (1..L) \X (1..L) /\ <<a, b>>[1] = a /\ <<a, b>>[2] = b
    OBVIOUS
  <2> HIDE DEF L, Rank
  <2> QED BY <2>1
<1>4. IsLine(B, L)
  <2> HIDE DEF Rank, B
  <2> QED BY <1>1, <1>2, <1>3 DEF IsLine
<1>5. /\ \A n \in 1..L : Place(n) \in 1..L
      /\ \A a, b \in 1..L : <<a, b>> \in B => Place(a) < Place(b)
      /\ \A a, b \in 1..L : Place(a) = Place(b) => a = b
      /\ \A k \in 1..L : \E n \in 1..L : Place(n) = k
  <2> HIDE DEF B
  <2> QED BY <1>1, <1>4, PlacesInLine
<1>6. new = [k \in 1..L |-> doc[byPlace[k]]]
  <2>1. \A n \in 1..L : {m \in DOMAIN doc : m = n \/ Before(m, n)} = {m \in 1..L : m = n \/ <<m, n>> \in B}
    BY <1>1, <1>3
  <2>2. \A n \in 1..L : Cardinality({m \in DOMAIN doc : m = n \/ Before(m, n)}) = Place(n)
    BY <2>1 DEF PlaceOf
  <2>3. new = [k \in DOMAIN doc |-> doc[CHOOSE n \in DOMAIN doc : Cardinality({m \in DOMAIN doc : m = n \/ Before(m, n)}) = k]]
    BY DEF Reordered
  <2>4. \A k \in 1..L : (CHOOSE n \in DOMAIN doc : Cardinality({m \in DOMAIN doc : m = n \/ Before(m, n)}) = k)
                        = (CHOOSE n \in 1..L : Place(n) = k)
    BY <2>2, <1>1
  <2> QED BY <2>3, <2>4, <1>1
<1>7. \A k \in 1..L : byPlace[k] \in 1..L /\ Place(byPlace[k]) = k
  <2> HIDE DEF Place
  <2> QED BY <1>5
<1>8. \A n \in 1..L : byPlace[Place(n)] = n
  <2> HIDE DEF Place, byPlace
  <2> QED BY <1>5, <1>7
<1>9. \A a, b \in 1..L : doc[a].id = doc[b].id /\ a <= b => Place(a) <= Place(b)
  <2> SUFFICES ASSUME NEW a \in 1..L, NEW b \in 1..L, doc[a].id = doc[b].id, a <= b
               PROVE  Place(a) <= Place(b)
    OBVIOUS
  <2>1. CASE a = b
    <3> HIDE DEF Place
    <3> QED BY <2>1, <1>5
  <2>2. CASE a < b
    <3>1. Rank(a) = Rank(b)
      OBVIOUS
    <3>2. <<a, b>> \in B
      <4> HIDE DEF B, Rank
      <4> QED BY <3>1, <2>2, <1>3
    <3> HIDE DEF Place, B
    <3> QED BY <3>2, <1>5
  <2> QED BY <2>1, <2>2
<1>10. IsList(new) /\ DOMAIN new = 1..L /\ \A k \in 1..L : new[k] = doc[byPlace[k]]
  <2> HIDE DEF byPlace, new, L
  <2>1. new = [k \in 1..L |-> new[k]] /\ DOMAIN new = 1..L /\ \A k \in 1..L : new[k] = doc[byPlace[k]]
    BY <1>6
  <2> QED BY <2>1, <1>1 DEF IsList
<1> HIDE DEF Rank, B, Place, byPlace, new, L
<1>11. ASSUME NEW id, NEW n, LastOf(doc, id, n)
       PROVE  GroupOf(new, id) = doc[n] /\ id \in Ids(new)
  <2>1. n \in 1..L /\ Place(n) \in 1..L /\ new[Place(n)] = doc[n]
    BY <1>1, <1>5, <1>8, <1>10, <1>11 DEF LastOf
  <2>2. ASSUME NEW k \in 1..L, new[k].id = id PROVE k <= Place(n)
    <3>1. byPlace[k] \in 1..L /\ doc[byPlace[k]].id = id /\ Place(byPlace[k]) = k
      BY <1>7, <1>10, <2>2
    <3>2. byPlace[k] <= n /\ doc[n].id = id
      BY <3>1, <1>1, <1>11 DEF LastOf
    <3> QED BY <3>1, <3>2, <2>1, <1>9
  <2>3. LastOf(new, id, Place(n))
    BY <2>1, <2>2, <1>10, <1>11 DEF LastOf
  <2>4. GroupOf(new, id) = new[Place(n)] /\ id \in Ids(new)
    BY <2>3, <1>10, GroupIsLast, Zenon
  <2> QED BY <2>1, <2>4
<1>12. Ids(new) \subseteq Ids(doc)
  BY <1>1, <1>7, <1>10 DEF Ids, Range
<1>13. ASSUME NEW id \in Ids(doc)
       PROVE  GroupOf(new, id) = GroupOf(doc, id) /\ id \in Ids(new)
  <2>1. PICK n : LastOf(doc, id, n)
    BY LastExists
  <2> QED BY <2>1, <1>11, GroupIsLast
<1>14. SameGroups(new, doc)
  BY <1>12, <1>13 DEF SameGroups
<1> QED BY <1>10, <1>14 DEF new

-----------------------------------------------------------------------------
GroupKinds == {"create", "update", "file", "delete", "reorder"}

\* A request and the file it read.
IsWriter(w) ==
    /\ w = [kind |-> w.kind, id |-> w.id, sets |-> w.sets, accounts |-> w.accounts, ids |-> w.ids,
            doc |-> w.doc, step |-> w.step, mine |-> w.mine]
    /\ w.kind \in GroupKinds /\ w.step \in {"sent", "read"} /\ w.mine \in BOOLEAN
    /\ IsList(w.ids) /\ IsList(w.doc)

(* A change of one entry leaves a list; so does an entry more or less.     *)
LEMMA ChangedLists ==
    ASSUME NEW f, IsList(f)
    PROVE  /\ \A k, v : IsList([f EXCEPT ![k] = v])
           /\ \A v : IsList(Append(f, v))
           /\ \A k \in DOMAIN f : IsList(RemoveAt(f, k))
<1>1. PICK S : f \in Seq(S) /\ Len(f) \in Nat /\ DOMAIN f = 1..Len(f)
  BY ListsAreSequences
<1>2. ASSUME NEW k, NEW v PROVE IsList([f EXCEPT ![k] = v])
  <2> DEFINE g == [f EXCEPT ![k] = v]
  <2>1. DOMAIN g = 1..Len(f) /\ g = [n \in DOMAIN f |-> IF n = k THEN v ELSE f[n]]
    BY <1>1
  <2> HIDE DEF g
  <2>2. g = [n \in 1..Len(f) |-> g[n]]
    BY <2>1
  <2> QED BY <1>1, <2>2 DEF IsList, g
<1>3. ASSUME NEW v PROVE IsList(Append(f, v))
  <2>1. f \in Seq(S \cup {v})
    BY <1>1
  <2>2. Append(f, v) \in Seq(S \cup {v})
    BY <2>1, AppendProperties
  <2> QED BY <2>2, SequencesAreLists
<1>4. ASSUME NEW k \in DOMAIN f PROVE IsList(RemoveAt(f, k))
  <2>1. SubSeq(f, 1, k - 1) \in Seq(S) /\ SubSeq(f, k + 1, Len(f)) \in Seq(S)
    <3>1. \A n \in 1..k - 1 : f[n] \in S
      BY <1>1, ElementOfSeq
    <3>2. \A n \in k + 1..Len(f) : f[n] \in S
      BY <1>1, ElementOfSeq
    <3> QED BY <1>1, <3>1, <3>2, SubSeqProperties
  <2>2. RemoveAt(f, k) \in Seq(S)
    BY <2>1, ConcatProperties DEF RemoveAt
  <2> QED BY <2>2, SequencesAreLists
<1> QED BY <1>2, <1>3, <1>4

(* An entry of a list there is an id for.                                  *)
LEMMA AtIsThere ==
    ASSUME NEW doc, IsList(doc), NEW id \in Ids(doc)
    PROVE  At(doc, id) \in DOMAIN doc
<1>1. DOMAIN doc \subseteq Nat /\ DOMAIN doc \subseteq Int
  BY ListsAreSequences
<1> DEFINE T == {n \in DOMAIN doc : doc[n].id = id}
<1>2. T # {} /\ T \subseteq Nat
  BY <1>1 DEF Ids, Range
<1>3. PICK n \in T : \A m \in T : ~(m < n)
  <2> HIDE DEF T
  <2> QED BY <1>2, LeastNumber
<1>4. n \in DOMAIN doc /\ doc[n].id = id /\ \A k \in DOMAIN doc : doc[k].id = id => n <= k
  BY <1>1, <1>3
<1> QED BY <1>4 DEF At

(* What a request writes is a list, and the sort leaves every group as it  *)
(* was in the file it read.                                                *)
LEMMA WrittenFiles ==
    ASSUME NEW w, IsWriter(w), IsList(groupsFile)
    PROVE  /\ IsList(FileWritten(w))
           /\ w.kind = "update" /\ w.id \notin Ids(w.doc) => FileWritten(w) = groupsFile
           /\ w.kind = "reorder" => SameGroups(FileWritten(w), w.doc)
<1>0. IsList(w.doc) /\ IsList(w.ids) /\ w.kind \in GroupKinds
  BY DEF IsWriter
<1>1. CASE w.kind = "create"
  <2>1. FileWritten(w) = Append(w.doc, [id |-> NewId(groupsFile, Label), sets |-> w.sets,
                                        accounts |-> w.accounts])
    BY <1>1 DEF FileWritten
  <2> QED BY <1>0, <1>1, <2>1, ChangedLists
<1>2. CASE w.kind = "update"
  <2>1. CASE w.id \in Ids(w.doc)
    <3>1. PICK v : FileWritten(w) = [w.doc EXCEPT ![At(w.doc, w.id)] = v]
      BY <1>2, <2>1 DEF FileWritten
    <3>2. IsList([w.doc EXCEPT ![At(w.doc, w.id)] = v])
      BY <1>0, ChangedLists
    <3> QED BY <1>2, <2>1, <3>1, <3>2
  <2>2. CASE w.id \notin Ids(w.doc)
    <3>1. FileWritten(w) = groupsFile
      BY <1>2, <2>2 DEF FileWritten
    <3> QED BY <1>2, <3>1
  <2> QED BY <2>1, <2>2
<1>3. CASE w.kind = "file"
  <2>1. FileWritten(w) = groupsFile \/ \E v : FileWritten(w) = [w.doc EXCEPT ![At(w.doc, w.id)] = v]
    BY <1>3 DEF FileWritten
  <2>2. \A v : IsList([w.doc EXCEPT ![At(w.doc, w.id)] = v])
    BY <1>0, ChangedLists
  <2> QED BY <1>3, <2>1, <2>2
<1>4. CASE w.kind = "delete"
  <2>1. \/ FileWritten(w) = groupsFile
        \/ w.id \in Ids(w.doc) /\ FileWritten(w) = RemoveAt(w.doc, At(w.doc, w.id))
    BY <1>4 DEF FileWritten
  <2> QED BY <1>0, <1>4, <2>1, ChangedLists, AtIsThere
<1>5. CASE w.kind = "reorder"
  <2>1. FileWritten(w) = Reordered(w.doc, w.ids)
    BY <1>5 DEF FileWritten
  <2> QED BY <1>0, <1>5, <2>1, ReorderKeepsGroups
<1> QED BY <1>0, <1>1, <1>2, <1>3, <1>4, <1>5 DEF GroupKinds

\* Unless writes overlapped or another's came between: one request at most has read a
\* file, the file as it is; and what the tab shows are the groups of the file, until a
\* save of its own is written.
InStep ==
    /\ \A a, b \in writers : a.step = "read" /\ b.step = "read" => a = b
    /\ \A w \in writers : w.step = "read" => w.doc = groupsFile
    /\ saving.step # "refreshes" => SameGroups(shown, groupsFile)
    /\ draft.sets = meant

\* A request the tab waits for.
IsSave(w) == w.mine /\ w.kind # "reorder"

GroupsInv ==
    /\ IsList(groupsFile) /\ IsList(shown)
    /\ \A w \in writers : IsWriter(w)
    /\ draft = [sets |-> draft.sets, accounts |-> draft.accounts]
    /\ \A w \in writers : IsSave(w) => saving.step = "asks"
    /\ \A a, b \in writers : IsSave(a) /\ IsSave(b) => a = b
    /\ ~clashed => InStep

(* What an untouched form of the same groups holds is the same.            *)
LEMMA SameDrafts ==
    ASSUME NEW a, NEW b, SameGroups(a, b), NEW id
    PROVE  DraftFrom(a, id) = DraftFrom(b, id)
BY DEF SameGroups, DraftFrom

LEMMA DraftsAreForms ==
    ASSUME NEW list, NEW id
    PROVE  LET d == DraftFrom(list, id) IN d = [sets |-> d.sets, accounts |-> d.accounts]
BY DEF DraftFrom

(* A request that has read is the request with the file it read.           *)
LEMMA ReadRequest ==
    ASSUME NEW w, IsWriter(w), NEW list, IsList(list)
    PROVE  LET r == [w EXCEPT !.step = "read", !.doc = list] IN
           /\ IsWriter(r) /\ r.step = "read" /\ r.doc = list
           /\ r.kind = w.kind /\ r.mine = w.mine
<1>1. PICK k, i, s, a, l, d, t, m :
          w = [kind |-> k, id |-> i, sets |-> s, accounts |-> a, ids |-> l, doc |-> d,
               step |-> t, mine |-> m]
  BY DEF IsWriter
<1> DEFINE v == [w EXCEPT !.step = "read"]
           r == [v EXCEPT !.doc = list]
<1>2. v = [kind |-> k, id |-> i, sets |-> s, accounts |-> a, ids |-> l, doc |-> d, step |-> "read",
           mine |-> m]
  BY <1>1
<1>3. [w EXCEPT !.step = "read", !.doc = list] = r
  BY Zenon
<1> HIDE DEF v
<1>4. r = [kind |-> k, id |-> i, sets |-> s, accounts |-> a, ids |-> l, doc |-> list, step |-> "read",
           mine |-> m]
  BY <1>2
<1> HIDE DEF r
<1>5. /\ r = [kind |-> r.kind, id |-> r.id, sets |-> r.sets, accounts |-> r.accounts, ids |-> r.ids,
              doc |-> r.doc, step |-> r.step, mine |-> r.mine]
      /\ r.kind = w.kind /\ r.mine = w.mine /\ r.ids = w.ids /\ r.doc = list /\ r.step = "read"
  BY <1>1, <1>4
<1>6. IsWriter(r)
  BY <1>5 DEF IsWriter
<1> QED BY <1>3, <1>5, <1>6

(* A request put on its way has read nothing.                              *)
LEMMA SendingIsSafe ==
    ASSUME GroupsInv, NEW r, IsWriter(r), r.step = "sent", Sends(r),
           UNCHANGED <<groupsFile, shown, draft, meant, clashed>>,
           IF IsSave(r) THEN saving.step = "none" /\ saving'.step = "asks" ELSE saving' = saving
    PROVE  GroupsInv'
<1>1. \A w \in writers' : w \in writers \/ w = r
  BY DEF Sends
<1>2. \A w \in writers' : IsWriter(w)
  BY <1>1 DEF GroupsInv
<1>3. ASSUME ~clashed PROVE InStep'
  <2>1. InStep
    BY <1>3 DEF GroupsInv
  <2>2. \A w \in writers' : w.step = "read" => w \in writers
    BY <1>1
  <2>3. saving'.step # "refreshes" => saving.step # "refreshes"
    OBVIOUS
  <2> QED BY <2>1, <2>2, <2>3 DEF InStep
<1>4. /\ \A w \in writers' : IsSave(w) => saving'.step = "asks"
      /\ \A a, b \in writers' : IsSave(a) /\ IsSave(b) => a = b
  <2>1. CASE IsSave(r)
    <3>1. \A w \in writers : ~IsSave(w)
      BY <2>1 DEF GroupsInv
    <3> QED BY <1>1, <2>1, <3>1
  <2>2. CASE ~IsSave(r)
    BY <1>1, <2>2 DEF GroupsInv
  <2> QED BY <2>1, <2>2
<1> QED BY <1>2, <1>3, <1>4 DEF GroupsInv

(* A request as it is sent.                                                *)
LEMMA CallsAreWriters ==
    ASSUME NEW act \in GroupKinds, NEW id, NEW sets, NEW accounts, NEW ids, IsList(ids)
    PROVE  LET r == GroupCall(act, id, sets, accounts, ids) IN
           IsWriter(r) /\ r.step = "sent" /\ (IsSave(r) <=> act \notin {"file", "reorder"})
<1>1. IsList(<< >>)
  <2>1. << >> \in Seq({})
    OBVIOUS
  <2> QED BY <2>1, SequencesAreLists
<1> QED BY <1>1 DEF GroupCall, IsWriter, IsSave

LEMMA GroupsStart == GroupsInit => GroupsInv
<1> SUFFICES ASSUME GroupsInit PROVE GroupsInv
  OBVIOUS
<1>1. SameGroups(shown, groupsFile)
  BY DEF GroupsInit, SameGroups
<1>2. IsList(StoredGroups)
  BY GroupsAssumption, SequencesAreLists
<1>3. draft = [sets |-> draft.sets, accounts |-> draft.accounts]
  BY DraftsAreForms DEF GroupsInit
<1>4. draft.sets = {}
  BY GroupsAssumption DEF GroupsInit, DraftFrom
<1> QED BY <1>1, <1>2, <1>3, <1>4 DEF GroupsInit, GroupsInv, InStep, Resting, IsSave

LEMMA GroupsStep == GroupsInv /\ [GroupsNext]_groupsVars => GroupsInv'
<1> SUFFICES ASSUME GroupsInv, [GroupsNext]_groupsVars PROVE GroupsInv'
  OBVIOUS
<1>0. IsList(<< >>)
  <2>1. << >> \in Seq({})
    OBVIOUS
  <2> QED BY <2>1, SequencesAreLists
<1>1. ASSUME NEW w \in writers, WriterReads(w) PROVE GroupsInv'
  <2> DEFINE r == [w EXCEPT !.step = "read", !.doc = groupsFile]
  <2>1. IsWriter(w) /\ IsList(groupsFile)
    BY DEF GroupsInv
  <2>0. IsWriter(r) /\ r.step = "read" /\ r.doc = groupsFile /\ r.kind = w.kind /\ r.mine = w.mine
    BY <2>1, ReadRequest, Zenon
  <2>3. writers' = (writers \ {w}) \cup {r} /\ UNCHANGED <<groupsFile, shown, draft, meant, saving>>
    BY <1>1 DEF WriterReads
  <2>4. clashed' = (clashed \/ \E other \in writers : other.step = "read")
    BY <1>1 DEF WriterReads
  <2> HIDE DEF r
  <2>2. IsWriter(r) /\ r.step = "read" /\ r.doc = groupsFile /\ (IsSave(r) <=> IsSave(w))
    BY <2>0 DEF IsSave
  <2>6. \A x \in writers' : x = r \/ (x \in writers /\ x # w)
    BY <2>3
  <2>7. ASSUME ~clashed' PROVE InStep'
    <3>1. InStep /\ \A other \in writers : other.step # "read"
      BY <2>4, <2>7 DEF GroupsInv
    <3> QED BY <3>1, <2>2, <2>3, <2>6 DEF InStep
  <2>8. /\ \A x \in writers' : IsSave(x) => saving'.step = "asks"
        /\ \A a, b \in writers' : IsSave(a) /\ IsSave(b) => a = b
    <3>1. \A x \in writers : IsSave(x) /\ IsSave(w) => x = w
      BY DEF GroupsInv
    <3>2. \A x \in writers : IsSave(x) => saving.step = "asks"
      BY DEF GroupsInv
    <3>3. \A a, b \in writers : IsSave(a) /\ IsSave(b) => a = b
      BY DEF GroupsInv
    <3> QED BY <2>2, <2>3, <2>6, <3>1, <3>2, <3>3
  <2>9. IsList(groupsFile') /\ IsList(shown') /\ draft' = [sets |-> draft'.sets, accounts |-> draft'.accounts]
    BY <2>3 DEF GroupsInv
  <2>10. \A x \in writers' : IsWriter(x)
    BY <2>2, <2>6 DEF GroupsInv
  <2> QED BY <2>7, <2>8, <2>9, <2>10 DEF GroupsInv
<1>2. ASSUME NEW w \in writers, Writes(w) PROVE GroupsInv'
  <2>1. IsWriter(w) /\ IsList(groupsFile)
    BY DEF GroupsInv
  <2>2. /\ w.step = "read" /\ groupsFile' = FileWritten(w) /\ writers' = writers \ {w}
        /\ clashed' = (clashed \/ ~w.mine)
        /\ UNCHANGED <<shown, draft, meant>>
    BY <1>2 DEF Writes
  <2>3. IsList(groupsFile')
    BY <2>1, <2>2, WrittenFiles
  <2>4. ASSUME ~clashed' PROVE InStep'
    <3>1. InStep /\ w.mine /\ w.doc = groupsFile
      BY <2>2, <2>4 DEF GroupsInv, InStep
    <3>2. \A x \in writers' : x \in writers /\ x.step # "read"
      BY <2>2, <3>1 DEF InStep
    <3>3. ASSUME saving'.step # "refreshes" PROVE SameGroups(shown', groupsFile')
      <4>1. CASE w.kind = "reorder"
        <5>1. saving' = saving /\ SameGroups(FileWritten(w), groupsFile)
          BY <1>2, <2>1, <3>1, <4>1, WrittenFiles DEF Writes
        <5>2. SameGroups(shown, groupsFile)
          BY <3>1, <3>3, <5>1 DEF InStep
        <5> QED BY <2>2, <5>1, <5>2 DEF SameGroups
      <4>2. CASE w.kind = "update" /\ w.id \notin Ids(w.doc)
        <5>1. groupsFile' = groupsFile
          BY <2>1, <2>2, <4>2, WrittenFiles
        <5>2. saving.step = "asks"
          BY <3>1, <4>2 DEF GroupsInv, IsSave
        <5>3. SameGroups(shown, groupsFile)
          BY <3>1, <5>2 DEF InStep
        <5> QED BY <2>2, <5>1, <5>3
      <4>3. CASE w.kind # "reorder" /\ ~(w.kind = "update" /\ w.id \notin Ids(w.doc))
        <5>1. saving'.step = "refreshes"
          BY <1>2, <3>1, <4>3 DEF Writes
        <5> QED BY <3>3, <5>1
      <4> QED BY <4>1, <4>2, <4>3
    <3> QED BY <2>2, <3>1, <3>2, <3>3 DEF InStep
  <2>5. /\ \A x \in writers' : IsSave(x) => saving'.step = "asks"
        /\ \A a, b \in writers' : IsSave(a) /\ IsSave(b) => a = b
    <3>1. CASE IsSave(w)
      <4>1. \A x \in writers' : ~IsSave(x)
        BY <2>2, <3>1 DEF GroupsInv
      <4> QED BY <4>1
    <3>2. CASE ~IsSave(w)
      <4>1. saving' = saving
        BY <1>2, <2>1, <3>2 DEF Writes, IsSave, IsWriter
      <4> QED BY <2>2, <4>1 DEF GroupsInv
    <3> QED BY <3>1, <3>2
  <2> QED BY <2>2, <2>3, <2>4, <2>5 DEF GroupsInv
<1>3. ASSUME NEW id, Select(id) PROVE GroupsInv'
  <2>1. /\ clashed' = (clashed \/ writers # {} \/ saving.step # "none")
        /\ id # selected /\ Selects(shown, id)
        /\ UNCHANGED <<groupsFile, writers, shown, saving>>
    BY <1>3 DEF Select
  <2>2. draft' = DraftFrom(shown, id) /\ meant' = DraftFrom(groupsFile, id).sets
    BY <2>1 DEF Selects
  <2>3. draft' = [sets |-> draft'.sets, accounts |-> draft'.accounts]
    BY <2>2, DraftsAreForms
  <2>4. ASSUME ~clashed' PROVE InStep'
    <3>1. InStep /\ saving.step # "refreshes"
      BY <2>1, <2>4 DEF GroupsInv
    <3>2. DraftFrom(shown, id) = DraftFrom(groupsFile, id)
      BY <3>1, SameDrafts DEF InStep
    <3> QED BY <2>1, <2>2, <3>1, <3>2 DEF InStep
  <2> QED BY <2>1, <2>3, <2>4 DEF GroupsInv
<1>4. ASSUME NEW set, TickBox(set) PROVE GroupsInv'
  <2>1. PICK those : draft' = [draft EXCEPT !.sets = those] /\ (draft.sets = meant => meant' = those)
    BY <1>4 DEF TickBox
  <2>2. UNCHANGED <<groupsFile, writers, shown, saving, clashed>>
    BY <1>4 DEF TickBox
  <2>3. draft'.sets = those /\ draft' = [sets |-> draft'.sets, accounts |-> draft'.accounts]
    BY <2>1 DEF GroupsInv
  <2>4. ASSUME ~clashed' PROVE InStep'
    BY <2>1, <2>2, <2>3, <2>4 DEF GroupsInv, InStep
  <2> QED BY <2>2, <2>3, <2>4 DEF GroupsInv
<1>5. ASSUME NEW account, TickAccount(account) PROVE GroupsInv'
  <2>1. PICK those : draft' = [draft EXCEPT !.accounts = those]
    BY <1>5 DEF TickAccount
  <2>2. UNCHANGED <<groupsFile, writers, shown, saving, clashed, meant>>
    BY <1>5 DEF TickAccount
  <2>3. draft'.sets = draft.sets /\ draft' = [sets |-> draft'.sets, accounts |-> draft'.accounts]
    BY <2>1 DEF GroupsInv
  <2>4. ASSUME ~clashed' PROVE InStep'
    BY <2>2, <2>3, <2>4 DEF GroupsInv, InStep
  <2> QED BY <2>2, <2>3, <2>4 DEF GroupsInv
<1>6. ASSUME SaveGroup PROVE GroupsInv'
  <2> DEFINE act == IF selected \in Ids(shown) THEN "update" ELSE "create"
             r == GroupCall(act, selected, draft.sets, draft.accounts, << >>)
  <2>2. /\ Sends(r) /\ saving.step = "none" /\ saving' = [Resting EXCEPT !.step = "asks"]
        /\ UNCHANGED <<groupsFile, shown, draft, meant, clashed>>
    BY <1>6 DEF SaveGroup
  <2>3. act \in {"update", "create"}
    OBVIOUS
  <2>4. saving'.step = "asks"
    BY <2>2 DEF Resting
  <2> HIDE DEF r, act
  <2>5. IsWriter(r) /\ r.step = "sent" /\ IsSave(r)
    BY <1>0, <2>3, CallsAreWriters DEF GroupKinds, r
  <2> QED BY <2>2, <2>4, <2>5, SendingIsSafe
<1>7. ASSUME DeleteGroup PROVE GroupsInv'
  <2> DEFINE r == GroupCall("delete", selected, {}, {}, << >>)
  <2>2. /\ Sends(r) /\ saving.step = "none" /\ saving' = [Resting EXCEPT !.step = "asks"]
        /\ UNCHANGED <<groupsFile, shown, draft, meant, clashed>>
    BY <1>7 DEF DeleteGroup
  <2>3. saving'.step = "asks"
    BY <2>2 DEF Resting
  <2> HIDE DEF r
  <2>4. IsWriter(r) /\ r.step = "sent" /\ IsSave(r)
    BY <1>0, CallsAreWriters DEF GroupKinds, r
  <2> QED BY <2>2, <2>3, <2>4, SendingIsSafe
<1>8. ASSUME NEW n \in DOMAIN shown, Move(n) PROVE GroupsInv'
  <2> DEFINE known == [k \in DOMAIN shown |-> shown[k].id]
             swapped == [known EXCEPT ![n] = known[n + 1], ![n + 1] = known[n]]
             r == GroupCall("reorder", NoGroup, {}, {}, swapped)
  <2>2. Sends(r) /\ UNCHANGED <<groupsFile, shown, draft, saving, meant, clashed>>
    BY <1>8 DEF Move
  <2>3. IsList(swapped)
    <3>1. IsList(known)
      <4>1. Len(shown) \in Nat /\ DOMAIN shown = 1..Len(shown)
        BY ListsAreSequences DEF GroupsInv
      <4>2. known = [k \in 1..Len(shown) |-> known[k]]
        BY <4>1
      <4> HIDE DEF known
      <4> QED BY <4>1, <4>2 DEF IsList
    <3> HIDE DEF known
    <3> DEFINE half == [known EXCEPT ![n] = known[n + 1]]
    <3>2. IsList(half)
      BY <3>1, ChangedLists
    <3>3. swapped = [half EXCEPT ![n + 1] = known[n]]
      BY Zenon
    <3> HIDE DEF half, swapped
    <3> QED BY <3>2, <3>3, ChangedLists
  <2> HIDE DEF r, swapped
  <2>4. IsWriter(r) /\ r.step = "sent" /\ ~IsSave(r)
    BY <2>3, CallsAreWriters DEF GroupKinds, r
  <2> QED BY <2>2, <2>4, SendingIsSafe
<1>9. ASSUME NEW id, NEW set, FileSet(id, set) PROVE GroupsInv'
  <2> DEFINE r == GroupCall("file", id, {set}, {}, << >>)
  <2>2. Sends(r) /\ UNCHANGED <<groupsFile, shown, draft, saving, meant, clashed>>
    BY <1>9 DEF FileSet
  <2> HIDE DEF r
  <2>3. IsWriter(r) /\ r.step = "sent" /\ ~IsSave(r)
    BY <1>0, CallsAreWriters DEF GroupKinds, r
  <2> QED BY <2>2, <2>3, SendingIsSafe
<1>10. ASSUME Refreshed PROVE GroupsInv'
  <2>1. /\ saving.step = "refreshes" /\ shown' = groupsFile /\ saving' = Resting
        /\ UNCHANGED <<groupsFile, writers, clashed>>
    BY <1>10 DEF Refreshed
  <2>2. \/ UNCHANGED <<draft, meant>>
        \/ \E id : draft' = DraftFrom(groupsFile, id) /\ meant' = DraftFrom(groupsFile, id).sets
    BY <1>10 DEF Refreshed, SelectsFetched, Selects
  <2>3. draft' = [sets |-> draft'.sets, accounts |-> draft'.accounts]
    BY <2>2, DraftsAreForms DEF GroupsInv
  <2>4. ASSUME ~clashed' PROVE InStep'
    <3>1. InStep
      BY <2>1, <2>4 DEF GroupsInv
    <3>2. SameGroups(shown', groupsFile') /\ draft'.sets = meant'
      BY <2>1, <2>2, <3>1 DEF SameGroups, InStep
    <3> QED BY <2>1, <3>1, <3>2 DEF InStep
  <2>5. \A x \in writers : ~IsSave(x)
    BY <2>1 DEF GroupsInv
  <2> QED BY <2>1, <2>3, <2>4, <2>5 DEF GroupsInv
<1>11. ASSUME Fetches PROVE GroupsInv'
  <2>1. shown' = groupsFile /\ UNCHANGED <<groupsFile, writers, saving, clashed, draft, meant>>
    BY <1>11 DEF Fetches
  <2>2. ASSUME ~clashed' PROVE InStep'
    BY <2>1, <2>2 DEF GroupsInv, InStep, SameGroups
  <2> QED BY <2>1, <2>2 DEF GroupsInv
<1>12. ASSUME UNCHANGED groupsVars PROVE GroupsInv'
  BY <1>12 DEF groupsVars, GroupsInv, InStep
<1> QED BY <1>1, <1>2, <1>3, <1>4, <1>5, <1>6, <1>7, <1>8, <1>9, <1>10, <1>11, <1>12 DEF GroupsNext

(* GroupsModal.tsx: a save never un-files what the person did not touch.   *)
(* For any household and any orders of its groups, what the form holds is  *)
(* what the file held when it was filled with this person's ticks on top,  *)
(* unless two writes overlap, somebody else writes or a group is selected  *)
(* before the last request is done with.                                   *)
THEOREM FormStaysWithTheFile == GroupsSpec => []FormKeepsTheFile
<1>1. GroupsInv => FormKeepsTheFile
  BY DEF GroupsInv, InStep, FormKeepsTheFile
<1> QED BY <1>1, GroupsStart, GroupsStep, PTL DEF GroupsSpec

-----------------------------------------------------------------------------
(* GridEdits.  A drop is judged when the server takes it, against the list *)
(* the tab knew when it was made.  What it asks for is then a list of what *)
(* was known, in which the others have the order they had.                 *)

LEMMA InsertedLists ==
    ASSUME NEW S, NEW s \in Seq(S), NEW n \in 1..Len(s) + 1, NEW e \in S
    PROVE  /\ InsertAt(s, n, e) \in Seq(S) /\ Len(InsertAt(s, n, e)) = Len(s) + 1
           /\ Range(InsertAt(s, n, e)) = Range(s) \cup {e}
           /\ \A A : e \notin A => Only(InsertAt(s, n, e), A) = Only(s, A)
<1> DEFINE a == SubSeq(s, 1, n - 1)
           b == SubSeq(s, n, Len(s))
           t == InsertAt(s, n, e)
<1>0. Len(s) \in Nat /\ n \in Int /\ n - 1 \in Int /\ Len(s) \in Int /\ 1 \in Int
  BY LenProperties
<1>1. a \in Seq(S) /\ b \in Seq(S) /\ <<e>> \in Seq(S)
  <2>1. \A i \in 1..n - 1 : s[i] \in S
    BY <1>0, ElementOfSeq
  <2>2. \A i \in n..Len(s) : s[i] \in S
    BY <1>0, ElementOfSeq
  <2> QED BY <1>0, <2>1, <2>2, SubSeqProperties
<1>2. a \o b = s
  <2>1. /\ 1 \in 1..Len(s) + 1 /\ n - 1 \in 1 - 1..Len(s) /\ Len(s) \in n - 1..Len(s)
        /\ n - 1 + 1 = n
    BY <1>0
  <2>2. SubSeq(s, 1, n - 1) \o SubSeq(s, n - 1 + 1, Len(s)) = SubSeq(s, 1, Len(s))
    BY ONLY <2>1, s \in Seq(S), ConcatAdjacentSubSeq
  <2> QED BY <2>1, <2>2, SubSeqFull
<1>3. t = (a \o <<e>>) \o b
  BY DEF InsertAt
<1> HIDE DEF a, b, t
<1>4. a \o <<e>> \in Seq(S) /\ t \in Seq(S)
  BY <1>1, <1>3, ConcatProperties
<1>5. Len(t) = Len(a) + Len(<<e>>) + Len(b) /\ Len(s) = Len(a) + Len(b) /\ Len(<<e>>) = 1
  BY <1>1, <1>2, <1>3, <1>4, ConcatProperties
<1>6. Range(t) = Range(s) \cup {e}
  <2>1. Range(<<e>>) = {e}
    BY DEF Range
  <2>2. Range(t) = Range(a \o <<e>>) \cup Range(b)
    <3> DEFINE u == a \o <<e>>
    <3>1. u \in Seq(S) /\ b \in Seq(S) /\ t = u \o b
      BY <1>1, <1>3, <1>4
    <3> HIDE DEF u
    <3>2. Range(t) = Range(u) \cup Range(b)
      BY <3>1, RangeConcatenation
    <3> QED BY <3>2 DEF u
  <2>3. Range(a \o <<e>>) = Range(a) \cup Range(<<e>>)
    BY <1>1, RangeConcatenation
  <2>4. Range(s) = Range(a) \cup Range(b)
    BY <1>1, <1>2, RangeConcatenation
  <2> QED BY <2>1, <2>2, <2>3, <2>4
<1>7. ASSUME NEW A, e \notin A PROVE Only(t, A) = Only(s, A)
  <2>1. Only(<<e>>, A) = << >>
    <3>1. Range(<<e>>) \cap A = {}
      BY <1>7 DEF Range
    <3> QED BY <1>1, <3>1, OnlyNone
  <2>0. \A x, y \in Seq(S) : Only(x \o y, A) = Only(x, A) \o Only(y, A)
    BY OnlyOfConcat
  <2>2. Only(t, A) = Only(a \o <<e>>, A) \o Only(b, A)
    BY <1>1, <1>3, <1>4, <2>0
  <2>3. Only(a \o <<e>>, A) = Only(a, A) \o Only(<<e>>, A)
    BY <1>1, <2>0
  <2>4. Only(s, A) = Only(a, A) \o Only(b, A)
    BY <1>1, <1>2, <2>0
  <2>5. Only(a, A) \o << >> = Only(a, A)
    BY <1>1, OnlyIsAList, ConcatEmptySeq
  <2> QED BY <2>1, <2>2, <2>3, <2>4, <2>5
<1>8. Len(a) \in Nat /\ Len(b) \in Nat
  BY <1>1, LenProperties
<1> QED BY <1>4, <1>5, <1>6, <1>7, <1>8 DEF t

LEMMA WithoutKeys ==
    ASSUME NEW S, NEW s \in Seq(S), NEW A
    PROVE  /\ WithoutKey(s, A) \in Seq(S) /\ Range(WithoutKey(s, A)) = Range(s) \ A
           /\ IsDistinct(s) => IsDistinct(WithoutKey(s, A))
           /\ \A B : A \cap B = {} => Only(WithoutKey(s, A), B) = Only(s, B)
           /\ Range(s) \cap A = {} => WithoutKey(s, A) = s
           /\ Range(s) \subseteq A => WithoutKey(s, A) = << >>
<1>1. WithoutKey(s, A) = Only(s, Range(s) \ A)
  BY DEF WithoutKey
<1>2. ASSUME NEW B, A \cap B = {} PROVE Only(WithoutKey(s, A), B) = Only(s, B)
  <2>1. Only(WithoutKey(s, A), B) = Only(s, (Range(s) \ A) \cap B)
    BY <1>1, OnlyOfOnly
  <2>2. ((Range(s) \ A) \cap B) \cap Range(s) = B \cap Range(s)
    BY <1>2
  <2> QED BY <2>1, <2>2, OnlySame
<1>3. Range(s) \cap A = {} => WithoutKey(s, A) = s
  <2>1. Range(s) \cap A = {} => Range(s) \subseteq Range(s) \ A
    OBVIOUS
  <2> QED BY <1>1, <2>1, OnlyAll
<1>4. Range(s) \subseteq A => WithoutKey(s, A) = << >>
  <2>1. Range(s) \subseteq A => Range(s) \cap (Range(s) \ A) = {}
    OBVIOUS
  <2> QED BY <1>1, <2>1, OnlyNone
<1>5. Range(WithoutKey(s, A)) = Range(s) \ A
  BY <1>1, OnlyRange
<1> QED BY <1>1, <1>2, <1>3, <1>4, <1>5, OnlyIsAList, OnlyIsDistinct

(* What is dragged moves, and nothing else does.                           *)
LEMMA DraggedLists ==
    ASSUME NEW S, NEW cards \in Seq(S), NEW e \in S, NEW n \in Slots(cards, e)
    PROVE  /\ Dragged(cards, e, n) \in Seq(S)
           /\ Range(Dragged(cards, e, n)) = Range(cards) \cup {e}
           /\ \A A : e \notin A => Only(Dragged(cards, e, n), A) = Only(cards, A)
           /\ IsDistinct(cards) => IsDistinct(Dragged(cards, e, n))
           /\ IsDistinct(cards) /\ e \in Range(cards) => Len(Dragged(cards, e, n)) = Len(cards)
<1> DEFINE w == WithoutKey(cards, {e})
           t == Dragged(cards, e, n)
<1>1. w \in Seq(S) /\ Range(w) = Range(cards) \ {e} /\ (IsDistinct(cards) => IsDistinct(w))
      /\ \A B : {e} \cap B = {} => Only(w, B) = Only(cards, B)
  BY WithoutKeys
<1>2. t = InsertAt(w, n, e) /\ n \in 1..Len(w) + 1
  BY DEF Dragged, Slots
<1> HIDE DEF w, t
<1>3. t \in Seq(S) /\ Len(t) = Len(w) + 1 /\ Range(t) = Range(w) \cup {e}
      /\ \A A : e \notin A => Only(t, A) = Only(w, A)
  BY <1>1, <1>2, InsertedLists
<1>4. \A A : e \notin A => Only(t, A) = Only(cards, A)
  BY <1>1, <1>3
<1>5. IsDistinct(cards) => IsDistinct(t)
  <2> SUFFICES ASSUME IsDistinct(cards) PROVE IsDistinct(t)
    OBVIOUS
  <2>1. IsFiniteSet(Range(w)) /\ Cardinality(Range(w)) = Len(w) /\ e \notin Range(w)
    BY <1>1, RangesAreFinite DEF IsDistinct
  <2>2. Cardinality(Range(w) \cup {e}) = Cardinality(Range(w)) + 1
    BY <2>1, FS_AddElement
  <2> QED BY <1>3, <2>1, <2>2 DEF IsDistinct
<1>6. Range(t) = Range(cards) \cup {e}
  BY <1>1, <1>3
<1>7. IsDistinct(cards) /\ e \in Range(cards) => Len(t) = Len(cards)
  <2>1. e \in Range(cards) => Range(t) = Range(cards)
    BY <1>6
  <2> QED BY <1>5, <2>1 DEF IsDistinct
<1> QED BY <1>3, <1>4, <1>5, <1>6, <1>7 DEF t

(* The hidden ones stay where they are, and those on screen follow in the  *)
(* order they are given.                                                   *)
LEMMA SplicedLists ==
    ASSUME NEW S, NEW full \in Seq(S), NEW visible \in Seq(S), Range(visible) \subseteq Range(full),
           Len(Only(full, Range(visible))) = Len(visible)
    PROVE  /\ SpliceOrder(full, visible) \in Seq(S) /\ Len(SpliceOrder(full, visible)) = Len(full)
           /\ \A n \in 1..Len(full) : full[n] \notin Range(visible) => SpliceOrder(full, visible)[n] = full[n]
           /\ Only(SpliceOrder(full, visible), Range(visible)) = visible
           /\ Range(SpliceOrder(full, visible)) = Range(full)
<1> DEFINE R == Range(visible)
           C(n) == HowMany(full, R, n)
           sp == SpliceOrder(full, visible)
<1>1. Len(full) \in Nat /\ DOMAIN full = 1..Len(full) /\ Len(visible) \in Nat /\ DOMAIN visible = 1..Len(visible)
  BY LenProperties
<1>2. \A n \in 1..Len(full) : sp[n] = IF full[n] \in R THEN visible[C(n)] ELSE full[n]
  BY <1>1 DEF SpliceOrder, HowMany
<1>3. sp = [n \in 1..Len(full) |-> sp[n]]
  BY <1>1 DEF SpliceOrder
<1>4. C(Len(full)) = Len(visible)
  BY OnlyCounts
<1>5. \A n \in 1..Len(full) : C(n) <= Len(visible)
  <2> SUFFICES ASSUME NEW n \in 1..Len(full) PROVE C(n) <= C(Len(full))
    BY <1>4
  <2>1. IsFiniteSet(1..Len(full))
    <3>1. Len(full) \in Int /\ 1 \in Int
      BY <1>1
    <3> QED BY ONLY <3>1, FS_Interval
  <2>2. {k \in 1..Len(full) : full[k] \in R} \in SUBSET (1..Len(full))
    OBVIOUS
  <2>3. IsFiniteSet({k \in 1..Len(full) : full[k] \in R})
    BY <2>1, <2>2, FS_Subset
  <2>4. {k \in 1..n : full[k] \in R} \in SUBSET {k \in 1..Len(full) : full[k] \in R}
    BY <1>1
  <2> QED BY <2>3, <2>4, FS_Subset DEF HowMany
<1>6. /\ C(0) = 0
      /\ \A n \in 1..Len(full) : /\ n - 1 \in Nat /\ C(n) \in Nat /\ C(n - 1) \in Nat
                                 /\ C(n) = C(n - 1) + IF full[n] \in R THEN 1 ELSE 0
  <2>1. C(0) = 0
    BY HowManyByOne
  <2>2. ASSUME NEW n \in 1..Len(full)
        PROVE  /\ n - 1 \in Nat /\ C(n) \in Nat /\ C(n - 1) \in Nat
               /\ C(n) = C(n - 1) + IF full[n] \in R THEN 1 ELSE 0
    <3>1. n \in Nat /\ n - 1 \in Nat /\ n # 0
      BY <1>1
    <3> QED BY ONLY <3>1, HowManyByOne
  <2> QED BY <2>1, <2>2
<1> HIDE DEF C, sp
<1>7. \A n \in 1..Len(full) : full[n] \in R => C(n) \in 1..Len(visible) /\ visible[C(n)] \in R /\ visible[C(n)] \in S
  <2> SUFFICES ASSUME NEW n \in 1..Len(full), full[n] \in R PROVE C(n) \in 1..Len(visible)
    BY <1>1, ElementOfSeq DEF Range
  <2> QED BY <1>1, <1>5, <1>6
<1>8. \A n \in 1..Len(full) : sp[n] \in S
  BY <1>2, <1>7, ElementOfSeq
<1>9. sp \in Seq(S) /\ Len(sp) = Len(full)
  <2>1. sp \in [1..Len(full) -> S]
    BY <1>3, <1>8
  <2>2. sp \in Seq(S)
    BY <1>1, <2>1, SeqDef
  <2>3. DOMAIN sp = 1..Len(full) /\ DOMAIN sp = 1..Len(sp)
    BY <2>1, <2>2, LenProperties
  <2> QED BY <1>1, <2>2, <2>3, LenProperties
<1> DEFINE G == {n \in 0..Len(full) : Only(SubSeq(sp, 1, n), R) = SubSeq(visible, 1, C(n))}
<1>10. 0 \in G
  <2>1. SubSeq(sp, 1, 0) = << >> /\ SubSeq(visible, 1, 0) = << >>
    <3>1. 1 \in Int /\ 0 \in Int /\ 0 < 1
      OBVIOUS
    <3> QED BY ONLY <3>1, SubSeqEmpty
  <2>2. Only(SubSeq(sp, 1, 0), R) = SubSeq(visible, 1, C(0))
    BY <1>6, <2>1, OnlyOfNone
  <2>3. 0 \in 0..Len(full)
    BY <1>1
  <2> QED BY <2>2, <2>3
<1>11. ASSUME NEW n \in 1..Len(full), n - 1 \in G PROVE n \in G
  <2>1. n - 1 \in Int /\ n \in 0..Len(full) /\ 1 \in 1..Len(sp) /\ n \in 1..Len(sp) /\ sp[n] \in S
    BY <1>1, <1>8, <1>9
  <2>2. SubSeq(sp, 1, n - 1) \in Seq(S)
    <3>1. \A i \in 1..n - 1 : sp[i] \in S
      BY <1>1, <1>8
    <3> QED BY <2>1, <3>1, SubSeqProperties
  <2>3. SubSeq(sp, 1, n) = Append(SubSeq(sp, 1, n - 1), sp[n])
    <3>1. SubSeq(sp, 1, n) = SubSeq(sp, 1, n - 1) \o <<sp[n]>>
      BY <1>9, <2>1, SubSeqRecursiveSecond
    <3> QED BY <2>1, <2>2, <3>1, AppendIsConcat
  <2>4. Only(SubSeq(sp, 1, n), R) = IF sp[n] \in R THEN Append(Only(SubSeq(sp, 1, n - 1), R), sp[n])
                                    ELSE Only(SubSeq(sp, 1, n - 1), R)
    <3>1. \A l \in Seq(S), x \in S : Only(Append(l, x), R) = IF x \in R THEN Append(Only(l, R), x) ELSE Only(l, R)
      BY OnlyOfAppend
    <3> QED BY <2>1, <2>2, <2>3, <3>1
  <2>5. Only(SubSeq(sp, 1, n - 1), R) = SubSeq(visible, 1, C(n - 1))
    BY <1>11
  <2>6. CASE full[n] \in R
    <3>1. /\ sp[n] = visible[C(n)] /\ sp[n] \in R /\ C(n) \in 1..Len(visible) /\ 1 \in 1..Len(visible)
          /\ C(n) - 1 = C(n - 1) /\ C(n) - 1 \in Int /\ C(n) \in Int
      BY <1>1, <1>2, <1>6, <1>7, <2>6
    <3>2. SubSeq(visible, 1, C(n)) = SubSeq(visible, 1, C(n) - 1) \o <<visible[C(n)]>>
      BY ONLY <3>1, visible \in Seq(S), SubSeqRecursiveSecond
    <3>3. SubSeq(visible, 1, C(n) - 1) \in Seq(S)
      <4>1. \A i \in 1..C(n) - 1 : visible[i] \in S
        BY <1>1, <3>1, ElementOfSeq
      <4> QED BY <3>1, <4>1, SubSeqProperties
    <3>4. SubSeq(visible, 1, C(n)) = Append(SubSeq(visible, 1, C(n - 1)), sp[n])
      BY <2>1, <3>1, <3>2, <3>3, AppendIsConcat
    <3> QED BY <2>1, <2>4, <2>5, <3>1, <3>4
  <2>7. CASE full[n] \notin R
    <3>1. sp[n] = full[n] /\ C(n) = C(n - 1)
      BY <1>2, <1>6, <2>7
    <3> QED BY <2>1, <2>4, <2>5, <2>7, <3>1
  <2> QED BY <2>6, <2>7
<1>12. Len(full) \in G
  <2>1. \A n \in 1..Len(full) : n - 1 \in G => n \in G
    BY <1>11
  <2> HIDE DEF G
  <2>2. \A n \in 0..Len(full) : n \in G
    BY <1>1, <1>10, <2>1, Climbing
  <2> QED BY <1>1, <2>2
<1>13. Only(sp, R) = visible
  <2>1. SubSeq(sp, 1, Len(full)) = sp /\ SubSeq(visible, 1, Len(visible)) = visible
    BY <1>9, SubSeqFull
  <2> QED BY <1>4, <1>12, <2>1
<1>14. Range(sp) = Range(full)
  <2>1. DOMAIN sp = 1..Len(full)
    BY <1>9, LenProperties
  <2>2. ASSUME NEW n \in 1..Len(full) PROVE sp[n] \in Range(full)
    BY <1>1, <1>2, <1>7 DEF Range
  <2>3. ASSUME NEW n \in 1..Len(full) PROVE full[n] \in Range(sp)
    <3>1. CASE full[n] \in R
      <4>1. Range(sp) \cap R = R
        BY <1>9, <1>13, OnlyRange
      <4> QED BY <3>1, <4>1
    <3>2. CASE full[n] \notin R
      BY <1>2, <2>1, <3>2 DEF Range
    <3> QED BY <3>1, <3>2
  <2> QED BY <1>1, <2>1, <2>2, <2>3 DEF Range
<1> QED BY <1>2, <1>9, <1>13, <1>14 DEF sp

(* An order that names only what is there, and all of K, leaves K as it    *)
(* names it.                                                               *)
LEMMA AppliedOrders ==
    ASSUME NEW S, NEW seq \in Seq(S), NEW keys \in Seq(S)
    PROVE  /\ ApplyOrder(seq, keys) \in Seq(S)
           /\ IsDistinct(seq) /\ IsDistinct(keys) => IsDistinct(ApplyOrder(seq, keys))
           /\ \A K : K \subseteq Range(keys) /\ Range(keys) \subseteq Range(seq)
                         => Only(ApplyOrder(seq, keys), K) = Only(keys, K)
<1> DEFINE a == Only(keys, Range(seq))
           b == WithoutKey(seq, Range(keys))
<1>1. a \in Seq(S) /\ Range(a) = Range(keys) \cap Range(seq) /\ (IsDistinct(keys) => IsDistinct(a))
      /\ (Range(keys) \subseteq Range(seq) => a = keys)
  BY OnlyIsAList, OnlyRange, OnlyIsDistinct, OnlyAll
<1>2. b \in Seq(S) /\ Range(b) = Range(seq) \ Range(keys) /\ (IsDistinct(seq) => IsDistinct(b))
  BY WithoutKeys
<1>3. ApplyOrder(seq, keys) = a \o b
  BY DEF ApplyOrder
<1> HIDE DEF a, b
<1>4. a \o b \in Seq(S)
  BY <1>1, <1>2, ConcatProperties
<1>5. IsDistinct(seq) /\ IsDistinct(keys) => IsDistinct(a \o b)
  <2>1. Range(a) \cap Range(b) = {}
    BY <1>1, <1>2
  <2> QED BY <1>1, <1>2, <2>1, ConcatIsDistinct
<1>6. ASSUME NEW K, K \subseteq Range(keys), Range(keys) \subseteq Range(seq)
      PROVE  Only(a \o b, K) = Only(keys, K)
  <2>1. a \in Seq(S) /\ b \in Seq(S)
    BY <1>1, <1>2
  <2>2. Only(a \o b, K) = Only(a, K) \o Only(b, K)
    BY <2>1, OnlyOfConcat, SMTT(20)
  <2>3. Range(b) \cap K = {}
    BY <1>2, <1>6
  <2>4. Only(b, K) = << >>
    BY <1>2, <2>3, OnlyNone
  <2>5. Only(keys, K) \o << >> = Only(keys, K)
    BY OnlyIsAList, ConcatEmptySeq
  <2> QED BY <1>1, <1>6, <2>2, <2>4, <2>5
<1> QED BY <1>3, <1>4, <1>5, <1>6

-----------------------------------------------------------------------------
GridSets  == Range(Registered)
GridItems == [fromSet : QueueIds, key : AllKeys]

OrderIsRight(cards) == cards \in Seq(GridSets) /\ IsDistinct(cards)
ListsAreRight(queues) == queues \in [QueueIds -> Seq(AllKeys)]

CallIsRight(c) ==
    /\ IF c.kind = "sets" THEN OrderIsRight(c.keys) ELSE c.keys \in Seq(AllKeys)
    /\ c.items \in Seq(GridItems)
    /\ c.kind \in {"order", "move", "moveBulk", "completed", "addTop", "addBottom"} => c.to \in QueueIds
    /\ c.kind = "move" => c.items # << >>
    /\ c.surface = "shelves" => c.kind = "sets"

(* The others follow one another in what is sent as in what was known.     *)
KeepsTheRest(c) ==
    LET rest == c.seen \ {c.dragged} IN
    /\ Range(c.known) \subseteq Range(c.keys) /\ rest \subseteq Range(c.known)
    /\ Only(c.keys, rest) = Only(c.known, rest)

(* A card: the sets it names are those that were known, and one that was   *)
(* hidden has the place it had.                                            *)
CardMoves(c) ==
    /\ c.kind = "sets" /\ c.known \in Seq(GridSets) /\ KeepsTheRest(c)
    /\ Range(c.keys) \subseteq Range(c.known)
    /\ \A n \in DOMAIN c.known : c.known[n] \notin c.seen => c.keys[n] = c.known[n]

(* A poster: nothing of a strip is hidden, and what another strip gives is *)
(* what is dragged.                                                        *)
PosterMoves(c) ==
    /\ c.kind \in {"order", "move"} /\ c.known \in Seq(AllKeys) /\ KeepsTheRest(c)
    /\ Range(c.known) \subseteq c.seen
    /\ IF c.kind = "order" THEN Range(c.keys) \subseteq Range(c.known)
       ELSE Range(c.keys) \subseteq Range(c.known) \cup {c.dragged} /\ Head(c.items).key = c.dragged

GridInv ==
    /\ OrderIsRight(order) /\ OrderIsRight(tabOrder)
    /\ ListsAreRight(lists) /\ ListsAreRight(tabLists)
    /\ picked \in Seq(GridItems)
    /\ \A r \in reads : OrderIsRight(r.order) /\ ListsAreRight(r.lists)
    /\ \A c \in calls : /\ CallIsRight(c)
                        /\ c.surface = "landing" => CardMoves(c)
                        /\ c.surface = "strip"   => PosterMoves(c)
    /\ DropsMoveOne

(***************************************************************************)
(* What lands                                                              *)
(***************************************************************************)
LEMMA PickedKeys ==
    ASSUME NEW items \in Seq(GridItems)
    PROVE  [n \in DOMAIN items |-> items[n].key] \in Seq(AllKeys)
<1>1. Len(items) \in Nat /\ DOMAIN items = 1..Len(items)
  BY LenProperties
<1>2. \A n \in 1..Len(items) : items[n].key \in AllKeys
  <2>1. \A n \in 1..Len(items) : items[n] \in GridItems
    BY ElementOfSeq
  <2> QED BY <2>1 DEF GridItems
<1>3. [n \in DOMAIN items |-> items[n].key] \in [1..Len(items) -> AllKeys]
  BY <1>1, <1>2
<1> QED BY <1>1, <1>3, SeqDef

LEMMA RemovedAreRight ==
    ASSUME ListsAreRight(lists), NEW items
    PROVE  ListsAreRight(Removed(items))
<1>1. ASSUME NEW q \in QueueIds, NEW A PROVE WithoutKey(lists[q], A) \in Seq(AllKeys)
  BY WithoutKeys DEF ListsAreRight
<1> QED BY <1>1 DEF Removed, ListsAreRight

LEMMA MovedInBulkAreRight ==
    ASSUME ListsAreRight(lists), NEW c, CallIsRight(c), c.to \in QueueIds
    PROVE  ListsAreRight(MovedInBulk(c))
<1> DEFINE going == Picked(c.items, {n \in DOMAIN c.items :
                                     /\ c.items[n].fromSet # c.to
                                     /\ c.items[n].key \in Range(lists[c.items[n].fromSet])})
           keys  == [n \in DOMAIN going |-> going[n].key]
           added == Picked(keys, {n \in DOMAIN keys : /\ keys[n] \notin Range(lists[c.to])
                                                      /\ \A k \in 1..(n - 1) : keys[k] # keys[n]})
<1>1. going \in Seq(GridItems)
  BY PickedPicks DEF CallIsRight
<1>2. keys \in Seq(AllKeys)
  <2> HIDE DEF going
  <2> QED BY <1>1, PickedKeys
<1>3. added \in Seq(AllKeys)
  <2> HIDE DEF keys
  <2> QED BY <1>2, PickedPicks
<1>4. MovedInBulk(c) = IF added = << >> THEN lists
                       ELSE [Removed(going) EXCEPT ![c.to] = lists[c.to] \o added]
  BY DEF MovedInBulk
<1> HIDE DEF going, keys, added
<1>5. lists[c.to] \o added \in Seq(AllKeys)
  BY <1>3, ConcatProperties DEF ListsAreRight
<1>6. ListsAreRight(Removed(going))
  BY RemovedAreRight
<1> QED BY <1>4, <1>5, <1>6 DEF ListsAreRight

(* What moveItem leaves: all as it was, or the order it is given.          *)
LEMMA MovedAreRight ==
    ASSUME ListsAreRight(lists), NEW c, CallIsRight(c), c.kind = "move"
    PROVE  /\ ListsAreRight(Moved(c))
           /\ \/ Moved(c) = lists
              \/ \E there \in Seq(AllKeys) :
                    /\ Range(there) = Range(lists[c.to]) \cup {Head(c.items).key}
                    /\ Moved(c)[c.to] = ApplyOrder(there, c.keys)
<1> DEFINE from == Head(c.items).fromSet
           key  == Head(c.items).key
           there == IF key \in Range(lists[c.to]) THEN lists[c.to] ELSE Append(lists[c.to], key)
<1>1. from \in QueueIds /\ key \in AllKeys /\ c.to \in QueueIds /\ c.keys \in Seq(AllKeys)
  <2>1. Head(c.items) \in GridItems
    BY HeadTailProperties DEF CallIsRight
  <2> QED BY <2>1 DEF GridItems, CallIsRight
<1>2. lists[from] \in Seq(AllKeys) /\ lists[c.to] \in Seq(AllKeys) /\ lists \in [QueueIds -> Seq(AllKeys)]
  BY <1>1 DEF ListsAreRight
<1>3. Moved(c) = IF key \notin Range(lists[from]) THEN lists
                 ELSE [lists EXCEPT ![from] = WithoutKey(@, {key}), ![c.to] = ApplyOrder(there, c.keys)]
  BY DEF Moved
<1>4. there \in Seq(AllKeys) /\ Range(there) = Range(lists[c.to]) \cup {key}
  <2>1. /\ Append(lists[c.to], key) \in Seq(AllKeys)
        /\ Range(Append(lists[c.to], key)) = Range(lists[c.to]) \cup {key}
    BY <1>1, <1>2, AppendProperties, RangeOfAppend
  <2> QED BY <1>2, <2>1
<1> HIDE DEF from, key, there
<1>5. WithoutKey(lists[from], {key}) \in Seq(AllKeys) /\ ApplyOrder(there, c.keys) \in Seq(AllKeys)
  BY <1>1, <1>2, <1>4, WithoutKeys, AppliedOrders
<1>6. CASE key \notin Range(lists[from])
  BY <1>3, <1>6
<1>7. CASE key \in Range(lists[from])
  <2> DEFINE f == [lists EXCEPT ![from] = WithoutKey(@, {key}), ![c.to] = ApplyOrder(there, c.keys)]
  <2>1. f \in [QueueIds -> Seq(AllKeys)] /\ f[c.to] = ApplyOrder(there, c.keys)
    BY <1>1, <1>2, <1>5
  <2>2. Moved(c) = f
    BY <1>3, <1>7
  <2> HIDE DEF f
  <2> QED BY <1>4, <2>1, <2>2 DEF ListsAreRight, key
<1> QED BY <1>6, <1>7

LEMMA ListsAfterAreRight ==
    ASSUME ListsAreRight(lists), NEW c, CallIsRight(c)
    PROVE  ListsAreRight(ListsAfter(c))
<1> DEFINE Sets(l) == [lists EXCEPT ![c.to] = l]
<1>1. ASSUME NEW l \in Seq(AllKeys) PROVE ListsAreRight(Sets(l))
  BY DEF ListsAreRight
<1> HIDE DEF Sets
<1>2. c.kind \in {"order", "completed", "addTop", "addBottom"} =>
        c.to \in QueueIds /\ c.keys \in Seq(AllKeys) /\ lists[c.to] \in Seq(AllKeys)
  BY DEF CallIsRight, ListsAreRight
<1>3. CASE c.kind = "order"
  <2>1. ListsAfter(c) = Sets(ApplyOrder(lists[c.to], c.keys))
    BY <1>3 DEF ListsAfter, Sets
  <2>2. ApplyOrder(lists[c.to], c.keys) \in Seq(AllKeys)
    BY <1>2, <1>3, AppliedOrders
  <2> QED BY <1>1, <2>1, <2>2
<1>4. CASE c.kind = "move"
  <2>1. ListsAfter(c) = Moved(c)
    BY <1>4 DEF ListsAfter
  <2> QED BY <1>4, <2>1, MovedAreRight
<1>5. CASE c.kind = "moveBulk"
  <2>1. ListsAfter(c) = MovedInBulk(c)
    BY <1>5 DEF ListsAfter
  <2>2. c.to \in QueueIds
    BY <1>5 DEF CallIsRight
  <2> QED BY <2>1, <2>2, MovedInBulkAreRight
<1>6. CASE c.kind \in {"remove", "removeBulk"}
  <2>1. ListsAfter(c) = Removed(c.items)
    BY <1>6 DEF ListsAfter
  <2> QED BY <2>1, RemovedAreRight
<1>7. CASE c.kind = "completed"
  <2>1. ListsAfter(c) = Sets(WithoutKey(lists[c.to], Flagged))
    BY <1>7 DEF ListsAfter, Sets
  <2>2. WithoutKey(lists[c.to], Flagged) \in Seq(AllKeys)
    BY <1>2, <1>7, WithoutKeys
  <2> QED BY <1>1, <2>1, <2>2
<1>8. CASE c.kind = "addTop"
  <2>1. ListsAfter(c) = Sets(WithoutKey(c.keys, Range(lists[c.to])) \o lists[c.to])
    BY <1>8 DEF ListsAfter, Sets
  <2>2. WithoutKey(c.keys, Range(lists[c.to])) \in Seq(AllKeys)
    BY <1>2, <1>8, WithoutKeys
  <2>3. WithoutKey(c.keys, Range(lists[c.to])) \o lists[c.to] \in Seq(AllKeys)
    BY <1>2, <1>8, <2>2, ConcatProperties
  <2> QED BY <1>1, <2>1, <2>3
<1>9. CASE c.kind = "addBottom"
  <2>1. ListsAfter(c) = Sets(lists[c.to] \o WithoutKey(c.keys, Range(lists[c.to])))
    BY <1>9 DEF ListsAfter, Sets
  <2>2. WithoutKey(c.keys, Range(lists[c.to])) \in Seq(AllKeys)
    BY <1>2, <1>9, WithoutKeys
  <2>3. lists[c.to] \o WithoutKey(c.keys, Range(lists[c.to])) \in Seq(AllKeys)
    BY <1>2, <1>9, <2>2, ConcatProperties
  <2> QED BY <1>1, <2>1, <2>3
<1>10. CASE c.kind \notin {"order", "move", "moveBulk", "remove", "removeBulk", "completed", "addTop", "addBottom"}
  BY <1>10 DEF ListsAfter
<1> QED BY <1>3, <1>4, <1>5, <1>6, <1>7, <1>8, <1>9, <1>10

(* The rest follow one another as they did, in a list left as it was and   *)
(* in one that took the order sent.                                        *)
LEMMA TheRestFollow ==
    ASSUME NEW S, NEW c, c.keys \in Seq(S), c.known \in Seq(S), KeepsTheRest(c),
           NEW now, now \in {c.known, Only(c.keys, Range(c.known))}
    PROVE  Only(now, c.seen \ {c.dragged}) = Only(c.known, c.seen \ {c.dragged})
<1> DEFINE rest == c.seen \ {c.dragged}
<1>1. rest \subseteq Range(c.known) /\ Only(c.keys, rest) = Only(c.known, rest)
  BY DEF KeepsTheRest
<1>2. Only(Only(c.keys, Range(c.known)), rest) = Only(c.keys, Range(c.known) \cap rest)
  BY OnlyOfOnly
<1>3. Range(c.known) \cap rest = rest
  BY <1>1
<1> QED BY <1>1, <1>2, <1>3

LEMMA CardsLand ==
    ASSUME OrderIsRight(order), NEW c, CallIsRight(c), CardMoves(c)
    PROVE  ~Disturbs(c, order, ApplyOrder(order, c.keys))
<1> DEFINE was == Only(order, Range(c.known))
           now == Only(ApplyOrder(order, c.keys), Range(c.known))
<1> SUFFICES ASSUME was = c.known
             PROVE  /\ Only(now, c.seen \ {c.dragged}) = Only(was, c.seen \ {c.dragged})
                    /\ \A n \in DOMAIN was : was[n] \notin c.seen => now[n] = was[n]
  BY Zenon DEF Disturbs
<1>1. order \in Seq(GridSets) /\ c.keys \in Seq(GridSets) /\ c.known \in Seq(GridSets) /\ KeepsTheRest(c)
  BY DEF OrderIsRight, CallIsRight, CardMoves
<1>2. Range(c.known) \subseteq Range(order)
  <2>1. Range(was) = Range(order) \cap Range(c.known)
    BY <1>1, OnlyRange
  <2> QED BY <2>1
<1>3. Range(c.known) \subseteq Range(c.keys) /\ Range(c.keys) \subseteq Range(c.known)
  BY DEF CardMoves, KeepsTheRest
<1>4. now = Only(c.keys, Range(c.known))
  <2>1. Range(c.keys) \subseteq Range(order)
    BY <1>2, <1>3
  <2>2. \A seq, keys \in Seq(GridSets) : \A K : K \subseteq Range(keys) /\ Range(keys) \subseteq Range(seq)
                                         => Only(ApplyOrder(seq, keys), K) = Only(keys, K)
    BY AppliedOrders
  <2> QED BY <1>1, <1>3, <2>1, <2>2
<1>5. now = c.keys
  BY <1>1, <1>3, <1>4, OnlyAll
<1> HIDE DEF was, now
<1>6. Only(now, c.seen \ {c.dragged}) = Only(was, c.seen \ {c.dragged})
  BY <1>1, <1>4, TheRestFollow
<1>7. \A n \in DOMAIN c.known : c.known[n] \notin c.seen => c.keys[n] = c.known[n]
  BY DEF CardMoves
<1> QED BY <1>5, <1>6, <1>7

LEMMA PostersLand ==
    ASSUME ListsAreRight(lists), NEW c, CallIsRight(c), PosterMoves(c)
    PROVE  ~Disturbs(c, lists[c.to], ListsAfter(c)[c.to])
<1> DEFINE was == Only(lists[c.to], Range(c.known))
           now == Only(ListsAfter(c)[c.to], Range(c.known))
<1> SUFFICES ASSUME was = c.known
             PROVE  /\ Only(now, c.seen \ {c.dragged}) = Only(was, c.seen \ {c.dragged})
                    /\ \A n \in DOMAIN was : was[n] \in c.seen
  BY Zenon DEF Disturbs
<1>1. /\ c.to \in QueueIds /\ lists[c.to] \in Seq(AllKeys) /\ c.keys \in Seq(AllKeys)
      /\ c.known \in Seq(AllKeys) /\ KeepsTheRest(c) /\ c.kind \in {"order", "move"}
  BY DEF ListsAreRight, CallIsRight, PosterMoves
<1>2. Range(c.known) \subseteq Range(lists[c.to])
  <2>1. Range(was) = Range(lists[c.to]) \cap Range(c.known)
    BY <1>1, OnlyRange
  <2> QED BY <2>1
<1>3. Range(c.known) \subseteq Range(c.keys)
  BY DEF PosterMoves, KeepsTheRest
<1>4. now \in {c.known, Only(c.keys, Range(c.known))}
  <2>0. \A seq, keys \in Seq(AllKeys) : \A K : K \subseteq Range(keys) /\ Range(keys) \subseteq Range(seq)
                                         => Only(ApplyOrder(seq, keys), K) = Only(keys, K)
    BY AppliedOrders
  <2>1. CASE c.kind = "order"
    <3>1. ListsAfter(c)[c.to] = ApplyOrder(lists[c.to], c.keys)
      BY <1>1, <2>1 DEF ListsAfter, ListsAreRight
    <3>2. Range(c.keys) \subseteq Range(lists[c.to])
      BY <1>2, <2>1 DEF PosterMoves
    <3> QED BY <1>1, <1>3, <2>0, <3>1, <3>2
  <2>2. CASE c.kind = "move"
    <3>1. ListsAfter(c) = Moved(c)
      BY <2>2 DEF ListsAfter
    <3>2. CASE Moved(c) = lists
      BY <3>1, <3>2
    <3>3. CASE Moved(c) # lists
      <4>1. PICK there \in Seq(AllKeys) : /\ Range(there) = Range(lists[c.to]) \cup {Head(c.items).key}
                                          /\ Moved(c)[c.to] = ApplyOrder(there, c.keys)
        BY <2>2, <3>3, MovedAreRight
      <4>2. Range(c.keys) \subseteq Range(there)
        BY <1>2, <2>2, <4>1 DEF PosterMoves
      <4> QED BY <1>1, <1>3, <2>0, <3>1, <4>1, <4>2
    <3> QED BY <3>2, <3>3
  <2> QED BY <1>1, <2>1, <2>2
<1> HIDE DEF now
<1>5. Only(now, c.seen \ {c.dragged}) = Only(was, c.seen \ {c.dragged})
  BY <1>1, <1>4, TheRestFollow
<1>6. \A n \in DOMAIN c.known : c.known[n] \in c.seen
  BY DEF PosterMoves, Range
<1> QED BY <1>5, <1>6

(***************************************************************************)
(* What is sent                                                            *)
(***************************************************************************)
LEMMA CardsMove ==
    ASSUME OrderIsRight(tabOrder), NEW set \in Range(Cards), NEW n \in Slots(Cards, set), NEW c,
           c = Drop("sets", "none", << >>, SpliceOrder(tabOrder, Dragged(Cards, set, n)), "landing",
                    set, Range(Cards), tabOrder)
    PROVE  CallIsRight(c) /\ CardMoves(c) /\ c.surface = "landing"
<1> DEFINE V == Dragged(Cards, set, n)
           next == SpliceOrder(tabOrder, V)
           rest == Range(Cards) \ {set}
<1>1. tabOrder \in Seq(GridSets) /\ IsDistinct(tabOrder)
  BY DEF OrderIsRight
<1>2. /\ Cards \in Seq(GridSets) /\ IsDistinct(Cards) /\ Range(Cards) = Range(tabOrder) \cap filter
      /\ set \in GridSets
  BY <1>1, OnlyIsAList, OnlyIsDistinct, OnlyRange, RangeOfSeq DEF Cards
<1>3. /\ V \in Seq(GridSets) /\ Range(V) = Range(Cards) /\ Len(V) = Len(Cards)
      /\ Only(V, rest) = Only(Cards, rest)
  BY <1>2, DraggedLists
<1>4. Only(tabOrder, Range(V)) = Cards
  BY <1>1, <1>2, <1>3, OnlySame DEF Cards
<1>5. Only(Cards, rest) = Only(tabOrder, rest)
  <2>1. Only(Cards, rest) = Only(tabOrder, filter \cap rest)
    BY <1>1, OnlyOfOnly DEF Cards
  <2>2. filter \cap rest = rest
    BY <1>2
  <2> QED BY <2>1, <2>2
<1> HIDE DEF V
<1>6. Range(V) \subseteq Range(tabOrder) /\ Len(Only(tabOrder, Range(V))) = Len(V)
  BY <1>2, <1>3, <1>4
<1>7. /\ next \in Seq(GridSets) /\ Len(next) = Len(tabOrder) /\ Only(next, Range(V)) = V
      /\ \A k \in 1..Len(tabOrder) : tabOrder[k] \notin Range(V) => next[k] = tabOrder[k]
      /\ Range(next) = Range(tabOrder)
  BY <1>1, <1>3, <1>6, SplicedLists
<1>8. Only(next, rest) = Only(tabOrder, rest)
  <2>1. Only(Only(next, Range(V)), rest) = Only(next, Range(V) \cap rest)
    BY <1>7, OnlyOfOnly
  <2>2. Range(V) \cap rest = rest
    BY <1>3
  <2> QED BY <1>3, <1>5, <1>7, <2>1, <2>2
<1>9. /\ c.kind = "sets" /\ c.items = << >> /\ c.keys = next /\ c.surface = "landing" /\ c.dragged = set
      /\ c.seen = Range(Cards) /\ c.known = tabOrder
  BY DEF Drop, V
<1> HIDE DEF next
<1>10. IsDistinct(next)
  BY <1>1, <1>7 DEF IsDistinct
<1>11. CallIsRight(c)
  BY <1>7, <1>9, <1>10, EmptySeq DEF CallIsRight, OrderIsRight
<1>12. KeepsTheRest(c)
  BY <1>2, <1>7, <1>8, <1>9 DEF KeepsTheRest
<1>13. DOMAIN tabOrder = 1..Len(tabOrder)
  BY <1>1, LenProperties
<1> QED BY <1>1, <1>3, <1>7, <1>9, <1>11, <1>12, <1>13 DEF CardMoves

LEMMA PostersMove ==
    ASSUME ListsAreRight(tabLists), NEW from \in QueueIds, NEW to \in QueueIds,
           NEW key \in Range(tabLists[from]), NEW n \in Slots(tabLists[to], key), NEW c,
           c = Drop(IF from = to THEN "order" ELSE "move", to, <<Item(from, key)>>,
                    Dragged(tabLists[to], key, n), "strip", key, Range(Dragged(tabLists[to], key, n)),
                    tabLists[to])
    PROVE  /\ CallIsRight(c) /\ PosterMoves(c) /\ c.surface = "strip"
           /\ Dragged(tabLists[to], key, n) \in Seq(AllKeys)
<1> DEFINE next == Dragged(tabLists[to], key, n)
           known == tabLists[to]
           rest == Range(next) \ {key}
<1>1. known \in Seq(AllKeys) /\ key \in AllKeys
  BY RangeOfSeq DEF ListsAreRight
<1>2. /\ next \in Seq(AllKeys) /\ Range(next) = Range(known) \cup {key}
      /\ Only(next, rest) = Only(known, rest)
  BY <1>1, DraggedLists
<1>3. /\ c.kind = (IF from = to THEN "order" ELSE "move") /\ c.to = to /\ c.items = <<Item(from, key)>>
      /\ c.keys = next /\ c.surface = "strip" /\ c.dragged = key /\ c.seen = Range(next) /\ c.known = known
  BY DEF Drop
<1>4. <<Item(from, key)>> \in Seq(GridItems) /\ Head(<<Item(from, key)>>).key = key /\ <<Item(from, key)>> # << >>
  BY <1>1 DEF Item, GridItems
<1>5. from = to => key \in Range(known)
  OBVIOUS
<1> HIDE DEF next, known
<1>6. CallIsRight(c)
  BY <1>2, <1>3, <1>4 DEF CallIsRight
<1>7. KeepsTheRest(c)
  BY <1>2, <1>3 DEF KeepsTheRest
<1>8. PosterMoves(c)
  BY <1>1, <1>2, <1>3, <1>4, <1>5, <1>7 DEF PosterMoves
<1> QED BY <1>2, <1>3, <1>6, <1>8 DEF next

(* A gesture leaves the server alone, and sends at most one call.          *)
LEMMA GesturesKeep ==
    ASSUME GridInv, calls' = calls \/ \E c : /\ calls' = calls \cup {c} /\ CallIsRight(c)
                                             /\ c.surface = "landing" => CardMoves(c)
                                             /\ c.surface = "strip" => PosterMoves(c),
           OrderIsRight(tabOrder'), ListsAreRight(tabLists'), picked' \in Seq(GridItems),
           UNCHANGED <<order, lists, reads, disturbed>>
    PROVE  GridInv'
<1>1. \A c \in calls' : /\ CallIsRight(c)
                        /\ c.surface = "landing" => CardMoves(c)
                        /\ c.surface = "strip"   => PosterMoves(c)
  BY DEF GridInv
<1> QED BY <1>1 DEF GridInv, DropsMoveOne

LEMMA OtherCalls ==
    ASSUME NEW verb, NEW to, NEW items \in Seq(GridItems), NEW keys \in Seq(AllKeys), NEW wantsLoad
    PROVE  LET c == Call(verb, to, items, keys, wantsLoad) IN
           /\ verb \in {"remove", "removeBulk"} => CallIsRight(c)
           /\ verb \in {"moveBulk", "completed", "addTop", "addBottom"} /\ to \in QueueIds => CallIsRight(c)
           /\ c.surface = "none"
<1> DEFINE c == Call(verb, to, items, keys, wantsLoad)
<1>1. /\ c.kind = verb /\ c.to = to /\ c.items = items /\ c.keys = keys /\ c.surface = "none"
  BY DEF Call, Drop
<1> HIDE DEF c
<1>2. verb \in {"remove", "removeBulk"} => CallIsRight(c)
  BY <1>1 DEF CallIsRight
<1>3. verb \in {"moveBulk", "completed", "addTop", "addBottom"} /\ to \in QueueIds => CallIsRight(c)
  BY <1>1 DEF CallIsRight
<1> QED BY <1>1, <1>2, <1>3 DEF c

LEMMA GridDrags ==
    ASSUME GridInv
    PROVE  /\ \A s \in Range(Registered), n \in 1..Len(Registered) : DragCard(s, n) \/ DragShelf(s, n) => GridInv'
           /\ \A q \in QueueIds, k \in AllKeys, n \in 1..Len(TitleOrder) : DragTile(q, k, n) => GridInv'
           /\ \A from, to \in QueueIds, k \in AllKeys, n \in 1..Len(TitleOrder) :
                 DragPoster(from, to, k, n) => GridInv'
<1>1. ASSUME NEW s \in Range(Registered), NEW n \in 1..Len(Registered), DragCard(s, n) PROVE GridInv'
  <2> DEFINE next == SpliceOrder(tabOrder, Dragged(Cards, s, n))
             c == Drop("sets", "none", << >>, next, "landing", s, Range(Cards), tabOrder)
  <2>1. OrderIsRight(tabOrder) /\ s \in Range(Cards) /\ n \in Slots(Cards, s)
    BY <1>1 DEF DragCard, GridInv
  <2>2. CallIsRight(c) /\ CardMoves(c) /\ c.surface = "landing"
    BY <2>1, CardsMove
  <2>3. OrderIsRight(next)
    BY <2>2 DEF CallIsRight, CardMoves, Drop
  <2>4. OrderIsRight(Only(next, Range(tabOrder)))
    BY <2>3, OnlyIsAList, OnlyIsDistinct DEF OrderIsRight
  <2>5. /\ calls' = calls \cup {c} /\ tabOrder' = Only(next, Range(tabOrder))
        /\ UNCHANGED <<order, lists, tabLists, picked, reads, disturbed>>
    BY <1>1 DEF DragCard, SendsCall
  <2> HIDE DEF c, next
  <2> QED BY <2>2, <2>4, <2>5, GesturesKeep DEF GridInv
<1>2. ASSUME NEW s \in Range(Registered), NEW n \in 1..Len(Registered), DragShelf(s, n) PROVE GridInv'
  <2> DEFINE cards == Dragged(Shelves, s, n)
             next == ShelvesFirst(cards)
             c == Drop("sets", "none", << >>, next, "shelves", s, Range(Shelves), tabOrder)
  <2>1. /\ tabOrder \in Seq(GridSets) /\ IsDistinct(tabOrder) /\ s \in Range(Shelves) /\ n \in Slots(Shelves, s)
        /\ s \in GridSets
    BY <1>2 DEF DragShelf, GridInv, OrderIsRight, GridSets
  <2>2. Shelves \in Seq(GridSets) /\ IsDistinct(Shelves)
    BY <2>1, OnlyIsAList, OnlyIsDistinct DEF Shelves
  <2>3. cards \in Seq(GridSets) /\ IsDistinct(cards)
    BY <2>1, <2>2, DraggedLists
  <2>4. next = cards \o WithoutKey(tabOrder, Range(cards))
    BY DEF ShelvesFirst
  <2> HIDE DEF cards
  <2>5. /\ WithoutKey(tabOrder, Range(cards)) \in Seq(GridSets)
        /\ IsDistinct(WithoutKey(tabOrder, Range(cards)))
        /\ Range(cards) \cap Range(WithoutKey(tabOrder, Range(cards))) = {}
    <3>1. Range(WithoutKey(tabOrder, Range(cards))) = Range(tabOrder) \ Range(cards)
      BY <2>1, WithoutKeys
    <3> QED BY <2>1, <3>1, WithoutKeys
  <2>6. OrderIsRight(next)
    BY <2>3, <2>4, <2>5, ConcatProperties, ConcatIsDistinct DEF OrderIsRight
  <2>7. c.kind = "sets" /\ c.items = << >> /\ c.keys = next /\ c.surface = "shelves"
    BY DEF Drop
  <2>8. CallIsRight(c)
    BY <2>6, <2>7, EmptySeq DEF CallIsRight
  <2>9. /\ calls' = calls \cup {c} /\ tabOrder' = next
        /\ UNCHANGED <<order, lists, tabLists, picked, reads, disturbed>>
    BY <1>2 DEF DragShelf, SendsCall, cards
  <2> HIDE DEF c, next
  <2> QED BY <2>6, <2>7, <2>8, <2>9, GesturesKeep DEF GridInv
<1>3. ASSUME NEW q \in QueueIds, NEW k \in AllKeys, NEW n \in 1..Len(TitleOrder), DragTile(q, k, n) PROVE GridInv'
  <2> DEFINE next == Dragged(Seen(q), k, n)
             c == Drop("order", q, << >>, next, "grid", k, Range(next), tabLists[q])
  <2>1. n \in Slots(Seen(q), k) /\ tabLists \in [QueueIds -> Seq(AllKeys)]
    BY <1>3 DEF DragTile, GridInv, ListsAreRight
  <2>2. Seen(q) \in Seq(AllKeys)
    BY <2>1, OnlyIsAList, GridAssumption DEF Seen
  <2>3. next \in Seq(AllKeys)
    BY <2>1, <2>2, DraggedLists
  <2>4. c.kind = "order" /\ c.to = q /\ c.items = << >> /\ c.keys = next /\ c.surface = "grid"
    BY DEF Drop
  <2>5. /\ calls' = calls \cup {c} /\ tabLists' = [tabLists EXCEPT ![q] = next]
        /\ UNCHANGED <<order, lists, tabOrder, picked, reads, disturbed>>
    BY <1>3 DEF DragTile, SendsCall
  <2> HIDE DEF c, next
  <2>6. CallIsRight(c)
    BY <2>3, <2>4, EmptySeq DEF CallIsRight
  <2>7. ListsAreRight(tabLists')
    BY <2>1, <2>3, <2>5 DEF ListsAreRight
  <2> QED BY <2>4, <2>5, <2>6, <2>7, GesturesKeep DEF GridInv
<1>4. ASSUME NEW from \in QueueIds, NEW to \in QueueIds, NEW k \in AllKeys, NEW n \in 1..Len(TitleOrder),
             DragPoster(from, to, k, n)
      PROVE  GridInv'
  <2> DEFINE next == Dragged(tabLists[to], k, n)
             c == Drop(IF from = to THEN "order" ELSE "move", to, <<Item(from, k)>>, next,
                       "strip", k, Range(next), tabLists[to])
  <2>1. ListsAreRight(tabLists) /\ k \in Range(tabLists[from]) /\ n \in Slots(tabLists[to], k)
    BY <1>4 DEF DragPoster, GridInv
  <2>2. CallIsRight(c) /\ PosterMoves(c) /\ c.surface = "strip" /\ next \in Seq(AllKeys)
    BY <2>1, PostersMove
  <2>3. /\ calls' = calls \cup {c}
        /\ tabLists' = [tabLists EXCEPT ![from] = WithoutKey(@, {k}), ![to] = next]
        /\ UNCHANGED <<order, lists, tabOrder, picked, reads, disturbed>>
    BY <1>4 DEF DragPoster, SendsCall
  <2> HIDE DEF c, next
  <2>4. WithoutKey(tabLists[from], {k}) \in Seq(AllKeys)
    BY <2>1, WithoutKeys DEF ListsAreRight
  <2>5. ListsAreRight(tabLists')
    BY <2>1, <2>2, <2>3, <2>4 DEF ListsAreRight
  <2> QED BY <2>2, <2>3, <2>5, GesturesKeep DEF GridInv
<1> QED BY <1>1, <1>2, <1>3, <1>4

LEMMA GridClicks ==
    ASSUME GridInv
    PROVE  /\ \A q \in QueueIds, k \in AllKeys : \A p \in {"top", "bottom"} : PickHit(q, k, p) => GridInv'
           /\ \A q \in QueueIds, k \in AllKeys : RemoveTile(q, k) \/ ToggleSelect(q, k) => GridInv'
           /\ \A q \in QueueIds : RemoveCompleted(q) \/ MoveSelection(q) => GridInv'
           /\ RemoveSelection => GridInv'
           /\ \A l \in Lenses, f \in Filters : LookThrough(l, f) => GridInv'
<1>0. /\ OrderIsRight(tabOrder) /\ ListsAreRight(tabLists) /\ picked \in Seq(GridItems)
      /\ tabLists \in [QueueIds -> Seq(AllKeys)]
      /\ << >> \in Seq(GridItems) /\ << >> \in Seq(AllKeys) /\ "none" \notin {"landing", "strip"}
  BY EmptySeq DEF GridInv, ListsAreRight
<1>i. \A q \in QueueIds, k \in AllKeys : Item(q, k) \in GridItems /\ <<Item(q, k)>> \in Seq(GridItems)
  BY DEF Item, GridItems
<1>1. ASSUME NEW q \in QueueIds, NEW k \in AllKeys, NEW p \in {"top", "bottom"}, PickHit(q, k, p) PROVE GridInv'
  <2> DEFINE verb == IF p = "top" THEN "addTop" ELSE "addBottom"
             c == Call(verb, q, << >>, <<k>>, FALSE)
             next == IF p = "top" THEN <<k>> \o tabLists[q] ELSE Append(tabLists[q], k)
  <2>1. verb \in {"addTop", "addBottom"} /\ <<k>> \in Seq(AllKeys)
    OBVIOUS
  <2>2. next \in Seq(AllKeys)
    BY <1>0, <2>1, ConcatProperties, AppendProperties
  <2>3. /\ calls' = calls \cup {c} /\ tabLists' = [tabLists EXCEPT ![q] = next]
        /\ UNCHANGED <<order, lists, tabOrder, picked, reads, disturbed>>
    BY <1>1 DEF PickHit, SendsCall
  <2> HIDE DEF verb, next
  <2>4. CallIsRight(c) /\ c.surface = "none"
    <3>1. << >> \in Seq(GridItems)
      BY <1>0
    <3> QED BY <2>1, <3>1, OtherCalls, Zenon
  <2> HIDE DEF c
  <2>5. ListsAreRight(tabLists')
    BY <1>0, <2>2, <2>3 DEF ListsAreRight
  <2> QED BY <1>0, <2>3, <2>4, <2>5, GesturesKeep
<1>2. ASSUME NEW q \in QueueIds, NEW k \in AllKeys, RemoveTile(q, k) PROVE GridInv'
  <2> DEFINE nowhere == "none"
             c == Call("remove", nowhere, <<Item(q, k)>>, << >>, FALSE)
  <2>1. /\ calls' = calls \cup {c} /\ tabLists' = [tabLists EXCEPT ![q] = WithoutKey(@, {k})]
        /\ picked' = WithoutKey(picked, {Item(q, k)})
        /\ UNCHANGED <<order, lists, tabOrder, reads, disturbed>>
    BY <1>2 DEF RemoveTile, SendsCall
  <2> HIDE DEF nowhere
  <2>2. CallIsRight(c) /\ c.surface = "none"
    BY <1>0, <1>i, OtherCalls
  <2> HIDE DEF c
  <2>3. WithoutKey(tabLists[q], {k}) \in Seq(AllKeys) /\ picked' \in Seq(GridItems)
    BY <1>0, <2>1, WithoutKeys
  <2>4. ListsAreRight(tabLists')
    BY <1>0, <2>1, <2>3 DEF ListsAreRight
  <2> QED BY <1>0, <2>1, <2>2, <2>3, <2>4, GesturesKeep
<1>3. ASSUME NEW q \in QueueIds, NEW k \in AllKeys, ToggleSelect(q, k) PROVE GridInv'
  <2>1. /\ picked' = IF Item(q, k) \in Range(picked) THEN WithoutKey(picked, {Item(q, k)})
                     ELSE Append(picked, Item(q, k))
        /\ UNCHANGED <<order, lists, tabOrder, tabLists, calls, reads, disturbed>>
    BY <1>3 DEF ToggleSelect
  <2>2. picked' \in Seq(GridItems)
    BY <1>0, <1>i, <2>1, WithoutKeys, AppendProperties
  <2> QED BY <1>0, <2>1, <2>2, GesturesKeep
<1>4. ASSUME NEW q \in QueueIds, RemoveCompleted(q) PROVE GridInv'
  <2> DEFINE c == Call("completed", q, << >>, << >>, TRUE)
  <2>1. calls' = calls \cup {c} /\ UNCHANGED <<order, lists, tabOrder, tabLists, picked, reads, disturbed>>
    BY <1>4 DEF RemoveCompleted, SendsCall
  <2>2. CallIsRight(c) /\ c.surface = "none"
    BY <1>0, OtherCalls
  <2> HIDE DEF c
  <2> QED BY <1>0, <2>1, <2>2, GesturesKeep
<1>5. ASSUME NEW q \in QueueIds, MoveSelection(q) PROVE GridInv'
  <2> DEFINE c == Call("moveBulk", q, picked, << >>, TRUE)
  <2>1. calls' = calls \cup {c} /\ UNCHANGED <<order, lists, tabOrder, tabLists, picked, reads, disturbed>>
    BY <1>5 DEF MoveSelection, SendsCall
  <2>2. CallIsRight(c) /\ c.surface = "none"
    BY <1>0, OtherCalls
  <2> HIDE DEF c
  <2> QED BY <1>0, <2>1, <2>2, GesturesKeep
<1>6. ASSUME RemoveSelection PROVE GridInv'
  <2> DEFINE nowhere == "none"
             c == Call("removeBulk", nowhere, picked, << >>, TRUE)
  <2>1. calls' = calls \cup {c} /\ UNCHANGED <<order, lists, tabOrder, tabLists, picked, reads, disturbed>>
    BY <1>6 DEF RemoveSelection, SendsCall
  <2> HIDE DEF nowhere
  <2>2. CallIsRight(c) /\ c.surface = "none"
    BY <1>0, OtherCalls
  <2> HIDE DEF c
  <2> QED BY <1>0, <2>1, <2>2, GesturesKeep
<1>7. ASSUME NEW l, NEW f, LookThrough(l, f) PROVE GridInv'
  <2>1. UNCHANGED <<order, lists, tabOrder, tabLists, picked, calls, reads, disturbed>>
    BY <1>7 DEF LookThrough
  <2> QED BY <1>0, <2>1, GesturesKeep
<1> QED BY <1>1, <1>2, <1>3, <1>4, <1>5, <1>6, <1>7

LEMMA GridAnswers ==
    ASSUME GridInv
    PROVE  /\ \A c \in calls : Lands(c) \/ CallFails(c) => GridInv'
           /\ \A s \in Range(Registered), q \in QueueIds, k \in AllKeys : OtherWrites(s, q, k) => GridInv'
           /\ \A h \in {"sets", "queues"} : Fetch(h) => GridInv'
           /\ \A r \in reads : Commits(r) => GridInv'
<1>0. /\ OrderIsRight(order) /\ OrderIsRight(tabOrder) /\ ListsAreRight(lists) /\ ListsAreRight(tabLists)
      /\ lists \in [QueueIds -> Seq(AllKeys)] /\ order \in Seq(GridSets) /\ IsDistinct(order)
  BY DEF GridInv, ListsAreRight, OrderIsRight
<1>1. ASSUME NEW c \in calls, Lands(c) PROVE GridInv'
  <2>1. /\ CallIsRight(c) /\ (c.surface = "landing" => CardMoves(c)) /\ (c.surface = "strip" => PosterMoves(c))
    BY DEF GridInv
  <2>2. OrderIsRight(order')
    <3>1. CASE c.kind = "sets"
      <4>1. order' = ApplyOrder(order, c.keys)
        BY <1>1, <3>1 DEF Lands
      <4>2. c.keys \in Seq(GridSets) /\ IsDistinct(c.keys)
        BY <2>1, <3>1 DEF CallIsRight, OrderIsRight
      <4> QED BY <1>0, <4>1, <4>2, AppliedOrders DEF OrderIsRight
    <3>2. CASE c.kind # "sets"
      BY <1>0, <1>1, <3>2 DEF Lands
    <3> QED BY <3>1, <3>2
  <2>3. lists' = ListsAfter(c) /\ ListsAreRight(lists')
    BY <1>0, <1>1, <2>1, ListsAfterAreRight DEF Lands
  <2>4. OrderIsRight(tabOrder')
    <3>1. CASE c.surface = "shelves"
      BY <1>0, <1>1, <2>1, <3>1 DEF Lands, CallIsRight
    <3>2. CASE c.surface # "shelves"
      BY <1>0, <1>1, <3>2 DEF Lands
    <3> QED BY <3>1, <3>2
  <2>5. picked' \in Seq(GridItems)
    BY <1>1, EmptySeq DEF Lands, GridInv
  <2>6. \A r \in reads' : OrderIsRight(r.order) /\ ListsAreRight(r.lists)
    BY <1>0, <1>1, <2>3 DEF Lands, GridInv
  <2>7. DropsMoveOne'
    <3>1. disturbed' \subseteq disturbed \cup {c.surface}
      BY <1>1 DEF Lands
    <3>2. CASE c.surface = "landing"
      <4>1. c.kind = "sets" /\ ~Disturbs(c, order, ApplyOrder(order, c.keys))
        BY <1>0, <2>1, <3>2, CardsLand DEF CardMoves
      <4>2. disturbed' = disturbed
        BY <1>1, <4>1 DEF Lands
      <4> QED BY <4>2 DEF GridInv, DropsMoveOne
    <3>3. CASE c.surface = "strip"
      <4>1. c.kind # "sets" /\ ~Disturbs(c, lists[c.to], ListsAfter(c)[c.to])
        BY <1>0, <2>1, <3>3, PostersLand DEF PosterMoves
      <4>2. disturbed' = disturbed
        BY <1>1, <2>3, <4>1 DEF Lands
      <4> QED BY <4>2 DEF GridInv, DropsMoveOne
    <3>4. CASE c.surface \notin {"landing", "strip"}
      BY <3>1, <3>4 DEF GridInv, DropsMoveOne
    <3> QED BY <3>2, <3>3, <3>4
  <2>8. calls' = calls \ {c} /\ tabLists' = tabLists
    BY <1>1 DEF Lands
  <2> QED BY <1>0, <2>2, <2>3, <2>4, <2>5, <2>6, <2>7, <2>8 DEF GridInv
<1>2. ASSUME NEW c \in calls, CallFails(c) PROVE GridInv'
  <2>1. /\ calls' = calls \ {c} /\ reads' \subseteq reads \cup Loaded
        /\ UNCHANGED <<order, lists, tabOrder, tabLists, picked, disturbed>>
    BY <1>2 DEF CallFails
  <2>2. \A r \in Loaded : r.order = order /\ r.lists = lists
    BY DEF Loaded
  <2>3. \A r \in reads' : OrderIsRight(r.order) /\ ListsAreRight(r.lists)
    BY <1>0, <2>1, <2>2 DEF GridInv
  <2> QED BY <2>1, <2>3 DEF GridInv, DropsMoveOne
<1>3. ASSUME NEW s \in Range(Registered), NEW q \in QueueIds, NEW k \in AllKeys, OtherWrites(s, q, k) PROVE GridInv'
  <2>1. UNCHANGED <<tabOrder, tabLists, picked, calls, reads, disturbed>>
    BY <1>3 DEF OtherWrites
  <2>2. s \in GridSets /\ lists[q] \in Seq(AllKeys) /\ <<k>> \in Seq(AllKeys)
    BY <1>0 DEF GridSets
  <2>3. s \notin Range(order) => OrderIsRight(Append(order, s))
    BY <1>0, <2>2, AppendProperties, DistinctAppend DEF OrderIsRight
  <2>4. OrderIsRight(WithoutKey(order, {s}))
    BY <1>0, WithoutKeys DEF OrderIsRight
  <2>5. <<k>> \o lists[q] \in Seq(AllKeys) /\ WithoutKey(lists[q], {k}) \in Seq(AllKeys)
    BY <2>2, ConcatProperties, WithoutKeys
  <2>6. OrderIsRight(order')
    BY <1>0, <1>3, <2>3, <2>4 DEF OtherWrites
  <2>7. \A l \in Seq(AllKeys) : ListsAreRight([lists EXCEPT ![q] = l])
    BY <1>0 DEF ListsAreRight
  <2>8. ListsAreRight(lists')
    BY <1>0, <1>3, <2>5, <2>7 DEF OtherWrites
  <2> QED BY <2>1, <2>6, <2>8 DEF GridInv, DropsMoveOne
<1>4. ASSUME NEW h, Fetch(h) PROVE GridInv'
  <2>1. UNCHANGED <<order, lists, tabOrder, tabLists, picked, calls, disturbed>>
    BY <1>4 DEF Fetch
  <2>2. \A r \in reads' : OrderIsRight(r.order) /\ ListsAreRight(r.lists)
    BY <1>0, <1>4 DEF Fetch, GridInv
  <2> QED BY <2>1, <2>2 DEF GridInv, DropsMoveOne
<1>5. ASSUME NEW r \in reads, Commits(r) PROVE GridInv'
  <2>1. reads' \subseteq reads /\ UNCHANGED <<order, lists, picked, calls, disturbed>>
    BY <1>5 DEF Commits
  <2>2. OrderIsRight(r.order) /\ ListsAreRight(r.lists)
    BY DEF GridInv
  <2>3. OrderIsRight(tabOrder') /\ ListsAreRight(tabLists')
    BY <1>0, <1>5, <2>2 DEF Commits
  <2> QED BY <2>1, <2>3 DEF GridInv, DropsMoveOne
<1> QED BY <1>1, <1>2, <1>3, <1>4, <1>5

(* A drop on the landing, whatever filters it, and a drop on a strip move  *)
(* what was dragged and nothing else, for any sets, queues and filters:    *)
(* what is hidden keeps its place, and the others their order, when the    *)
(* server takes the drop of a tab that had the list as it stands.          *)
THEOREM DropsStaySingle == GridSpec => []DropsMoveOne
<1>1. GridInit => GridInv
  <2> SUFFICES ASSUME GridInit PROVE GridInv
    OBVIOUS
  <2>1. /\ order = Registered /\ lists = Queued /\ tabOrder = Registered /\ tabLists = Queued
        /\ picked = << >> /\ calls = {} /\ reads = {} /\ disturbed = {}
    BY DEF GridInit
  <2>2. OrderIsRight(Registered) /\ ListsAreRight(Queued)
    BY GridAssumption DEF OrderIsRight, ListsAreRight, IsDistinct, GridSets
  <2> QED BY <2>1, <2>2, EmptySeq DEF GridInv, DropsMoveOne
<1>2. GridInv /\ [GridNext]_gridVars => GridInv'
  <2> SUFFICES ASSUME GridInv, [GridNext]_gridVars PROVE GridInv'
    OBVIOUS
  <2>1. CASE GridNext
    BY <2>1, GridDrags, GridClicks, GridAnswers DEF GridNext
  <2>2. CASE UNCHANGED gridVars
    BY <2>2 DEF gridVars, GridInv, DropsMoveOne
  <2> QED BY <2>1, <2>2
<1>3. GridInv => DropsMoveOne
  BY DEF GridInv
<1> QED BY <1>1, <1>2, <1>3, PTL DEF GridSpec

-----------------------------------------------------------------------------
(* ReadingList.  A list is backed when what a chapter is to be read after  *)
(* stands before it, as far as it is among those that matter.              *)
Backed(list, P, A) ==
    \A j \in DOMAIN list : \A d \in A :
        <<d, list[j]>> \in P => \E i \in DOMAIN list : i < j /\ list[i] = d

LEMMA BackedLess ==
    ASSUME NEW list, NEW P, NEW A, NEW B, Backed(list, P, A), B \subseteq A
    PROVE  Backed(list, P, B)
BY DEF Backed

\* A filter keeps a list backed, for what it lets pass.
LEMMA BackedOnly ==
    ASSUME NEW S, NEW s \in Seq(S), NEW P, NEW A, NEW B, Backed(s, P, A)
    PROVE  Backed(Only(s, B), P, A \cap B)
<1> DEFINE places == {n \in DOMAIN s : s[n] \in B}
           part == Picked(s, places)
<1>1. Only(s, B) = part
  BY DEF Only
<1>2. part \in Seq(S) /\ \E from : PicksBy(part, s, places, Len(s), from)
  <2> HIDE DEF places
  <2> QED BY PickedPicks
<1>3. PICK from : PicksBy(part, s, places, Len(s), from)
  BY <1>2
<1>4. places \cap (1..Len(s)) = places /\ \A n \in places : n \in DOMAIN s /\ s[n] \in B
  BY LenProperties
<1>5. \A n \in DOMAIN s : s[n] \in B => n \in places
  OBVIOUS
<1>6. DOMAIN part = 1..Len(part) /\ Len(part) \in Nat /\ DOMAIN s \subseteq Nat
  BY <1>2, LenProperties
<1> HIDE DEF places, part
<1>7. /\ \A i \in DOMAIN part : from[i] \in places /\ part[i] = s[from[i]]
      /\ \A i, j \in DOMAIN part : i < j => from[i] < from[j]
      /\ \A p \in places : \E i \in DOMAIN part : from[i] = p
  BY <1>3, <1>4, <1>6 DEF PicksBy
<1>8. ASSUME NEW j \in DOMAIN part, NEW d \in A \cap B, <<d, part[j]>> \in P
      PROVE  \E i \in DOMAIN part : i < j /\ part[i] = d
  <2>1. PICK p \in DOMAIN s : p < from[j] /\ s[p] = d
    BY <1>4, <1>7, <1>8 DEF Backed
  <2>2. PICK i \in DOMAIN part : from[i] = p
    BY <1>5, <1>7, <2>1
  <2>3. from[i] \in Nat /\ from[j] \in Nat /\ i \in Nat /\ j \in Nat
    BY <1>4, <1>6, <1>7
  <2>4. ~(j < i) /\ i # j
    BY <1>7, <2>1, <2>2, <2>3
  <2> QED BY <1>7, <2>1, <2>2, <2>3, <2>4
<1> QED BY <1>1, <1>8 DEF Backed

\* So does cutting it off.
LEMMA BackedStart ==
    ASSUME NEW S, NEW s \in Seq(S), NEW P, NEW A, NEW m \in Nat, m <= Len(s), Backed(s, P, A)
    PROVE  SubSeq(s, 1, m) \in Seq(S) /\ Backed(SubSeq(s, 1, m), P, A)
<1> DEFINE t == SubSeq(s, 1, m)
<1>1. t \in Seq(S) /\ DOMAIN t = 1..m /\ DOMAIN s = 1..Len(s) /\ Len(s) \in Nat /\ \A i \in 1..m : t[i] = s[i]
  BY SubSeqProperties, LenProperties
<1> HIDE DEF t
<1>2. ASSUME NEW j \in DOMAIN t, NEW d \in A, <<d, t[j]>> \in P
      PROVE  \E i \in DOMAIN t : i < j /\ t[i] = d
  <2>1. j \in DOMAIN s /\ t[j] = s[j]
    BY <1>1
  <2>2. PICK i \in DOMAIN s : i < j /\ s[i] = d
    BY <1>2, <2>1 DEF Backed
  <2> QED BY <1>1, <2>2
<1> QED BY <1>1, <1>2 DEF Backed, t

\* And so does laying lists end to end.
LEMMA BackedFlat ==
    ASSUME NEW S, NEW n \in Nat, NEW seqs \in [1..n -> Seq(S)], NEW P, NEW A,
           \A k \in 1..n : Backed(seqs[k], P, A)
    PROVE  FlattenSeq(seqs) \in Seq(S) /\ Backed(FlattenSeq(seqs), P, A)
<1> DEFINE flat == FlattenSeq(seqs)
<1>1. flat \in Seq(S) /\ \E row, col : Laid(flat, seqs, n, row, col)
  BY FlattenLays
<1> HIDE DEF flat
<1>2. PICK row, col : Laid(flat, seqs, n, row, col)
  BY <1>1
<1>3. ASSUME NEW j \in DOMAIN flat, NEW d \in A, <<d, flat[j]>> \in P
      PROVE  \E i \in DOMAIN flat : i < j /\ flat[i] = d
  <2>1. row[j] \in 1..n /\ col[j] \in DOMAIN seqs[row[j]] /\ flat[j] = seqs[row[j]][col[j]]
    BY <1>2 DEF Laid
  <2>2. PICK p \in DOMAIN seqs[row[j]] : p < col[j] /\ seqs[row[j]][p] = d
    BY <1>3, <2>1 DEF Backed
  <2>3. PICK i \in DOMAIN flat : row[i] = row[j] /\ col[i] = p
    BY <1>2, <2>1, <2>2 DEF Laid
  <2>4. flat[i] = d
    BY <1>2, <2>2, <2>3 DEF Laid
  <2>5. i \in Nat /\ j \in Nat /\ row[j] \in Nat /\ col[i] \in Nat /\ col[j] \in Nat
    <3>1. DOMAIN flat \subseteq Nat
      BY <1>1, LenProperties
    <3>2. row \in [DOMAIN flat -> 1..n] /\ col \in [DOMAIN flat -> Nat]
      BY <1>2 DEF Laid
    <3> QED BY <3>1, <3>2
  <2>6. ~(j < i) /\ i # j
    <3>1. j < i => row[j] < row[i] \/ (row[j] = row[i] /\ col[j] < col[i])
      BY <1>2 DEF Laid
    <3> QED BY <2>2, <2>3, <2>5, <3>1
  <2> QED BY <2>4, <2>5, <2>6
<1> QED BY <1>1, <1>3 DEF Backed, flat

-----------------------------------------------------------------------------
(* The rows of a list, with those a job is about to add behind them.       *)
Stories == UNION {Range(Reading[s]) : s \in SeriesSet}
Kept(held, P, gone) == Backed(held, P, Range(held) \cup (Stories \ gone))

LEMMA KeptLonger ==
    ASSUME NEW held, NEW P, NEW gone, NEW more, gone \subseteq more, Kept(held, P, gone)
    PROVE  Kept(held, P, more)
BY BackedLess DEF Kept

LEMMA KeptEmpty == \A P, gone : Kept(<< >>, P, gone)
BY DEF Kept, Backed

\* remove-read.
LEMMA KeptUnread ==
    ASSUME NEW held \in Seq(Stories), NEW P, NEW gone, Kept(held, P, gone)
    PROVE  Kept(Only(held, Range(held) \ gone), P, gone)
<1> DEFINE B == Stories \ gone
           new == Only(held, B)
<1>1. Range(held) \subseteq Stories
  BY RangeOfSeq
<1>2. Only(held, Range(held) \ gone) = new
  <2>1. (Range(held) \ gone) \cap Range(held) = B \cap Range(held)
    BY <1>1
  <2> HIDE DEF B
  <2> QED BY <2>1, OnlySame
<1>3. Range(new) \subseteq B
  BY OnlyRange
<1>4. Backed(new, P, (Range(held) \cup B) \cap B)
  <2>1. Backed(held, P, Range(held) \cup B)
    BY DEF Kept
  <2> HIDE DEF B
  <2> QED BY <2>1, BackedOnly
<1>5. Range(new) \cup B \subseteq (Range(held) \cup B) \cap B
  BY <1>3
<1> HIDE DEF new
<1>6. Backed(new, P, Range(new) \cup B)
  BY <1>4, <1>5, BackedLess
<1> QED BY <1>2, <1>6 DEF Kept

\* A row is added: one that is there already stays where it is.
LEMMA KeptByRow ==
    ASSUME NEW held \in Seq(Stories), NEW plan \in Seq(Stories), plan # << >>, NEW P, NEW gone,
           Kept(held \o plan, P, gone)
    PROVE  LET more == IF Head(plan) \in Range(held) THEN held ELSE Append(held, Head(plan))
           IN  more \in Seq(Stories) /\ Kept(more \o Tail(plan), P, gone)
<1> DEFINE h == Head(plan)
           rest == Tail(plan)
           all == held \o plan
<1>1. /\ h \in Stories /\ rest \in Seq(Stories) /\ Len(plan) = Len(rest) + 1 /\ plan[1] = h
      /\ \A n \in 1..Len(rest) : rest[n] = plan[n + 1]
  BY HeadTailProperties, LenProperties
<1>2. /\ Len(held) \in Nat /\ Len(plan) \in Nat /\ Len(rest) \in Nat
      /\ DOMAIN held = 1..Len(held) /\ DOMAIN plan = 1..Len(plan)
  BY <1>1, LenProperties
<1>3. /\ all \in Seq(Stories) /\ DOMAIN all = 1..Len(held) + Len(plan)
      /\ \A n \in 1..Len(held) + Len(plan) : all[n] = IF n <= Len(held) THEN held[n] ELSE plan[n - Len(held)]
  BY ConcatProperties, LenProperties
<1>4. Backed(all, P, Range(all) \cup (Stories \ gone))
  BY DEF Kept
<1>5. CASE h \notin Range(held)
  <2>1. Append(held, h) \in Seq(Stories) /\ Append(held, h) \o rest = all
    <3> DEFINE t == Append(held, h)
               u == t \o rest
    <3>1. /\ t \in Seq(Stories) /\ Len(t) = Len(held) + 1 /\ t[Len(held) + 1] = h
          /\ \A n \in 1..Len(held) : t[n] = held[n]
      BY <1>1, AppendProperties
    <3> HIDE DEF t
    <3>2. /\ u \in Seq(Stories) /\ Len(u) = Len(t) + Len(rest)
          /\ \A n \in 1..Len(t) + Len(rest) : u[n] = IF n <= Len(t) THEN t[n] ELSE rest[n - Len(t)]
      BY <1>1, <3>1, ConcatProperties
    <3> HIDE DEF u, all, h, rest
    <3>3. Len(u) = Len(all) /\ Len(all) = Len(held) + Len(plan)
      BY <1>1, <1>2, <1>3, <3>1, <3>2, LenProperties
    <3>4. \A n \in 1..Len(u) : u[n] = all[n]
      <4> SUFFICES ASSUME NEW n \in 1..Len(u) PROVE u[n] = all[n]
        OBVIOUS
      <4>1. CASE n <= Len(held)
        BY <1>1, <1>2, <1>3, <3>1, <3>2, <3>3, <4>1
      <4>2. CASE n = Len(held) + 1
        BY <1>1, <1>2, <1>3, <3>1, <3>2, <3>3, <4>2
      <4>3. CASE n > Len(held) + 1
        <5>1. u[n] = rest[n - Len(t)] /\ n - Len(t) \in 1..Len(rest)
          BY <1>1, <1>2, <3>1, <3>2, <3>3, <4>3
        <5>2. all[n] = plan[n - Len(held)] /\ n - Len(held) = (n - Len(t)) + 1
          BY <1>1, <1>2, <1>3, <3>1, <3>2, <3>3, <4>3
        <5> QED BY <1>1, <5>1, <5>2
      <4> QED BY <1>2, <3>1, <3>2, <4>1, <4>2, <4>3
    <3>5. u = all
      BY <1>3, <3>2, <3>3, <3>4, SeqEqual
    <3> QED BY <3>1, <3>5 DEF u, t, all
  <2> QED BY <1>5, <2>1
<1>6. CASE h \in Range(held)
  <2> DEFINE new == held \o rest
  <2>1. /\ new \in Seq(Stories) /\ DOMAIN new = 1..Len(held) + Len(rest)
        /\ \A n \in 1..Len(held) + Len(rest) : new[n] = IF n <= Len(held) THEN held[n] ELSE rest[n - Len(held)]
    BY <1>1, ConcatProperties, LenProperties
  <2> HIDE DEF new, all, h, rest
  <2>2. PICK f \in DOMAIN held : held[f] = h
    BY <1>6 DEF Range
  <2> DEFINE at(n) == IF n <= Len(held) THEN n ELSE n + 1
  <2>3. \A n \in DOMAIN new : at(n) \in DOMAIN all /\ new[n] = all[at(n)]
    <3> SUFFICES ASSUME NEW n \in DOMAIN new PROVE at(n) \in DOMAIN all /\ new[n] = all[at(n)]
      OBVIOUS
    <3>1. CASE n <= Len(held)
      BY <1>1, <1>2, <1>3, <2>1, <3>1
    <3>2. CASE n > Len(held)
      <4>1. new[n] = rest[n - Len(held)] /\ n - Len(held) \in 1..Len(rest) /\ at(n) = n + 1
        BY <1>2, <2>1, <3>2
      <4>2. n + 1 \in DOMAIN all /\ all[n + 1] = plan[(n + 1) - Len(held)] /\ (n + 1) - Len(held) = (n - Len(held)) + 1
        BY <1>1, <1>2, <1>3, <2>1, <3>2
      <4> QED BY <1>1, <4>1, <4>2
    <3> QED BY <1>2, <2>1, <3>1, <3>2
  <2>4. Range(new) \subseteq Range(all)
    BY <2>3 DEF Range
  <2>5. ASSUME NEW j \in DOMAIN new, NEW d \in Range(new) \cup (Stories \ gone), <<d, new[j]>> \in P
        PROVE  \E i \in DOMAIN new : i < j /\ new[i] = d
    <3>1. PICK i \in DOMAIN all : i < at(j) /\ all[i] = d
      BY <1>4, <2>3, <2>4, <2>5 DEF Backed
    <3>2. i \in Nat /\ j \in Nat /\ f \in 1..Len(held)
      BY <1>2, <1>3, <2>1
    <3>3. CASE i <= Len(held)
      <4>1. i \in DOMAIN new /\ new[i] = d
        BY <1>2, <1>3, <2>1, <3>1, <3>2, <3>3
      <4>2. i < j
        BY <1>2, <3>1, <3>2, <3>3
      <4> QED BY <4>1, <4>2
    <3>4. CASE i = Len(held) + 1
      <4>1. d = h
        <5>1. ~(i <= Len(held)) /\ i - Len(held) = 1 /\ i \in 1..Len(held) + Len(plan)
          BY <1>2, <1>3, <3>1, <3>4
        <5>2. all[i] = plan[i - Len(held)]
          BY <1>3, <5>1
        <5> QED BY <1>1, <3>1, <5>1, <5>2
      <4>2. f \in DOMAIN new /\ new[f] = h
        BY <1>2, <2>1, <2>2, <3>2
      <4>3. f < j
        BY <1>2, <3>1, <3>2, <3>4
      <4> QED BY <4>1, <4>2, <4>3
    <3>5. CASE i > Len(held) + 1
      <4>1. i - 1 \in DOMAIN new /\ at(i - 1) = i
        BY <1>1, <1>2, <1>3, <2>1, <3>2, <3>5
      <4>2. new[i - 1] = d
        BY <2>3, <3>1, <4>1
      <4>3. i - 1 < j
        BY <1>2, <3>1, <3>2, <3>5
      <4> QED BY <4>1, <4>2, <4>3
    <3> QED BY <1>2, <3>2, <3>3, <3>4, <3>5
  <2>6. Kept(new, P, gone)
    BY <2>5 DEF Kept, Backed
  <2> QED BY <1>6, <2>6 DEF new, h, rest
<1> QED BY <1>5, <1>6

\* A tick: of a fresh lineup, what is not on the list is put behind it.
LEMMA KeptByTick ==
    ASSUME NEW held \in Seq(Stories), NEW lineup \in Seq(Stories), NEW P, NEW gone,
           Kept(held, P, gone), Backed(lineup, P, Stories \ gone), Range(lineup) \cap gone = {},
           NEW m \in Nat, m <= Len(Only(lineup, Range(lineup) \ Range(held)))
    PROVE  LET plan == SubSeq(Only(lineup, Range(lineup) \ Range(held)), 1, m)
           IN  plan \in Seq(Stories) /\ Kept(held \o plan, P, gone)
<1> DEFINE U == Stories \ gone
           new == Only(lineup, Stories \ Range(held))
           plan == SubSeq(new, 1, m)
           all == held \o plan
<1>1. Only(lineup, Range(lineup) \ Range(held)) = new
  <2>1. Range(lineup) \subseteq Stories
    BY RangeOfSeq
  <2>2. (Range(lineup) \ Range(held)) \cap Range(lineup) = (Stories \ Range(held)) \cap Range(lineup)
    BY <2>1
  <2> QED BY <2>2, OnlySame
<1>2. new \in Seq(Stories) /\ Range(new) \subseteq Range(lineup)
  BY OnlyIsAList, OnlyRange
<1>3. Backed(new, P, U \cap (Stories \ Range(held)))
  <2> HIDE DEF U
  <2> QED BY BackedOnly DEF U
<1> HIDE DEF new
<1>4. plan \in Seq(Stories) /\ Backed(plan, P, U \cap (Stories \ Range(held)))
  BY <1>1, <1>2, <1>3, BackedStart
<1>5. Range(plan) \subseteq U
  <2>1. Len(plan) = m /\ DOMAIN plan = 1..m /\ \A i \in 1..m : plan[i] = new[i]
    BY <1>1, <1>2, SubSeqProperties, LenProperties
  <2>2. DOMAIN new = 1..Len(new) /\ Len(new) \in Nat
    BY <1>2, LenProperties
  <2>3. Range(plan) \subseteq Range(new)
    BY <1>1, <2>1, <2>2 DEF Range
  <2>4. Range(lineup) \subseteq Stories
    BY RangeOfSeq
  <2> QED BY <1>2, <2>3, <2>4
<1> HIDE DEF plan
<1>6. /\ Len(held) \in Nat /\ Len(plan) \in Nat
      /\ DOMAIN held = 1..Len(held) /\ DOMAIN plan = 1..Len(plan)
  BY <1>4, LenProperties
<1>7. /\ DOMAIN all = 1..Len(held) + Len(plan)
      /\ \A n \in 1..Len(held) + Len(plan) : all[n] = IF n <= Len(held) THEN held[n] ELSE plan[n - Len(held)]
  BY <1>4, ConcatProperties, LenProperties
<1>8. Range(all) = Range(held) \cup Range(plan)
  BY <1>4, RangeConcatenation
<1> HIDE DEF all
<1>9. ASSUME NEW j \in DOMAIN all, NEW d \in Range(all) \cup U, <<d, all[j]>> \in P
      PROVE  \E i \in DOMAIN all : i < j /\ all[i] = d
  <2>1. d \in Range(held) \cup U
    BY <1>5, <1>8
  <2>2. CASE j <= Len(held)
    <3>1. j \in DOMAIN held /\ all[j] = held[j]
      BY <1>6, <1>7, <2>2
    <3>2. PICK i \in DOMAIN held : i < j /\ held[i] = d
      BY <1>9, <2>1, <3>1 DEF Kept, Backed
    <3> QED BY <1>6, <1>7, <3>2
  <2>3. CASE ~(j <= Len(held)) /\ d \in Range(held)
    <3>1. PICK i \in DOMAIN held : held[i] = d
      BY <2>3 DEF Range
    <3> QED BY <1>6, <1>7, <2>3, <3>1
  <2>4. CASE ~(j <= Len(held)) /\ d \notin Range(held)
    <3>1. j - Len(held) \in DOMAIN plan /\ all[j] = plan[j - Len(held)]
      BY <1>6, <1>7, <2>4
    <3>2. d \in U \cap (Stories \ Range(held))
      BY <2>1, <2>4
    <3>3. PICK i \in DOMAIN plan : i < j - Len(held) /\ plan[i] = d
      BY <1>4, <1>9, <3>1, <3>2 DEF Backed
    <3>4. Len(held) + i \in DOMAIN all /\ ~(Len(held) + i <= Len(held)) /\ (Len(held) + i) - Len(held) = i
      BY <1>6, <1>7, <3>3
    <3>5. all[Len(held) + i] = d /\ Len(held) + i < j
      BY <1>6, <1>7, <3>3, <3>4
    <3> QED BY <3>4, <3>5
  <2> QED BY <2>2, <2>3, <2>4
<1>10. Kept(all, P, gone)
  BY <1>9 DEF Kept, Backed
<1> QED BY <1>1, <1>4, <1>10 DEF plan, all

-----------------------------------------------------------------------------
(* The order of a series.  What it is read from, chapter by chapter.       *)
CopyAt(s, n) == CHOOSE c \in Copies(s) : c.id = Reading[s][n]

LEMMA ReadingIsListed ==
    ASSUME NEW s \in SeriesSet
    PROVE  /\ Reading[s] \in Seq(Range(Reading[s])) /\ Range(Reading[s]) \subseteq Stories
           /\ Len(Reading[s]) \in Nat /\ DOMAIN Reading[s] = 1..Len(Reading[s])
           /\ \A n, k \in DOMAIN Reading[s] : Reading[s][n] = Reading[s][k] => n = k
<1>1. Reading[s] \in Seq(Range(Reading[s])) /\ IsInjective(Reading[s])
  BY ReadingAssumption
<1>2. Len(Reading[s]) \in Nat /\ DOMAIN Reading[s] = 1..Len(Reading[s])
  BY <1>1, LenProperties
<1> QED BY <1>1, <1>2 DEF Stories, IsInjective

LEMMA CopiesAreThere ==
    ASSUME NEW s \in SeriesSet, NEW n \in DOMAIN Reading[s]
    PROVE  CopyAt(s, n) \in Copies(s) /\ CopyAt(s, n).id = Reading[s][n]
<1>1. Reading[s][n] \in {c.id : c \in Copies(s)}
  <2>1. Reading[s][n] \in Range(Reading[s])
    BY DEF Range
  <2>2. {c.id : c \in Copies(s)} = Range(Reading[s])
    BY ReadingAssumption
  <2> QED BY <2>1, <2>2
<1> QED BY <1>1 DEF CopyAt

LEMMA CopiesAreAt ==
    ASSUME NEW s \in SeriesSet, NEW c \in Copies(s)
    PROVE  /\ \E n \in DOMAIN Reading[s] : c = CopyAt(s, n)
           /\ \A n \in DOMAIN Reading[s] : c.id = Reading[s][n] => c = CopyAt(s, n)
           /\ c.id \in Stories
<1>1. {b.id : b \in Copies(s)} = Range(Reading[s]) /\ \A a, b \in Copies(s) : a.id = b.id => a = b
  BY ReadingAssumption
<1>2. \A n \in DOMAIN Reading[s] : c.id = Reading[s][n] => c = CopyAt(s, n)
  BY <1>1, CopiesAreThere
<1>3. PICK n \in DOMAIN Reading[s] : c.id = Reading[s][n]
  BY <1>1 DEF Range
<1> QED BY <1>2, <1>3, ReadingIsListed DEF Range

LEMMA CopiesInOrder ==
    ASSUME NEW s \in SeriesSet, NEW n \in DOMAIN Reading[s], NEW k \in 1..n - 1
    PROVE  /\ k \in DOMAIN Reading[s]
           /\ CopyAt(s, k).volume \in Int /\ CopyAt(s, k).number \in Int
           /\ CopyAt(s, n).volume \in Int /\ CopyAt(s, n).number \in Int
           /\ CopyAt(s, n).volume # 0 => /\ CopyAt(s, k).volume # 0
                                         /\ CopyAt(s, k).volume <= CopyAt(s, n).volume
           /\ CopyAt(s, k).volume = CopyAt(s, n).volume => CopyAt(s, k).number < CopyAt(s, n).number
<1>1. k \in DOMAIN Reading[s]
  BY ReadingIsListed
<1>2. /\ CopyAt(s, k) \in Copies(s) /\ CopyAt(s, k).id = Reading[s][k]
      /\ CopyAt(s, n) \in Copies(s) /\ CopyAt(s, n).id = Reading[s][n]
  BY <1>1, CopiesAreThere
<1>3. \A c \in Copies(s) : c.volume \in Int /\ c.number \in Int
  BY ReadingAssumption
<1>4. \A b, c \in Copies(s) :
         b.id = Reading[s][k] /\ c.id = Reading[s][n] =>
            /\ c.volume # 0 => b.volume # 0 /\ b.volume <= c.volume
            /\ b.volume = c.volume => b.number < c.number
  BY ReadingAssumption
<1> QED BY <1>1, <1>2, <1>3, <1>4

\* kavita.ts's comparison sorts a series into the order it is read in.
LEMMA ReadsInOrder ==
    ASSUME NEW s \in SeriesSet, NEW n \in DOMAIN Reading[s], NEW k \in DOMAIN Reading[s]
    PROVE  (CopyAt(s, k) = CopyAt(s, n) \/ ReadsBefore(CopyAt(s, k), CopyAt(s, n))) <=> k <= n
<1>0. n \in Nat /\ k \in Nat /\ n >= 1 /\ k >= 1
  BY ReadingIsListed
<1>1. CASE k < n
  <2>1. k \in 1..n - 1
    BY <1>0, <1>1
  <2> QED BY <1>0, <1>1, <2>1, CopiesInOrder DEF ReadsBefore
<1>2. CASE n < k
  <2>1. n \in 1..k - 1
    BY <1>0, <1>2
  <2>2. ~ReadsBefore(CopyAt(s, k), CopyAt(s, n))
    BY <2>1, CopiesInOrder DEF ReadsBefore
  <2>3. CopyAt(s, k) # CopyAt(s, n)
    BY <2>1, CopiesInOrder
  <2> QED BY <1>0, <1>2, <2>2, <2>3
<1>3. CASE k = n
  BY <1>0, <1>3
<1> QED BY <1>0, <1>1, <1>2, <1>3

\* How many of a series are out.
OutOf(s) == out[s] \in 0..Len(Reading[s])

LEMMA OrderedAllIs ==
    ASSUME NEW s \in SeriesSet, OutOf(s)
    PROVE  OrderedAll(s) = [n \in 1..out[s] |-> CopyAt(s, n)]
<1> DEFINE m == out[s]
           all == {c \in Copies(s) : c.id \in Published(s)}
           Place(c) == Cardinality({b \in all : b = c \/ ReadsBefore(b, c)})
           Upto(n) == {CopyAt(s, k) : k \in 1..n}
<1>1. m \in Nat /\ 1..m \subseteq DOMAIN Reading[s]
  BY ReadingIsListed DEF OutOf
<1>2. all = Upto(m)
  <2>1. \A k \in 1..m : CopyAt(s, k) \in all
    BY <1>1, CopiesAreThere DEF Published
  <2>2. ASSUME NEW c \in all PROVE c \in Upto(m)
    <3>1. PICK n \in 1..m : c.id = Reading[s][n]
      BY DEF Published
    <3> QED BY <1>1, <3>1, CopiesAreAt
  <2> QED BY <2>1, <2>2
<1>3. \A n, k \in 1..m : CopyAt(s, n) = CopyAt(s, k) => n = k
  BY <1>1, CopiesAreThere, ReadingIsListed
<1>4. ASSUME NEW n \in 0..m PROVE Cardinality(Upto(n)) = n
  <2> DEFINE f == [k \in 1..n |-> CopyAt(s, k)]
  <2>1. f \in Bijection(1..n, Upto(n))
    <3>1. f \in Surjection(1..n, Upto(n))
      BY DEF Surjection
    <3>2. f \in Injection(1..n, Upto(n))
      <4>1. \A k \in 1..n : k \in 1..m
        BY <1>1
      <4>2. \A a, b \in 1..n : f[a] = f[b] => a = b
        BY <1>3, <4>1
      <4>3. f \in [1..n -> Upto(n)]
        OBVIOUS
      <4> QED BY <4>2, <4>3 DEF Injection, IsInjective
    <3> QED BY <3>1, <3>2 DEF Bijection
  <2>2. ExistsBijection(1..n, Upto(n))
    BY <2>1 DEF ExistsBijection
  <2>3. IsFiniteSet(1..n) /\ Cardinality(1..n) = n
    <3>1. n \in Int /\ 1 \in Int /\ (1 > n => n = 0)
      BY <1>1
    <3>2. IsFiniteSet(1..n) /\ Cardinality(1..n) = IF 1 > n THEN 0 ELSE n - 1 + 1
      BY ONLY <3>1, FS_Interval
    <3> QED BY <3>1, <3>2
  <2> HIDE DEF Upto
  <2> QED BY <2>2, <2>3, FS_Bijection
<1>5. Cardinality(all) = m
  <2>1. m \in 0..m
    BY <1>1
  <2> HIDE DEF all, Upto, m
  <2> QED BY <1>2, <1>4, <2>1
<1>6. ASSUME NEW n \in 1..m PROVE Place(CopyAt(s, n)) = n
  <2>1. \A k \in 1..m : (CopyAt(s, k) = CopyAt(s, n) \/ ReadsBefore(CopyAt(s, k), CopyAt(s, n))) <=> k <= n
    BY <1>1, ReadsInOrder
  <2>2. {b \in Upto(m) : b = CopyAt(s, n) \/ ReadsBefore(b, CopyAt(s, n))} = Upto(n)
    <3>1. \A k \in 1..n : k \in 1..m /\ k <= n
      BY <1>1
    <3>2. \A k \in 1..m : k <= n => k \in 1..n
      BY <1>1
    <3> QED BY <2>1, <3>1, <3>2
  <2>3. n \in 0..m
    BY <1>1
  <2> HIDE DEF all, Upto, m
  <2> QED BY <1>2, <1>4, <2>2, <2>3
<1>7. \A n \in 1..m : (CHOOSE c \in all : Place(c) = n) = CopyAt(s, n)
  <2> SUFFICES ASSUME NEW n \in 1..m PROVE (CHOOSE c \in all : Place(c) = n) = CopyAt(s, n)
    OBVIOUS
  <2>1. CopyAt(s, n) \in all /\ Place(CopyAt(s, n)) = n
    BY <1>2, <1>6
  <2>2. ASSUME NEW c \in all, Place(c) = n PROVE c = CopyAt(s, n)
    <3>1. PICK k \in 1..m : c = CopyAt(s, k)
      BY <1>2
    <3> HIDE DEF Place, all, m
    <3> QED BY <1>6, <2>2, <3>1
  <2> HIDE DEF Place, all
  <2> QED BY <2>1, <2>2
<1>8. OrderedAll(s) = [n \in 1..Cardinality(all) |-> CHOOSE c \in all : Place(c) = n]
  BY DEF OrderedAll
<1> HIDE DEF Place, all
<1> QED BY <1>5, <1>7, <1>8

\* The number a chapter has once a later one is out: what its volume holds is known then,
\* for the chapters come out in the order they are read.
IsSoleOf(s, c) == c.volume # 0 /\ \A d \in InVolumes[s] : d.volume = c.volume => d = c
IsToRead(s, c) == (IF IsSoleOf(s, c) THEN c.volume ELSE c.number) >= Floors[s]

LEMMA FloorIsSettled ==
    ASSUME NEW s \in SeriesSet, OutOf(s), NEW n \in 1..out[s], NEW k \in 1..n - 1
    PROVE  AtOrAfterFloor(s, CopyAt(s, k)) <=> IsToRead(s, CopyAt(s, k))
<1> DEFINE c == CopyAt(s, k)
           e == CopyAt(s, n)
<1>1. /\ out[s] \in Nat /\ n \in DOMAIN Reading[s] /\ k \in DOMAIN Reading[s]
      /\ Len(Reading[s]) \in Nat /\ DOMAIN Reading[s] = 1..Len(Reading[s])
  BY ReadingIsListed DEF OutOf
<1>2. c \in Copies(s) /\ e \in Copies(s) /\ e.id = Reading[s][n] /\ c.id = Reading[s][k] /\ c # e
  BY <1>1, CopiesAreThere, ReadingIsListed
<1>3. InVolumes[s] \subseteq Copies(s) /\ \A d \in Copies(s) : d \in InVolumes[s] \/ d.volume = 0
  BY ReadingAssumption DEF Copies
<1>4. e.id \in Published(s)
  BY <1>2 DEF Published
<1>5. ASSUME IsWholeVolume(s, c), NEW d \in InVolumes[s], d.volume = c.volume, d # c PROVE FALSE
  <2>1. c.volume # 0 /\ d.id \notin Published(s)
    BY <1>5 DEF IsWholeVolume
  <2>2. PICK q \in DOMAIN Reading[s] : d = CopyAt(s, q)
    BY <1>3, CopiesAreAt
  <2>3. ~(q <= out[s]) /\ q \in Nat /\ n \in 1..q - 1
    <3>1. d.id = Reading[s][q]
      BY <2>2, CopiesAreThere
    <3>2. ~(q <= out[s])
      BY <1>1, <2>1, <3>1 DEF Published
    <3> QED BY <1>1, <3>2
  <2>4. e.volume # 0 /\ e.volume <= d.volume /\ e.volume \in Int /\ d.volume \in Int
    BY <1>5, <2>1, <2>2, <2>3, CopiesInOrder
  <2>5. c.volume <= e.volume /\ c.volume \in Int
    BY <1>1, <2>4, CopiesInOrder
  <2>6. e.volume = c.volume /\ e \in InVolumes[s]
    BY <1>2, <1>3, <1>5, <2>4, <2>5
  <2>7. e = c
    BY <1>4, <1>5, <2>6 DEF IsWholeVolume
  <2> QED BY <1>2, <2>7
<1>6. IsWholeVolume(s, c) <=> IsSoleOf(s, c)
  BY <1>5 DEF IsWholeVolume, IsSoleOf
<1> QED BY <1>6 DEF AtOrAfterFloor, NumberOf, IsToRead

\* A chapter and one that is to be read before it.
MustPrecede ==
    {pair \in Stories \X Stories :
        \E s \in SeriesSet : \E n \in DOMAIN Reading[s] : \E k \in 1..n - 1 :
            pair = <<Reading[s][k], Reading[s][n]>> /\ IsToRead(s, CopyAt(s, k))}

LEMMA PrecedesWithin ==
    ASSUME NEW s \in SeriesSet, NEW n \in DOMAIN Reading[s], NEW d, <<d, Reading[s][n]>> \in MustPrecede
    PROVE  \E k \in 1..n - 1 : d = Reading[s][k] /\ IsToRead(s, CopyAt(s, k))
<1>0. PICK t \in SeriesSet : \E m \in DOMAIN Reading[t] : \E k \in 1..m - 1 :
         <<d, Reading[s][n]>> = <<Reading[t][k], Reading[t][m]>> /\ IsToRead(t, CopyAt(t, k))
  BY DEF MustPrecede
<1>1. PICK m \in DOMAIN Reading[t] : \E k \in 1..m - 1 :
         d = Reading[t][k] /\ Reading[s][n] = Reading[t][m] /\ IsToRead(t, CopyAt(t, k))
  BY <1>0
<1>2. Reading[s][n] \in Range(Reading[s]) /\ Reading[t][m] \in Range(Reading[t])
  BY DEF Range
<1>3. s = t
  BY <1>1, <1>2, ReadingAssumption
<1>4. m = n
  BY <1>1, <1>3, ReadingIsListed
<1> QED BY <1>1, <1>3, <1>4

\* A visit to a series takes its unread chapters from the first on.
LEMMA BucketIsBacked ==
    ASSUME NEW s \in SeriesSet, OutOf(s), read \subseteq Stories
    PROVE  /\ Bucket(s) \in Seq(Stories)
           /\ Backed(Bucket(s), MustPrecede, Stories \ read)
           /\ Range(Bucket(s)) \subseteq Published(s) \ read
<1> DEFINE all == OrderedAll(s)
           R == {c \in Copies(s) : c.id \notin read}
           F == {c \in Copies(s) : AtOrAfterFloor(s, c)}
           unread == Only(OrderedUnread(s), F)
           P == {pair \in Copies(s) \X Copies(s) :
                   <<pair[1].id, pair[2].id>> \in MustPrecede /\ pair[2].id \in Published(s)}
<1>1. out[s] \in Nat /\ 1..out[s] \subseteq DOMAIN Reading[s]
  BY ReadingIsListed DEF OutOf
<1>2. all = [n \in 1..out[s] |-> CopyAt(s, n)]
  BY OrderedAllIs
<1>3. all \in Seq(Copies(s)) /\ DOMAIN all = 1..out[s] /\ \A n \in 1..out[s] : all[n] = CopyAt(s, n)
  <2>1. \A n \in 1..out[s] : CopyAt(s, n) \in Copies(s)
    BY <1>1, CopiesAreThere
  <2>2. all \in [1..out[s] -> Copies(s)]
    BY <1>2, <2>1
  <2> QED BY <1>1, <1>2, <2>2, SeqDef
<1>4. Range(all) \subseteq {c \in Copies(s) : c.id \in Published(s)}
  BY <1>1, <1>3, CopiesAreThere DEF Range, Published
<1>5. Backed(all, P, Copies(s))
  <2> SUFFICES ASSUME NEW j \in 1..out[s], NEW b \in Copies(s), <<b, all[j]>> \in P
               PROVE  \E i \in 1..out[s] : i < j /\ all[i] = b
    BY <1>3 DEF Backed
  <2>1. all[j].id = Reading[s][j] /\ j \in DOMAIN Reading[s]
    BY <1>1, <1>3, CopiesAreThere
  <2>2. <<b.id, Reading[s][j]>> \in MustPrecede
    BY <2>1
  <2>3. PICK k \in 1..j - 1 : b.id = Reading[s][k]
    BY <2>1, <2>2, PrecedesWithin
  <2>4. k \in 1..out[s] /\ k < j
    BY <1>1
  <2>5. b = CopyAt(s, k)
    BY <1>1, <2>3, <2>4, CopiesAreAt
  <2> QED BY <1>3, <2>4, <2>5
<1> HIDE DEF all, P, R, F
<1>6. OrderedUnread(s) = Only(all, R)
  BY DEF OrderedUnread, all, R
<1>7. /\ OrderedUnread(s) \in Seq(Copies(s)) /\ Range(OrderedUnread(s)) = Range(all) \cap R
      /\ Backed(OrderedUnread(s), P, Copies(s) \cap R)
  BY <1>3, <1>5, <1>6, OnlyIsAList, OnlyRange, BackedOnly
<1>8. /\ unread \in Seq(Copies(s)) /\ Range(unread) = Range(all) \cap R \cap F
      /\ Backed(unread, P, Copies(s) \cap R \cap F)
  BY <1>7, OnlyIsAList, OnlyRange, BackedOnly
<1> DEFINE want == IF unread # << >> /\ IsWholeVolume(s, Head(unread)) THEN Volumes[s] ELSE Chapters[s]
           m == IF want < Len(unread) THEN want ELSE Len(unread)
           bucket == [n \in 1..m |-> unread[n].id]
<1>9. Bucket(s) = bucket
  BY DEF Bucket, F
<1> HIDE DEF unread
<1>10. Len(unread) \in Nat /\ DOMAIN unread = 1..Len(unread) /\ m \in Nat /\ m <= Len(unread)
  <2>1. Len(unread) \in Nat /\ DOMAIN unread = 1..Len(unread)
    BY <1>8, LenProperties
  <2>2. want \in Nat
    BY ReadingAssumption
  <2> HIDE DEF want
  <2> QED BY <2>1, <2>2
<1> HIDE DEF m
<1>11. \A n \in 1..m : /\ n \in DOMAIN unread /\ unread[n] \in Copies(s)
                       /\ unread[n].id \in Published(s) \ read
  <2> SUFFICES ASSUME NEW n \in 1..m
               PROVE  /\ n \in DOMAIN unread /\ unread[n] \in Copies(s)
                      /\ unread[n].id \in Published(s) \ read
    OBVIOUS
  <2>1. n \in DOMAIN unread
    BY <1>10
  <2>2. unread[n] \in Range(unread)
    BY <2>1 DEF Range
  <2> QED BY <1>4, <1>8, <2>1, <2>2 DEF R
<1>12. bucket \in Seq(Stories)
  <2>1. bucket \in [1..m -> Stories]
    BY <1>11, CopiesAreAt
  <2> QED BY <1>10, <2>1, SeqDef
<1>13. ASSUME NEW j \in 1..m, NEW d \in Stories \ read, <<d, bucket[j]>> \in MustPrecede
       PROVE  \E i \in 1..m : i < j /\ bucket[i] = d
  <2>1. PICK n \in 1..out[s] : unread[j].id = Reading[s][n]
    BY <1>11 DEF Published
  <2>2. n \in DOMAIN Reading[s] /\ <<d, Reading[s][n]>> \in MustPrecede
    BY <1>1, <1>13, <2>1
  <2>3. PICK k \in 1..n - 1 : d = Reading[s][k] /\ IsToRead(s, CopyAt(s, k))
    BY <2>2, PrecedesWithin
  <2> DEFINE b == CopyAt(s, k)
  <2>4. b \in Copies(s) /\ b.id = d
    BY <1>1, <2>2, <2>3, CopiesInOrder, CopiesAreThere
  <2>5. b \in R /\ b \in F
    BY <2>3, <2>4, FloorIsSettled DEF R, F
  <2> HIDE DEF b
  <2>6. <<b, unread[j]>> \in P
    BY <1>11, <1>13, <2>4 DEF P
  <2>7. PICK i \in DOMAIN unread : i < j /\ unread[i] = b
    BY <1>8, <1>11, <2>4, <2>5, <2>6 DEF Backed
  <2>8. i \in 1..m
    BY <1>10, <2>7
  <2> QED BY <2>4, <2>7, <2>8
<1>14. Backed(bucket, MustPrecede, Stories \ read)
  BY <1>13 DEF Backed
<1>15. Range(bucket) \subseteq Published(s) \ read
  BY <1>11 DEF Range
<1> HIDE DEF bucket
<1> QED BY <1>9, <1>12, <1>14, <1>15

AllOut == UNION {Published(s) : s \in SeriesSet}

LEMMA OutIsStories == (\A s \in SeriesSet : OutOf(s)) => AllOut \subseteq Stories
<1> SUFFICES ASSUME \A s \in SeriesSet : OutOf(s), NEW s \in SeriesSet, NEW n \in 1..out[s]
             PROVE  Reading[s][n] \in Stories
  BY DEF AllOut, Published
<1>1. n \in DOMAIN Reading[s]
  BY ReadingIsListed DEF OutOf
<1> QED BY <1>1, ReadingIsListed DEF Range

\* What lists laid end to end hold is what one of them does.
LEMMA FlatHolds ==
    ASSUME NEW S, NEW n \in Nat, NEW seqs \in [1..n -> Seq(S)], NEW T, \A k \in 1..n : Range(seqs[k]) \subseteq T
    PROVE  Range(FlattenSeq(seqs)) \subseteq T
<1> DEFINE flat == FlattenSeq(seqs)
<1>1. \E row, col : Laid(flat, seqs, n, row, col)
  BY FlattenLays
<1> HIDE DEF flat
<1>2. PICK row, col : Laid(flat, seqs, n, row, col)
  BY <1>1
<1>3. \A i \in DOMAIN flat : row[i] \in 1..n /\ col[i] \in DOMAIN seqs[row[i]] /\ flat[i] = seqs[row[i]][col[i]]
  BY <1>2 DEF Laid
<1>4. \A i \in DOMAIN flat : flat[i] \in T
  BY <1>3 DEF Range
<1> QED BY <1>4 DEF Range, flat

LEMMA StartHolds ==
    ASSUME NEW S, NEW s \in Seq(S), NEW m \in Nat, m <= Len(s)
    PROVE  Range(SubSeq(s, 1, m)) \subseteq Range(s) /\ Len(SubSeq(s, 1, m)) = m
<1> DEFINE t == SubSeq(s, 1, m)
<1>1. DOMAIN t = 1..m /\ Len(t) = m /\ DOMAIN s = 1..Len(s) /\ Len(s) \in Nat /\ \A i \in 1..m : t[i] = s[i]
  BY SubSeqProperties, LenProperties
<1> HIDE DEF t
<1> QED BY <1>1 DEF Range, t

LEMMA LineupIsBacked ==
    ASSUME \A s \in SeriesSet : OutOf(s), read \subseteq Stories, NEW lineup \in Lineups
    PROVE  /\ lineup \in Seq(Stories)
           /\ Backed(lineup, MustPrecede, Stories \ read)
           /\ Range(lineup) \subseteq AllOut \ read
<1> DEFINE orders == IF IsRandom THEN {o \in [DOMAIN Entries -> SeriesSet] : Range(o) = SeriesSet}
                     ELSE {Entries}
           Flat(o) == FlattenSeq([n \in DOMAIN o |-> Bucket(o[n])])
           Cut(play) == IF Len(play) < Window THEN Len(play) ELSE Window
<1>1. PICK o \in orders : lineup = SubSeq(Flat(o), 1, Cut(Flat(o)))
  BY DEF Lineups
<1>2. Entries \in Seq(SeriesSet) /\ Window \in Nat
  BY ReadingAssumption
<1>3. Len(Entries) \in Nat /\ DOMAIN Entries = 1..Len(Entries) /\ Entries \in [1..Len(Entries) -> SeriesSet]
  BY <1>2, LenProperties
<1>4. o \in [1..Len(Entries) -> SeriesSet]
  BY <1>3
<1> DEFINE N == Len(Entries)
           seqs == [n \in 1..N |-> Bucket(o[n])]
<1>5. Flat(o) = FlattenSeq(seqs)
  BY <1>4
<1>6. \A k \in 1..N : /\ seqs[k] \in Seq(Stories) /\ Backed(seqs[k], MustPrecede, Stories \ read)
                      /\ Range(seqs[k]) \subseteq AllOut \ read
  <2> SUFFICES ASSUME NEW k \in 1..N
               PROVE  /\ seqs[k] \in Seq(Stories) /\ Backed(seqs[k], MustPrecede, Stories \ read)
                      /\ Range(seqs[k]) \subseteq AllOut \ read
    OBVIOUS
  <2>1. o[k] \in SeriesSet
    BY <1>4
  <2>2. Range(Bucket(o[k])) \subseteq Published(o[k]) \ read /\ Published(o[k]) \subseteq AllOut
    BY <2>1, BucketIsBacked DEF AllOut
  <2> QED BY <2>1, <2>2, BucketIsBacked
<1>7. N \in Nat /\ seqs \in [1..N -> Seq(Stories)]
  BY <1>3, <1>6
<1> DEFINE flat == FlattenSeq(seqs)
<1> HIDE DEF seqs, N
<1>8. flat \in Seq(Stories) /\ Backed(flat, MustPrecede, Stories \ read)
  BY <1>6, <1>7, BackedFlat
<1>9. Range(flat) \subseteq AllOut \ read
  BY <1>6, <1>7, FlatHolds
<1> HIDE DEF flat
<1>10. Len(flat) \in Nat /\ Cut(flat) \in Nat /\ Cut(flat) <= Len(flat)
  BY <1>2, <1>8, LenProperties
<1>11. lineup = SubSeq(flat, 1, Cut(flat))
  BY <1>1, <1>5 DEF flat
<1> HIDE DEF Cut
<1>12. Range(SubSeq(flat, 1, Cut(flat))) \subseteq Range(flat)
  BY <1>8, <1>10, StartHolds
<1> QED BY <1>8, <1>9, <1>10, <1>11, <1>12, BackedStart

-----------------------------------------------------------------------------
(* The invariant.                                                          *)
Listing == [title : Range(Labels), locked : BOOLEAN, rows : Seq(Stories)]
WorkAt == [kind : {"none", "launch", "tick"},
           step : {"none", "find", "clear", "cover", "add", "build", "append", "trim"},
           list : Nat, todo : Seq(Stories), plan : Seq(Stories), added : Int]

ReadingTypes ==
    /\ \A s \in SeriesSet : OutOf(s)
    /\ out \in [SeriesSet -> Nat]
    /\ read \subseteq Stories
    /\ readingLists \in Seq(Listing)
    /\ label \in DOMAIN Labels
    /\ job \in WorkAt
    /\ clean \in BOOLEAN

\* Only what is out is listed.
ListsAreOut ==
    /\ \A n \in DOMAIN readingLists : Range(RowsOf(n)) \subseteq AllOut
    /\ Range(job.plan) \subseteq AllOut

\* Where a job is.
JobIsPlaced ==
    /\ job.kind = "none" => job = NoJob
    /\ job.kind = "launch" => job.step \in {"find", "clear", "cover", "add"} /\ job.plan # << >>
    /\ job.kind = "tick" => job.step \in {"build", "append", "trim"}
    /\ job.step \in {"clear", "cover", "add", "build", "append", "trim"} => job.list \in DOMAIN readingLists
    /\ job.step = "append" => job.plan # << >>
    /\ job.step = "build" => job.todo = RowsOf(job.list)

\* A list is in order, or will be when its job is gone.
InWork(n) == n = job.list /\ job.step \in {"clear", "cover", "add", "append"}
ListsAreInOrder ==
    clean =>
        /\ \A n \in DOMAIN readingLists : InWork(n) \/ Kept(RowsOf(n), MustPrecede, read)
        /\ job.step \in {"find", "clear", "cover"} => Kept(job.plan, MustPrecede, read)
        /\ job.step = "clear" => Range(RowsOf(job.list)) \subseteq Range(job.todo)
        /\ job.step = "cover" => RowsOf(job.list) = << >>
        /\ job.step \in {"add", "append"} => Kept(RowsOf(job.list) \o job.plan, MustPrecede, read)

ReadingInv == ReadingTypes /\ ListsAreOut /\ JobIsPlaced /\ ListsAreInOrder

LEMMA SetListIsListed ==
    ASSUME readingLists \in Seq(Listing)
    PROVE  SetList = 0 \/ SetList \in DOMAIN readingLists
<1>1. ASSUME NEW title, Titled(title) # {} PROVE Earliest(Titled(title)) \in DOMAIN readingLists
  <2>1. Titled(title) \subseteq DOMAIN readingLists /\ DOMAIN readingLists \subseteq Nat
    BY LenProperties DEF Titled
  <2>2. \E n \in Titled(title) : \A k \in Titled(title) : ~(k < n)
    BY <1>1, <2>1, LeastNumber
  <2>3. \E n \in Titled(title) : \A k \in Titled(title) : n <= k
    BY <2>1, <2>2
  <2> QED BY <2>1, <2>3 DEF Earliest
<1> QED BY <1>1 DEF SetList

\* One list has other rows, or another name.
LEMMA ListingsChange ==
    ASSUME readingLists \in Seq(Listing), NEW n \in DOMAIN readingLists
    PROVE  /\ readingLists[n] \in Listing /\ RowsOf(n) \in Seq(Stories)
           /\ \A held \in Seq(Stories) :
                LET new == [readingLists EXCEPT ![n].rows = held] IN
                /\ new \in Seq(Listing) /\ DOMAIN new = DOMAIN readingLists
                /\ new[n].rows = held /\ \A k \in DOMAIN readingLists : k # n => new[k].rows = RowsOf(k)
           /\ \A title \in Range(Labels) :
                LET new == [readingLists EXCEPT ![n].title = title] IN
                /\ new \in Seq(Listing) /\ DOMAIN new = DOMAIN readingLists
                /\ \A k \in DOMAIN readingLists : new[k].rows = RowsOf(k)
           /\ LET new == [readingLists EXCEPT ![n].locked = TRUE] IN
                /\ new \in Seq(Listing) /\ DOMAIN new = DOMAIN readingLists
                /\ \A k \in DOMAIN readingLists : new[k].rows = RowsOf(k)
<1>1. /\ readingLists \in [1..Len(readingLists) -> Listing] /\ Len(readingLists) \in Nat
      /\ DOMAIN readingLists = 1..Len(readingLists)
  BY LenProperties
<1>2. \A k \in DOMAIN readingLists : readingLists[k] \in Listing /\ RowsOf(k) \in Seq(Stories)
  BY <1>1 DEF Listing, RowsOf
<1>3. \A f : f \in [1..Len(readingLists) -> Listing] => f \in Seq(Listing)
  BY <1>1, SeqDef
<1>4. ASSUME NEW held \in Seq(Stories)
      PROVE  LET new == [readingLists EXCEPT ![n].rows = held] IN
             /\ new \in Seq(Listing) /\ DOMAIN new = DOMAIN readingLists
             /\ new[n].rows = held /\ \A k \in DOMAIN readingLists : k # n => new[k].rows = RowsOf(k)
  <2> DEFINE new == [readingLists EXCEPT ![n].rows = held]
             row == [readingLists[n] EXCEPT !.rows = held]
  <2>1. row \in Listing /\ row.rows = held
    BY <1>2 DEF Listing
  <2>2. new = [readingLists EXCEPT ![n] = row]
    OBVIOUS
  <2> HIDE DEF row, new
  <2>3. /\ new \in [1..Len(readingLists) -> Listing]
        /\ \A k \in DOMAIN readingLists : new[k] = IF k = n THEN row ELSE readingLists[k]
    BY <1>1, <2>1, <2>2
  <2> QED BY <1>1, <1>3, <2>1, <2>3 DEF new, RowsOf
<1>5. ASSUME NEW title \in Range(Labels)
      PROVE  LET new == [readingLists EXCEPT ![n].title = title] IN
             /\ new \in Seq(Listing) /\ DOMAIN new = DOMAIN readingLists
             /\ \A k \in DOMAIN readingLists : new[k].rows = RowsOf(k)
  <2> DEFINE new == [readingLists EXCEPT ![n].title = title]
             row == [readingLists[n] EXCEPT !.title = title]
  <2>1. row \in Listing /\ row.rows = readingLists[n].rows
    BY <1>2 DEF Listing
  <2>2. new = [readingLists EXCEPT ![n] = row]
    OBVIOUS
  <2> HIDE DEF row, new
  <2>3. /\ new \in [1..Len(readingLists) -> Listing]
        /\ \A k \in DOMAIN readingLists : new[k] = IF k = n THEN row ELSE readingLists[k]
    BY <1>1, <2>1, <2>2
  <2> QED BY <1>1, <1>3, <2>1, <2>3 DEF new, RowsOf
<1>6. LET new == [readingLists EXCEPT ![n].locked = TRUE] IN
      /\ new \in Seq(Listing) /\ DOMAIN new = DOMAIN readingLists
      /\ \A k \in DOMAIN readingLists : new[k].rows = RowsOf(k)
  <2> DEFINE new == [readingLists EXCEPT ![n].locked = TRUE]
             row == [readingLists[n] EXCEPT !.locked = TRUE]
  <2>1. row \in Listing /\ row.rows = readingLists[n].rows
    BY <1>2 DEF Listing
  <2>2. new = [readingLists EXCEPT ![n] = row]
    OBVIOUS
  <2> HIDE DEF row, new
  <2>3. /\ new \in [1..Len(readingLists) -> Listing]
        /\ \A k \in DOMAIN readingLists : new[k] = IF k = n THEN row ELSE readingLists[k]
    BY <1>1, <2>1, <2>2
  <2> QED BY <1>1, <1>3, <2>1, <2>3 DEF new, RowsOf
<1> QED BY <1>2, <1>4, <1>5, <1>6

LEMMA ReadingStarts == ReadingInit => ReadingInv
<1> SUFFICES ASSUME ReadingInit PROVE ReadingInv
  OBVIOUS
<1>1. ReadingTypes
  <2>1. \A s \in SeriesSet : OutOf(s)
    BY ReadingIsListed DEF ReadingInit, OutOf
  <2>2. out \in [SeriesSet -> Nat] /\ read \subseteq Stories /\ clean \in BOOLEAN
    BY DEF ReadingInit
  <2>3. readingLists \in Seq(Listing)
    BY EmptySeq DEF ReadingInit
  <2>4. label \in DOMAIN Labels
    <3>1. Labels \in Seq(Range(Labels)) /\ Labels # << >>
      BY ReadingAssumption
    <3>2. DOMAIN Labels = 1..Len(Labels) /\ Len(Labels) \in Nat /\ Len(Labels) # 0
      BY <3>1, LenProperties, EmptySeq
    <3> QED BY <3>2 DEF ReadingInit
  <2>5. job \in WorkAt
    BY DEF ReadingInit, NoJob, WorkAt
  <2> QED BY <2>1, <2>2, <2>3, <2>4, <2>5 DEF ReadingTypes
<1>2. DOMAIN readingLists = {} /\ Range(job.plan) = {}
  BY DEF ReadingInit, NoJob, Range
<1> QED BY <1>1, <1>2 DEF ReadingInit, NoJob, ReadingInv, ListsAreOut, JobIsPlaced, ListsAreInOrder

LEMMA JobsOwn ==
    ASSUME ReadingTypes, UNCHANGED <<out, read, label>>,
           readingLists' \in Seq(Listing), job' \in WorkAt, clean' \in BOOLEAN
    PROVE  ReadingTypes' /\ AllOut' = AllOut
<1>1. AllOut' = AllOut
  BY DEF AllOut, Published
<1>2. \A s \in SeriesSet : OutOf(s)'
  BY DEF ReadingTypes, OutOf
<1> QED BY <1>1, <1>2 DEF ReadingTypes

LEMMA LaunchKeepsOrder == ReadingInv /\ Launch => ReadingInv'
<1> SUFFICES ASSUME ReadingInv, Launch PROVE ReadingInv'
  OBVIOUS
<1>1. PICK lineup \in Lineups :
         lineup # << >> /\ job' = [NoJob EXCEPT !.kind = "launch", !.step = "find", !.plan = lineup]
  BY DEF Launch
<1>2. job = NoJob /\ UNCHANGED <<out, read, readingLists, label, clean>>
  BY DEF Launch, AtRest
<1>3. /\ lineup \in Seq(Stories) /\ Backed(lineup, MustPrecede, Stories \ read)
      /\ Range(lineup) \subseteq AllOut \ read /\ AllOut \subseteq Stories
  BY LineupIsBacked, OutIsStories DEF ReadingInv, ReadingTypes
<1>4. Kept(lineup, MustPrecede, read)
  <2>1. Range(lineup) \cup (Stories \ read) = Stories \ read
    BY <1>3
  <2> QED BY <1>3, <2>1 DEF Kept
<1>5. /\ job'.kind = "launch" /\ job'.step = "find" /\ job'.plan = lineup /\ job' \in WorkAt
      /\ job.step = "none"
  <2>1. << >> \in Seq(Stories)
    BY EmptySeq
  <2>2. job' = [kind |-> "launch", step |-> "find", list |-> 0, todo |-> << >>, plan |-> lineup, added |-> 0]
    BY <1>1 DEF NoJob
  <2> QED BY <1>2, <1>3, <2>1, <2>2 DEF NoJob, WorkAt
<1>6. ReadingTypes' /\ AllOut' = AllOut
  BY <1>2, <1>5, JobsOwn DEF ReadingInv, ReadingTypes
<1>7. ListsAreOut'
  BY <1>2, <1>3, <1>5, <1>6 DEF ReadingInv, ListsAreOut, RowsOf
<1>8. JobIsPlaced'
  BY <1>1, <1>5 DEF JobIsPlaced
<1>9. ListsAreInOrder'
  <2>1. clean => \A n \in DOMAIN readingLists : Kept(RowsOf(n), MustPrecede, read)
    BY <1>5 DEF ReadingInv, ListsAreInOrder, InWork
  <2> QED BY <1>2, <1>4, <1>5, <2>1 DEF ListsAreInOrder, RowsOf
<1> QED BY <1>6, <1>7, <1>8, <1>9 DEF ReadingInv

LEMMA FindOrCreateKeepsOrder == ReadingInv /\ FindOrCreate => ReadingInv'
<1> SUFFICES ASSUME ReadingInv, FindOrCreate PROVE ReadingInv'
  OBVIOUS
<1>1. /\ job.kind = "launch" /\ job.step = "find" /\ UNCHANGED <<out, read, label, clean>>
      /\ job \in WorkAt /\ readingLists \in Seq(Listing) /\ clean \in BOOLEAN
      /\ job.plan # << >> /\ job.plan \in Seq(Stories) /\ Range(job.plan) \subseteq AllOut
  BY DEF FindOrCreate, ReadingInv, ReadingTypes, ListsAreOut, JobIsPlaced, WorkAt
<1>2. Labels[label] \in Range(Labels)
  BY DEF ReadingInv, ReadingTypes, Range
<1>3. clean => /\ \A n \in DOMAIN readingLists : Kept(RowsOf(n), MustPrecede, read)
               /\ Kept(job.plan, MustPrecede, read)
  BY <1>1 DEF ReadingInv, ListsAreInOrder, InWork
<1>4. \A n \in DOMAIN readingLists : Range(RowsOf(n)) \subseteq AllOut
  BY DEF ReadingInv, ListsAreOut
<1>5. CASE SetList = 0
  <2> DEFINE one == [title |-> Title, locked |-> FALSE, rows |-> << >>]
  <2>1. /\ readingLists' = Append(readingLists, one)
        /\ job' = [job EXCEPT !.step = "cover", !.list = Len(readingLists) + 1]
    BY <1>5 DEF FindOrCreate
  <2>2. one \in Listing
    BY <1>2, EmptySeq DEF Title, Listing
  <2>3. one.rows = << >>
    OBVIOUS
  <2> HIDE DEF one
  <2>4. /\ readingLists' \in Seq(Listing) /\ DOMAIN readingLists' = 1..Len(readingLists) + 1
        /\ DOMAIN readingLists = 1..Len(readingLists) /\ Len(readingLists) \in Nat
        /\ readingLists'[Len(readingLists) + 1] = one
        /\ \A n \in 1..Len(readingLists) : readingLists'[n] = readingLists[n]
    BY <1>1, <2>1, <2>2, AppendProperties, LenProperties
  <2>5. /\ job' \in WorkAt /\ job'.kind = "launch" /\ job'.step = "cover" /\ job'.list = Len(readingLists) + 1
        /\ job'.plan = job.plan
    <3>1. Len(readingLists) + 1 \in Nat
      BY <2>4
    <3> QED BY <1>1, <2>1, <3>1 DEF WorkAt
  <2>6. /\ \A n \in DOMAIN readingLists' : n = job'.list \/ (n \in DOMAIN readingLists /\ RowsOf(n)' = RowsOf(n))
        /\ RowsOf(job.list)' = << >> /\ job'.list \in DOMAIN readingLists'
        /\ readingLists'[job'.list].rows = << >>
    <3>1. \A n \in 1..Len(readingLists) + 1 : n = Len(readingLists) + 1 \/ n \in 1..Len(readingLists)
      BY <2>4
    <3>2. Len(readingLists) + 1 \in 1..Len(readingLists) + 1
      BY <2>4
    <3>3. \A n \in 1..Len(readingLists) : RowsOf(n)' = RowsOf(n)
      BY <2>4 DEF RowsOf
    <3>4. RowsOf(job.list)' = << >> /\ readingLists'[job'.list].rows = << >>
      BY <2>3, <2>4, <2>5 DEF RowsOf
    <3> QED BY <2>4, <2>5, <3>1, <3>2, <3>3, <3>4
  <2>7. ReadingTypes' /\ AllOut' = AllOut
    BY <1>1, <2>4, <2>5, JobsOwn DEF ReadingInv
  <2>8. ListsAreOut'
    <3>1. Range(<< >>) = {}
      BY DEF Range
    <3>2. \A n \in DOMAIN readingLists' : Range(RowsOf(n)') \subseteq AllOut
      BY <1>4, <2>6, <3>1 DEF RowsOf
    <3> QED BY <1>1, <2>5, <2>7, <3>2 DEF ListsAreOut, RowsOf
  <2>9. JobIsPlaced'
    BY <1>1, <2>5, <2>6 DEF JobIsPlaced
  <2>10. ListsAreInOrder'
    <3>1. clean => \A n \in DOMAIN readingLists' : n = job'.list \/ Kept(RowsOf(n)', MustPrecede, read)
      BY <1>3, <2>6
    <3> QED BY <1>1, <1>3, <2>5, <2>6, <3>1 DEF ListsAreInOrder, InWork, RowsOf
  <2> QED BY <2>7, <2>8, <2>9, <2>10 DEF ReadingInv
<1>6. CASE SetList # 0
  <2> DEFINE it == SetList
  <2>1. it \in DOMAIN readingLists
    BY <1>1, <1>6, SetListIsListed
  <2>2. /\ job' = [job EXCEPT !.step = "clear", !.list = it, !.todo = RowsOf(it)]
        /\ readingLists' = [readingLists EXCEPT ![it].title = Title] \/ readingLists' = readingLists
    BY <1>6 DEF FindOrCreate
  <2> HIDE DEF it
  <2>3. /\ readingLists' \in Seq(Listing) /\ DOMAIN readingLists' = DOMAIN readingLists
        /\ \A n \in DOMAIN readingLists : readingLists'[n].rows = RowsOf(n)
    <3>1. CASE readingLists' = readingLists
      BY <1>1, <3>1 DEF RowsOf
    <3>2. CASE readingLists' = [readingLists EXCEPT ![it].title = Labels[label]]
      <4>1. readingLists \in Seq(Listing)
        BY <1>1
      <4> DEFINE title == Labels[label]
                 new == [readingLists EXCEPT ![it].title = title]
      <4>2. title \in Range(Labels)
        BY <1>2
      <4> HIDE DEF title
      <4>3. /\ new \in Seq(Listing) /\ DOMAIN new = DOMAIN readingLists
            /\ \A n \in DOMAIN readingLists : new[n].rows = RowsOf(n)
        BY <2>1, <4>1, <4>2, ListingsChange
      <4>4. readingLists' = new
        BY <3>2 DEF title
      <4> HIDE DEF new
      <4> QED BY <4>3, <4>4
    <3> QED BY <2>2, <3>1, <3>2 DEF Title
  <2>4. it \in Nat /\ RowsOf(it) \in Seq(Stories)
    <3>1. DOMAIN readingLists \subseteq Nat
      BY <1>1, LenProperties
    <3> QED BY <1>1, <2>1, <3>1, ListingsChange
  <2>5. /\ job' \in WorkAt /\ job'.kind = "launch" /\ job'.step = "clear" /\ job'.list = it
        /\ job'.plan = job.plan /\ job'.todo = RowsOf(it)
    BY <1>1, <2>2, <2>4 DEF WorkAt
  <2>6. \A n \in DOMAIN readingLists : RowsOf(n)' = RowsOf(n)
    BY <2>3 DEF RowsOf
  <2>7. ReadingTypes' /\ AllOut' = AllOut
    BY <1>1, <2>3, <2>5, JobsOwn DEF ReadingInv
  <2>8. ListsAreOut'
    BY <1>1, <1>4, <2>3, <2>5, <2>6, <2>7 DEF ListsAreOut
  <2>9. JobIsPlaced'
    BY <1>1, <2>1, <2>3, <2>5 DEF JobIsPlaced
  <2>10. ListsAreInOrder'
    <3>1. RowsOf(job.list)' = RowsOf(it)
      BY <2>1, <2>3, <2>5 DEF RowsOf
    <3> QED BY <1>1, <1>3, <2>3, <2>5, <2>6, <3>1 DEF ListsAreInOrder, InWork, RowsOf
  <2> QED BY <2>7, <2>8, <2>9, <2>10 DEF ReadingInv
<1> QED BY <1>5, <1>6

LEMMA HeadAndRest ==
    ASSUME NEW S, NEW s \in Seq(S), s # << >>
    PROVE  /\ Head(s) \in S /\ Tail(s) \in Seq(S) /\ Range(s) = {Head(s)} \cup Range(Tail(s))
           /\ Len(s) = Len(Tail(s)) + 1 /\ Len(Tail(s)) \in Nat
<1> DEFINE t == Tail(s)
<1>1. /\ Head(s) \in S /\ t \in Seq(S) /\ Len(s) = Len(t) + 1 /\ Len(t) \in Nat /\ Head(s) = s[1]
      /\ DOMAIN s = 1..Len(s) /\ DOMAIN t = 1..Len(t) /\ \A n \in 1..Len(t) : t[n] = s[n + 1]
  BY HeadTailProperties, LenProperties
<1> HIDE DEF t
<1>2. \A n \in DOMAIN s : s[n] = s[1] \/ (n - 1 \in DOMAIN t /\ t[n - 1] = s[n])
  <2> SUFFICES ASSUME NEW n \in DOMAIN s, n # 1 PROVE n - 1 \in DOMAIN t /\ t[n - 1] = s[n]
    OBVIOUS
  <2>1. n - 1 \in 1..Len(t) /\ (n - 1) + 1 = n
    BY <1>1
  <2> QED BY <1>1, <2>1
<1>3. 1 \in DOMAIN s /\ \A n \in DOMAIN t : n + 1 \in DOMAIN s
  BY <1>1
<1> QED BY <1>1, <1>2, <1>3 DEF Range, t

LEMMA ClearRowKeepsOrder == ReadingInv /\ ClearRow => ReadingInv'
<1> SUFFICES ASSUME ReadingInv, ClearRow PROVE ReadingInv'
  OBVIOUS
<1> DEFINE it == job.list
           held == RowsOf(it)
<1>1. /\ job.step = "clear" /\ UNCHANGED <<out, read, label>>
      /\ job \in WorkAt /\ readingLists \in Seq(Listing) /\ clean \in BOOLEAN
      /\ job.plan \in Seq(Stories) /\ job.todo \in Seq(Stories) /\ Range(job.plan) \subseteq AllOut
      /\ it \in DOMAIN readingLists /\ it \in Nat
  BY DEF ClearRow, ReadingInv, ReadingTypes, ListsAreOut, JobIsPlaced, WorkAt
<1>2. job.kind = "launch" /\ job.plan # << >>
  BY <1>1 DEF ReadingInv, JobIsPlaced, NoJob, WorkAt
<1>3. clean => /\ \A n \in DOMAIN readingLists : n = it \/ Kept(RowsOf(n), MustPrecede, read)
               /\ Kept(job.plan, MustPrecede, read) /\ Range(held) \subseteq Range(job.todo)
  BY <1>1 DEF ReadingInv, ListsAreInOrder, InWork
<1>4. held \in Seq(Stories) /\ \A n \in DOMAIN readingLists : Range(RowsOf(n)) \subseteq AllOut
  BY <1>1, ListingsChange DEF ReadingInv, ListsAreOut
<1> HIDE DEF held
<1>5. CASE job.todo = << >>
  <2>1. job' = [job EXCEPT !.step = "cover"] /\ UNCHANGED <<readingLists, clean>>
    BY <1>5 DEF ClearRow
  <2>2. job' \in WorkAt /\ job'.kind = "launch" /\ job'.step = "cover" /\ job'.list = it /\ job'.plan = job.plan
    BY <1>1, <1>2, <2>1 DEF WorkAt
  <2>3. clean => held = << >>
    <3>1. Range(job.todo) = {}
      BY <1>5 DEF Range
    <3>2. DOMAIN held = 1..Len(held) /\ Len(held) \in Nat
      BY <1>4, LenProperties
    <3>3. clean => DOMAIN held = {}
      BY <1>3, <3>1 DEF Range
    <3>4. clean => Len(held) = 0
      BY <3>2, <3>3
    <3> QED BY <1>4, <3>4, EmptySeq
  <2>4. ReadingTypes' /\ AllOut' = AllOut
    BY <1>1, <2>1, <2>2, JobsOwn DEF ReadingInv
  <2>5. ListsAreOut'
    BY <1>1, <1>4, <2>1, <2>2, <2>4 DEF ListsAreOut, RowsOf
  <2>6. JobIsPlaced'
    BY <1>1, <1>2, <2>1, <2>2 DEF JobIsPlaced
  <2>7. ListsAreInOrder'
    BY <1>1, <1>3, <2>1, <2>2, <2>3 DEF ListsAreInOrder, InWork, RowsOf, held
  <2> QED BY <2>4, <2>5, <2>6, <2>7 DEF ReadingInv
<1>6. CASE job.todo # << >>
  <2> DEFINE left == Only(held, Range(held) \ {Head(job.todo)})
  <2>1. /\ job' = [job EXCEPT !.todo = Tail(@)]
        /\ \/ readingLists' = [readingLists EXCEPT ![it].rows = left] /\ UNCHANGED clean
           \/ readingLists' = readingLists /\ clean' = FALSE
    BY <1>6 DEF ClearRow, Cleared, RowsOf, held
  <2>2. /\ Tail(job.todo) \in Seq(Stories)
        /\ Range(job.todo) = {Head(job.todo)} \cup Range(Tail(job.todo))
    BY <1>1, <1>6, HeadAndRest
  <2>3. /\ job' \in WorkAt /\ job'.kind = "launch" /\ job'.step = "clear" /\ job'.list = it
        /\ job'.plan = job.plan /\ job'.todo = Tail(job.todo)
    BY <1>1, <1>2, <2>1, <2>2 DEF WorkAt
  <2>4. left \in Seq(Stories) /\ Range(left) = Range(held) \ {Head(job.todo)}
    BY <1>4, OnlyIsAList, OnlyRange
  <2> HIDE DEF left
  <2>5. /\ readingLists' \in Seq(Listing) /\ DOMAIN readingLists' = DOMAIN readingLists
        /\ \A n \in DOMAIN readingLists : n # it => readingLists'[n].rows = RowsOf(n)
        /\ readingLists'[it].rows \in {left, held}
        /\ clean' => clean /\ readingLists'[it].rows = left
    <3>1. CASE readingLists' = [readingLists EXCEPT ![it].rows = left] /\ UNCHANGED clean
      BY <1>1, <2>4, <3>1, ListingsChange
    <3>2. CASE readingLists' = readingLists /\ clean' = FALSE
      BY <1>1, <3>2 DEF RowsOf, held
    <3> QED BY <2>1, <3>1, <3>2
  <2>6. clean' \in BOOLEAN
    BY <1>1, <2>1
  <2>7. ReadingTypes' /\ AllOut' = AllOut
    BY <1>1, <2>3, <2>5, <2>6, JobsOwn DEF ReadingInv
  <2>8. ListsAreOut'
    <3>1. \A n \in DOMAIN readingLists : Range(readingLists'[n].rows) \subseteq AllOut
      <4>1. Range(left) \subseteq AllOut /\ Range(held) \subseteq AllOut
        BY <1>1, <1>4, <2>4 DEF held
      <4> QED BY <1>4, <2>5, <4>1
    <3> QED BY <1>1, <2>3, <2>5, <2>7, <3>1 DEF ListsAreOut, RowsOf
  <2>9. JobIsPlaced'
    BY <1>1, <1>2, <2>3, <2>5 DEF JobIsPlaced
  <2>10. ListsAreInOrder'
    <3>1. clean' => Range(readingLists'[it].rows) \subseteq Range(Tail(job.todo))
      BY <1>3, <2>2, <2>4, <2>5
    <3> QED BY <1>1, <1>3, <2>3, <2>5, <3>1 DEF ListsAreInOrder, InWork, RowsOf
  <2> QED BY <2>7, <2>8, <2>9, <2>10 DEF ReadingInv
<1> QED BY <1>5, <1>6

LEMMA PutCoverKeepsOrder == ReadingInv /\ PutCover => ReadingInv'
<1> SUFFICES ASSUME ReadingInv, PutCover PROVE ReadingInv'
  OBVIOUS
<1> DEFINE it == job.list
<1>1. /\ job.step = "cover" /\ UNCHANGED <<out, read, label, clean>> /\ job' = [job EXCEPT !.step = "add"]
      /\ job \in WorkAt /\ readingLists \in Seq(Listing) /\ clean \in BOOLEAN
      /\ job.plan \in Seq(Stories) /\ Range(job.plan) \subseteq AllOut /\ it \in DOMAIN readingLists
  BY DEF PutCover, ReadingInv, ReadingTypes, ListsAreOut, JobIsPlaced, WorkAt
<1>2. job.kind = "launch" /\ job.plan # << >>
  BY <1>1 DEF ReadingInv, JobIsPlaced, NoJob, WorkAt
<1>3. clean => /\ \A n \in DOMAIN readingLists : n = it \/ Kept(RowsOf(n), MustPrecede, read)
               /\ Kept(job.plan, MustPrecede, read) /\ RowsOf(it) = << >>
  BY <1>1 DEF ReadingInv, ListsAreInOrder, InWork
<1>4. \A n \in DOMAIN readingLists : Range(RowsOf(n)) \subseteq AllOut
  BY DEF ReadingInv, ListsAreOut
<1>5. job' \in WorkAt /\ job'.kind = "launch" /\ job'.step = "add" /\ job'.list = it /\ job'.plan = job.plan
  BY <1>1, <1>2 DEF WorkAt
<1>6. /\ readingLists' \in Seq(Listing) /\ DOMAIN readingLists' = DOMAIN readingLists
      /\ \A n \in DOMAIN readingLists : readingLists'[n].rows = RowsOf(n)
  <2>1. readingLists' = readingLists \/ readingLists' = [readingLists EXCEPT ![it].locked = TRUE]
    BY DEF PutCover
  <2>2. CASE readingLists' = readingLists
    BY <1>1, <2>2 DEF RowsOf
  <2>3. CASE readingLists' = [readingLists EXCEPT ![it].locked = TRUE]
    BY <1>1, <2>3, ListingsChange
  <2> QED BY <2>1, <2>2, <2>3
<1>7. ReadingTypes' /\ AllOut' = AllOut
  BY <1>1, <1>5, <1>6, JobsOwn DEF ReadingInv
<1>8. ListsAreOut'
  BY <1>1, <1>4, <1>5, <1>6, <1>7 DEF ListsAreOut, RowsOf
<1>9. JobIsPlaced'
  BY <1>1, <1>2, <1>5, <1>6 DEF JobIsPlaced
<1>10. ListsAreInOrder'
  <2>1. << >> \o job.plan = job.plan
    BY <1>1, ConcatEmptySeq
  <2> QED BY <1>1, <1>3, <1>5, <1>6, <2>1 DEF ListsAreInOrder, InWork, RowsOf
<1> QED BY <1>7, <1>8, <1>9, <1>10 DEF ReadingInv

\* The next row of a plan is put on its list.
LEMMA RowIsAdded ==
    ASSUME ReadingInv, job.list \in DOMAIN readingLists, job.plan # << >>, job.step \in {"add", "append"},
           NEW relisted, relisted = WithRow(job.list, Head(job.plan))
    PROVE  /\ relisted \in Seq(Listing) /\ DOMAIN relisted = DOMAIN readingLists
           /\ \A n \in DOMAIN readingLists : Range(relisted[n].rows) \subseteq AllOut
           /\ \A n \in DOMAIN readingLists : n # job.list => relisted[n].rows = RowsOf(n)
           /\ clean => Kept(relisted[job.list].rows \o Tail(job.plan), MustPrecede, read)
           /\ relisted[job.list].rows \in Seq(Stories)
           /\ Tail(job.plan) \in Seq(Stories) /\ Range(Tail(job.plan)) \subseteq AllOut
           /\ Len(job.plan) = Len(Tail(job.plan)) + 1 /\ Len(Tail(job.plan)) \in Nat
<1> DEFINE it == job.list
           held == RowsOf(it)
           plan == job.plan
           more == IF Head(plan) \in Range(held) THEN held ELSE Append(held, Head(plan))
<1>1. /\ job \in WorkAt /\ readingLists \in Seq(Listing) /\ plan \in Seq(Stories) /\ Range(plan) \subseteq AllOut
      /\ \A n \in DOMAIN readingLists : Range(RowsOf(n)) \subseteq AllOut
  BY DEF ReadingInv, ReadingTypes, ListsAreOut, WorkAt
<1>2. clean => Kept(held \o plan, MustPrecede, read)
  BY DEF ReadingInv, ListsAreInOrder
<1>3. relisted = [readingLists EXCEPT ![it].rows = more]
  BY DEF WithRow, RowsOf
<1>4. held \in Seq(Stories)
  BY <1>1, ListingsChange
<1>5. /\ Head(plan) \in Stories /\ Tail(plan) \in Seq(Stories) /\ Range(plan) = {Head(plan)} \cup Range(Tail(plan))
      /\ Len(plan) = Len(Tail(plan)) + 1 /\ Len(Tail(plan)) \in Nat
  BY <1>1, HeadAndRest
<1> HIDE DEF held, plan
<1>6. more \in Seq(Stories) /\ Range(more) \subseteq AllOut
  <2>1. Append(held, Head(plan)) \in Seq(Stories) /\ Range(Append(held, Head(plan))) = Range(held) \cup {Head(plan)}
    BY <1>4, <1>5, RangeOfAppend, AppendProperties
  <2>2. Range(held) \subseteq AllOut
    BY <1>1 DEF held
  <2> QED BY <1>1, <1>4, <1>5, <2>1, <2>2
<1>7. clean => Kept(more \o Tail(plan), MustPrecede, read)
  <2>1. plan # << >>
    BY DEF plan
  <2> QED BY <1>1, <1>2, <1>4, <2>1, KeptByRow
<1> HIDE DEF more
<1>8. /\ relisted \in Seq(Listing) /\ DOMAIN relisted = DOMAIN readingLists
      /\ relisted[it].rows = more /\ \A n \in DOMAIN readingLists : n # it => relisted[n].rows = RowsOf(n)
  <2>1. it \in DOMAIN readingLists
    OBVIOUS
  <2> HIDE DEF it
  <2>2. LET new == [readingLists EXCEPT ![it].rows = more] IN
        /\ new \in Seq(Listing) /\ DOMAIN new = DOMAIN readingLists
        /\ new[it].rows = more /\ \A k \in DOMAIN readingLists : k # it => new[k].rows = RowsOf(k)
    BY <1>1, <1>6, <2>1, ListingsChange
  <2> QED BY <1>3, <2>2
<1>9. \A n \in DOMAIN readingLists : Range(relisted[n].rows) \subseteq AllOut
  BY <1>1, <1>6, <1>8
<1> QED BY <1>1, <1>5, <1>6, <1>7, <1>8, <1>9 DEF plan

LEMMA NothingBehind ==
    ASSUME NEW S, NEW s \in Seq(S), NEW t \in Seq(S), Len(t) = 0
    PROVE  s \o t = s
<1>1. t = << >>
  BY EmptySeq
<1> QED BY <1>1, ConcatEmptySeq

LEMMA NoJobIsPlaced ==
    /\ NoJob \in WorkAt /\ NoJob.kind = "none" /\ NoJob.step = "none" /\ Range(NoJob.plan) = {}
<1>1. << >> \in Seq(Stories)
  BY EmptySeq
<1> QED BY <1>1 DEF NoJob, WorkAt, Range

LEMMA AddRowKeepsOrder == ReadingInv /\ AddRow => ReadingInv'
<1> SUFFICES ASSUME ReadingInv, AddRow PROVE ReadingInv'
  OBVIOUS
<1> DEFINE it == job.list
<1>1. /\ job.kind = "launch" /\ job.step = "add" /\ UNCHANGED <<out, read, label>>
      /\ job \in WorkAt /\ readingLists \in Seq(Listing) /\ clean \in BOOLEAN /\ job.plan # << >>
      /\ it \in DOMAIN readingLists
  BY DEF AddRow, ReadingInv, ReadingTypes, JobIsPlaced
<1>2. clean => \A n \in DOMAIN readingLists : n = it \/ Kept(RowsOf(n), MustPrecede, read)
  BY <1>1 DEF ReadingInv, ListsAreInOrder, InWork
<1>3. CASE /\ readingLists' = WithRow(it, Head(job.plan)) /\ UNCHANGED clean
           /\ job' = IF Len(job.plan) = 1 THEN NoJob ELSE [job EXCEPT !.plan = Tail(@)]
  <2>1. /\ readingLists' \in Seq(Listing) /\ DOMAIN readingLists' = DOMAIN readingLists
        /\ \A n \in DOMAIN readingLists : Range(readingLists'[n].rows) \subseteq AllOut
        /\ \A n \in DOMAIN readingLists : n # it => readingLists'[n].rows = RowsOf(n)
        /\ clean => Kept(readingLists'[it].rows \o Tail(job.plan), MustPrecede, read)
        /\ readingLists'[it].rows \in Seq(Stories)
        /\ Tail(job.plan) \in Seq(Stories) /\ Range(Tail(job.plan)) \subseteq AllOut
        /\ Len(job.plan) = Len(Tail(job.plan)) + 1 /\ Len(Tail(job.plan)) \in Nat
    BY <1>1, <1>3, RowIsAdded
  <2>2. CASE Len(job.plan) = 1
    <3>1. job' = NoJob
      BY <1>3, <2>2
    <3>2. readingLists'[it].rows \o Tail(job.plan) = readingLists'[it].rows
      <4>1. Len(Tail(job.plan)) = 0
        BY <2>1, <2>2
      <4> QED BY <2>1, <4>1, NothingBehind
    <3>3. ReadingTypes' /\ AllOut' = AllOut
      BY <1>1, <1>3, <2>1, <3>1, NoJobIsPlaced, JobsOwn DEF ReadingInv
    <3>4. ListsAreOut'
      BY <2>1, <3>1, <3>3, NoJobIsPlaced DEF ListsAreOut, RowsOf
    <3>5. JobIsPlaced'
      BY <3>1, NoJobIsPlaced DEF JobIsPlaced
    <3>6. ListsAreInOrder'
      <4>1. clean => \A n \in DOMAIN readingLists : Kept(readingLists'[n].rows, MustPrecede, read)
        BY <1>2, <2>1, <3>2
      <4> QED BY <1>1, <1>3, <2>1, <3>1, <4>1, NoJobIsPlaced DEF ListsAreInOrder, RowsOf
    <3> QED BY <3>3, <3>4, <3>5, <3>6 DEF ReadingInv
  <2>3. CASE Len(job.plan) # 1
    <3>1. job' = [job EXCEPT !.plan = Tail(job.plan)]
      BY <1>3, <2>3
    <3>2. /\ job' \in WorkAt /\ job'.kind = "launch" /\ job'.step = "add" /\ job'.list = it
          /\ job'.plan = Tail(job.plan)
      BY <1>1, <2>1, <3>1 DEF WorkAt
    <3>3. Tail(job.plan) # << >>
      <4>1. Len(Tail(job.plan)) # 0
        BY <2>1, <2>3
      <4> QED BY <4>1, EmptySeq
    <3>4. ReadingTypes' /\ AllOut' = AllOut
      BY <1>1, <1>3, <2>1, <3>2, JobsOwn DEF ReadingInv
    <3>5. ListsAreOut'
      BY <2>1, <3>2, <3>4 DEF ListsAreOut, RowsOf
    <3>6. JobIsPlaced'
      BY <1>1, <2>1, <3>2, <3>3 DEF JobIsPlaced
    <3>7. ListsAreInOrder'
      BY <1>1, <1>2, <1>3, <2>1, <3>2 DEF ListsAreInOrder, InWork, RowsOf
    <3> QED BY <3>4, <3>5, <3>6, <3>7 DEF ReadingInv
  <2> QED BY <2>2, <2>3
<1>4. CASE job' = NoJob /\ clean' = FALSE /\ UNCHANGED readingLists
  <2>1. ReadingTypes' /\ AllOut' = AllOut
    BY <1>1, <1>4, NoJobIsPlaced, JobsOwn DEF ReadingInv
  <2>2. ListsAreOut'
    BY <1>4, <2>1, NoJobIsPlaced DEF ReadingInv, ListsAreOut, RowsOf
  <2> QED BY <1>4, <2>1, <2>2, NoJobIsPlaced DEF ReadingInv, JobIsPlaced, ListsAreInOrder
<1> QED BY <1>3, <1>4 DEF AddRow

LEMMA TickKeepsOrder == ReadingInv /\ Tick => ReadingInv'
<1> SUFFICES ASSUME ReadingInv, Tick PROVE ReadingInv'
  OBVIOUS
<1> DEFINE it == SetList
<1>1. /\ job = NoJob /\ UNCHANGED <<out, read, readingLists, label, clean>>
      /\ readingLists \in Seq(Listing) /\ clean \in BOOLEAN
      /\ it # 0 /\ job' = [NoJob EXCEPT !.kind = "tick", !.step = "build", !.list = it, !.todo = RowsOf(it),
                                        !.added = Window - Len(Unread(RowsOf(it)))]
  BY DEF Tick, AtRest, ReadingInv, ReadingTypes
<1>2. it \in DOMAIN readingLists
  BY <1>1, SetListIsListed
<1> HIDE DEF it
<1>3. it \in Nat /\ RowsOf(it) \in Seq(Stories)
  <2>1. DOMAIN readingLists \subseteq Nat
    BY <1>1, LenProperties
  <2> QED BY <1>1, <1>2, <2>1, ListingsChange
<1>4. Window - Len(Unread(RowsOf(it))) \in Int
  <2>1. Unread(RowsOf(it)) \in Seq(Stories)
    BY <1>3, OnlyIsAList DEF Unread
  <2> QED BY <2>1, LenProperties, ReadingAssumption
<1>5. /\ job' \in WorkAt /\ job'.kind = "tick" /\ job'.step = "build" /\ job'.list = it
      /\ job'.plan = << >> /\ job'.todo = RowsOf(it)
  <2>1. << >> \in Seq(Stories)
    BY EmptySeq
  <2> HIDE DEF RowsOf
  <2>2. job' = [kind |-> "tick", step |-> "build", list |-> it, todo |-> RowsOf(it), plan |-> << >>,
                added |-> Window - Len(Unread(RowsOf(it)))]
    BY <1>1 DEF NoJob
  <2> QED BY <1>3, <1>4, <2>1, <2>2 DEF WorkAt
<1>6. ReadingTypes' /\ AllOut' = AllOut
  BY <1>1, <1>5, JobsOwn DEF ReadingInv
<1>7. ListsAreOut'
  <2>1. Range(<< >>) = {}
    BY DEF Range
  <2> QED BY <1>1, <1>5, <1>6, <2>1 DEF ReadingInv, ListsAreOut, RowsOf
<1>8. JobIsPlaced'
  BY <1>1, <1>2, <1>5 DEF JobIsPlaced, RowsOf
<1>9. ListsAreInOrder'
  <2>1. clean => \A n \in DOMAIN readingLists : Kept(RowsOf(n), MustPrecede, read)
    BY <1>1, NoJobIsPlaced DEF ReadingInv, ListsAreInOrder, InWork
  <2> QED BY <1>1, <1>5, <2>1 DEF ListsAreInOrder, RowsOf
<1> QED BY <1>6, <1>7, <1>8, <1>9 DEF ReadingInv

LEMMA BuildKeepsOrder == ReadingInv /\ Build => ReadingInv'
<1> SUFFICES ASSUME ReadingInv, Build PROVE ReadingInv'
  OBVIOUS
<1> DEFINE it == job.list
           held == RowsOf(it)
<1>1. /\ job.step = "build" /\ UNCHANGED <<out, read, readingLists, label, clean>>
      /\ job \in WorkAt /\ readingLists \in Seq(Listing) /\ clean \in BOOLEAN
      /\ it \in DOMAIN readingLists /\ job.todo = held /\ job.added \in Int
  BY DEF Build, ReadingInv, ReadingTypes, JobIsPlaced, WorkAt
<1>2. job.kind = "tick"
  BY <1>1 DEF ReadingInv, JobIsPlaced, NoJob, WorkAt
<1>3. held \in Seq(Stories)
  BY <1>1, ListingsChange
<1>4. clean => \A n \in DOMAIN readingLists : Kept(RowsOf(n), MustPrecede, read)
  BY <1>1 DEF ReadingInv, ListsAreInOrder, InWork
<1>5. clean => Kept(held, MustPrecede, read)
  BY <1>1, <1>4
<1> HIDE DEF held
<1>6. PICK lineup \in Lineups :
         LET fresh == Only(lineup, Range(lineup) \ Range(held))
             want  == IF job.added < Len(fresh) THEN job.added ELSE Len(fresh)
         IN  job' = IF want <= 0 THEN NoJob
                    ELSE [job EXCEPT !.step = "append", !.plan = SubSeq(fresh, 1, want), !.added = 0]
  BY <1>1 DEF Build
<1>7. /\ lineup \in Seq(Stories) /\ Backed(lineup, MustPrecede, Stories \ read)
      /\ Range(lineup) \subseteq AllOut \ read
  BY LineupIsBacked DEF ReadingInv, ReadingTypes
<1> DEFINE fresh == Only(lineup, Range(lineup) \ Range(held))
           want  == IF job.added < Len(fresh) THEN job.added ELSE Len(fresh)
           plan  == SubSeq(fresh, 1, want)
<1>8. fresh \in Seq(Stories) /\ Range(fresh) \subseteq AllOut /\ Len(fresh) \in Nat
  BY <1>7, OnlyIsAList, OnlyRange, LenProperties
<1>9. CASE want <= 0
  <2>1. job' = NoJob
    BY <1>6, <1>9
  <2>2. ReadingTypes' /\ AllOut' = AllOut
    BY <1>1, <2>1, NoJobIsPlaced, JobsOwn DEF ReadingInv
  <2>3. ListsAreOut'
    BY <1>1, <2>1, <2>2, NoJobIsPlaced DEF ReadingInv, ListsAreOut, RowsOf
  <2>4. ListsAreInOrder'
    BY <1>1, <1>4, <2>1, NoJobIsPlaced DEF ListsAreInOrder, RowsOf
  <2> QED BY <2>1, <2>2, <2>3, <2>4, NoJobIsPlaced DEF ReadingInv, JobIsPlaced
<1>10. CASE ~(want <= 0)
  <2>1. want \in Nat /\ want <= Len(fresh) /\ want # 0
    <3> HIDE DEF fresh
    <3> QED BY <1>1, <1>8, <1>10
  <2>2. job' = [job EXCEPT !.step = "append", !.plan = plan, !.added = 0]
    BY <1>6, <1>10
  <2>3. clean => Kept(held \o plan, MustPrecede, read)
    <3>1. Range(lineup) \cap read = {}
      BY <1>7
    <3> HIDE DEF want
    <3> QED BY <1>3, <1>5, <1>7, <2>1, <3>1, KeptByTick
  <2> HIDE DEF fresh, want
  <2>4. /\ plan \in Seq(Stories) /\ Range(plan) \subseteq Range(fresh) /\ Len(plan) = want
    BY <1>8, <2>1, StartHolds, SubSeqProperties
  <2> HIDE DEF plan
  <2>5. plan # << >>
    BY <2>1, <2>4, EmptySeq
  <2>6. /\ job' \in WorkAt /\ job'.kind = "tick" /\ job'.step = "append" /\ job'.list = it /\ job'.plan = plan
    <3> DEFINE none == 0
    <3>1. none \in Int
      OBVIOUS
    <3>2. job' = [job EXCEPT !.step = "append", !.plan = plan, !.added = none]
      BY <2>2
    <3> HIDE DEF none
    <3> QED BY <1>1, <1>2, <2>4, <3>1, <3>2 DEF WorkAt
  <2>7. ReadingTypes' /\ AllOut' = AllOut
    BY <1>1, <2>6, JobsOwn DEF ReadingInv
  <2>8. ListsAreOut'
    BY <1>1, <1>8, <2>4, <2>6, <2>7 DEF ReadingInv, ListsAreOut, RowsOf
  <2>9. JobIsPlaced'
    BY <1>1, <2>5, <2>6 DEF JobIsPlaced
  <2>10. ListsAreInOrder'
    BY <1>1, <1>4, <2>3, <2>6 DEF ListsAreInOrder, InWork, RowsOf, held
  <2> QED BY <2>7, <2>8, <2>9, <2>10 DEF ReadingInv
<1> QED BY <1>9, <1>10

LEMMA AppendRowKeepsOrder == ReadingInv /\ AppendRow => ReadingInv'
<1> SUFFICES ASSUME ReadingInv, AppendRow PROVE ReadingInv'
  OBVIOUS
<1> DEFINE it == job.list
           rest == Tail(job.plan)
           next(n) == IF Len(job.plan) > 1 THEN [job EXCEPT !.plan = rest, !.added = n]
                      ELSE IF n = 0 THEN NoJob ELSE [job EXCEPT !.step = "trim", !.added = n]
<1>1. /\ job.step = "append" /\ UNCHANGED <<out, read, label>>
      /\ job \in WorkAt /\ readingLists \in Seq(Listing) /\ clean \in BOOLEAN
      /\ it \in DOMAIN readingLists /\ job.added \in Int /\ job.plan # << >>
      /\ job.plan \in Seq(Stories) /\ Range(job.plan) \subseteq AllOut
      /\ \A n \in DOMAIN readingLists : Range(RowsOf(n)) \subseteq AllOut
  BY DEF AppendRow, ReadingInv, ReadingTypes, JobIsPlaced, WorkAt, ListsAreOut
<1>2. job.kind = "tick"
  BY <1>1 DEF ReadingInv, JobIsPlaced, NoJob, WorkAt
<1>3. clean => \A n \in DOMAIN readingLists : n = it \/ Kept(RowsOf(n), MustPrecede, read)
  BY <1>1 DEF ReadingInv, ListsAreInOrder, InWork
<1>4. /\ rest \in Seq(Stories) /\ Range(rest) \subseteq AllOut
      /\ Len(job.plan) = Len(rest) + 1 /\ Len(rest) \in Nat
  BY <1>1, HeadAndRest
<1>5. \/ readingLists' = WithRow(it, Head(job.plan)) /\ job' = next(job.added + 1) /\ UNCHANGED clean
      \/ readingLists' = readingLists /\ job' = next(job.added) /\ clean' = FALSE
  BY DEF AppendRow
<1>6. PICK n \in Int : job' = next(n)
  <2>1. job.added + 1 \in Int
    BY <1>1
  <2> HIDE DEF next
  <2> QED BY <1>1, <1>5, <2>1
<1>7. /\ job' \in WorkAt
      /\ \/ job' = NoJob /\ Len(rest) = 0
         \/ /\ job'.kind = "tick" /\ job'.step = "append" /\ job'.list = it /\ job'.plan = rest /\ Len(rest) # 0
         \/ /\ job'.kind = "tick" /\ job'.step = "trim" /\ job'.list = it /\ job'.plan = job.plan /\ Len(rest) = 0
  <2> HIDE DEF rest
  <2>1. CASE Len(job.plan) > 1
    <3>1. job' = [job EXCEPT !.plan = rest, !.added = n] /\ Len(rest) # 0
      BY <1>4, <1>6, <2>1
    <3> QED BY <1>1, <1>2, <1>4, <3>1 DEF WorkAt
  <2>2. CASE ~(Len(job.plan) > 1) /\ n = 0
    <3>1. job' = NoJob /\ Len(rest) = 0
      BY <1>4, <1>6, <2>2
    <3> QED BY <3>1, NoJobIsPlaced
  <2>3. CASE ~(Len(job.plan) > 1) /\ n # 0
    <3>1. job' = [job EXCEPT !.step = "trim", !.added = n] /\ Len(rest) = 0
      BY <1>4, <1>6, <2>3
    <3> QED BY <1>1, <1>2, <3>1 DEF WorkAt
  <2> QED BY <2>1, <2>2, <2>3
<1>8. /\ readingLists' \in Seq(Listing) /\ DOMAIN readingLists' = DOMAIN readingLists /\ clean' \in BOOLEAN
      /\ \A k \in DOMAIN readingLists : Range(readingLists'[k].rows) \subseteq AllOut
      /\ clean' => /\ \A k \in DOMAIN readingLists : k # it => readingLists'[k].rows = RowsOf(k)
                   /\ Kept(readingLists'[it].rows \o rest, MustPrecede, read) /\ clean
                   /\ readingLists'[it].rows \in Seq(Stories)
  <2>1. CASE readingLists' = WithRow(it, Head(job.plan)) /\ UNCHANGED clean
    BY <1>1, <2>1, RowIsAdded
  <2>2. CASE readingLists' = readingLists /\ clean' = FALSE
    BY <1>1, <2>2 DEF RowsOf
  <2> QED BY <1>5, <2>1, <2>2
<1> HIDE DEF next, rest
<1>9. ReadingTypes' /\ AllOut' = AllOut
  BY <1>1, <1>7, <1>8, JobsOwn DEF ReadingInv
<1>10. ListsAreOut'
  BY <1>1, <1>4, <1>7, <1>8, <1>9, NoJobIsPlaced DEF ListsAreOut, RowsOf
<1>11. JobIsPlaced'
  <2>1. Len(rest) # 0 => rest # << >>
    BY EmptySeq
  <2> QED BY <1>1, <1>7, <1>8, <2>1, NoJobIsPlaced DEF JobIsPlaced
<1>12. ListsAreInOrder'
  <2>1. clean' /\ Len(rest) = 0 => \A k \in DOMAIN readingLists : Kept(readingLists'[k].rows, MustPrecede, read)
    <3>1. clean' /\ Len(rest) = 0 => readingLists'[it].rows \o rest = readingLists'[it].rows
      BY <1>4, <1>8, NothingBehind
    <3> QED BY <1>3, <1>8, <3>1
  <2>2. CASE Len(rest) = 0
    BY <1>1, <1>7, <1>8, <2>1, <2>2, NoJobIsPlaced DEF ListsAreInOrder, RowsOf
  <2>3. CASE Len(rest) # 0
    BY <1>1, <1>3, <1>7, <1>8, <2>3 DEF ListsAreInOrder, InWork, RowsOf
  <2> QED BY <2>2, <2>3
<1> QED BY <1>9, <1>10, <1>11, <1>12 DEF ReadingInv

LEMMA TrimKeepsOrder == ReadingInv /\ Trim => ReadingInv'
<1> SUFFICES ASSUME ReadingInv, Trim PROVE ReadingInv'
  OBVIOUS
<1> DEFINE it == job.list
           held == RowsOf(it)
           left == Only(held, Range(held) \ read)
<1>1. /\ job.step = "trim" /\ job' = NoJob /\ UNCHANGED <<out, read, label, clean>>
      /\ readingLists \in Seq(Listing) /\ clean \in BOOLEAN /\ it \in DOMAIN readingLists
      /\ \A n \in DOMAIN readingLists : Range(RowsOf(n)) \subseteq AllOut
  BY DEF Trim, ReadingInv, ReadingTypes, JobIsPlaced, ListsAreOut
<1>2. clean => \A n \in DOMAIN readingLists : Kept(RowsOf(n), MustPrecede, read)
  BY <1>1 DEF ReadingInv, ListsAreInOrder, InWork
<1>3. held \in Seq(Stories)
  BY <1>1, ListingsChange
<1>4. readingLists' = [readingLists EXCEPT ![it].rows = left] \/ readingLists' = readingLists
  BY DEF Trim, Unread, RowsOf
<1>5. clean => Kept(held, MustPrecede, read)
  BY <1>1, <1>2
<1>6. Range(held) \subseteq AllOut
  BY <1>1
<1> HIDE DEF held
<1>7. left \in Seq(Stories) /\ Range(left) \subseteq AllOut /\ (clean => Kept(left, MustPrecede, read))
  BY <1>3, <1>5, <1>6, OnlyIsAList, OnlyRange, KeptUnread
<1> HIDE DEF left
<1>8. /\ readingLists' \in Seq(Listing) /\ DOMAIN readingLists' = DOMAIN readingLists
      /\ \A n \in DOMAIN readingLists : /\ Range(readingLists'[n].rows) \subseteq AllOut
                                        /\ clean => Kept(readingLists'[n].rows, MustPrecede, read)
  <2>1. CASE readingLists' = readingLists
    BY <1>1, <1>2, <2>1 DEF RowsOf
  <2>2. CASE readingLists' = [readingLists EXCEPT ![it].rows = left]
    <3>1. /\ readingLists' \in Seq(Listing) /\ DOMAIN readingLists' = DOMAIN readingLists
          /\ readingLists'[it].rows = left
          /\ \A k \in DOMAIN readingLists : k # it => readingLists'[k].rows = RowsOf(k)
      BY <1>1, <1>7, <2>2, ListingsChange
    <3> QED BY <1>1, <1>2, <1>7, <3>1
  <2> QED BY <1>4, <2>1, <2>2
<1>9. ReadingTypes' /\ AllOut' = AllOut
  BY <1>1, <1>8, NoJobIsPlaced, JobsOwn DEF ReadingInv
<1>10. ListsAreOut'
  BY <1>1, <1>8, <1>9, NoJobIsPlaced DEF ListsAreOut, RowsOf
<1> QED BY <1>1, <1>8, <1>9, <1>10, NoJobIsPlaced DEF ReadingInv, JobIsPlaced, ListsAreInOrder, RowsOf

\* The reader reads on.
LEMMA ReadChapterKeepsOrder ==
    ASSUME ReadingInv, NEW s \in SeriesSet, NEW c, ReadChapter(s, c)
    PROVE  ReadingInv'
<1>1. /\ UNCHANGED <<out, readingLists, label, job, clean>> /\ read' = read \cup {c} /\ c \in Published(s)
      /\ readingLists \in Seq(Listing)
  BY DEF ReadChapter, ReadingInv, ReadingTypes
<1>2. AllOut' = AllOut
  BY <1>1 DEF AllOut, Published
<1>3. ReadingTypes'
  <2>1. c \in Stories
    BY <1>1, OutIsStories DEF ReadingInv, ReadingTypes, AllOut
  <2>2. \A t \in SeriesSet : OutOf(t)'
    BY <1>1 DEF ReadingInv, ReadingTypes, OutOf
  <2> QED BY <1>1, <2>1, <2>2 DEF ReadingInv, ReadingTypes
<1>4. \A n : RowsOf(n)' = RowsOf(n)
  BY <1>1 DEF RowsOf
<1>5. ListsAreOut' /\ JobIsPlaced'
  BY <1>1, <1>2, <1>4 DEF ReadingInv, ListsAreOut, JobIsPlaced
<1>6. \A held : Kept(held, MustPrecede, read) => Kept(held, MustPrecede, read')
  BY <1>1, KeptLonger
<1>7. ListsAreInOrder'
  <2> SUFFICES ASSUME clean PROVE ListsAreInOrder'
    BY <1>1 DEF ListsAreInOrder
  <2>1. /\ \A n \in DOMAIN readingLists : InWork(n) \/ Kept(RowsOf(n), MustPrecede, read)
        /\ job.step \in {"find", "clear", "cover"} => Kept(job.plan, MustPrecede, read)
        /\ job.step = "clear" => Range(RowsOf(job.list)) \subseteq Range(job.todo)
        /\ job.step = "cover" => RowsOf(job.list) = << >>
        /\ job.step \in {"add", "append"} => Kept(RowsOf(job.list) \o job.plan, MustPrecede, read)
    BY DEF ReadingInv, ListsAreInOrder
  <2>2. \A n : InWork(n)' = InWork(n)
    BY <1>1 DEF InWork
  <2>3. /\ \A n \in DOMAIN readingLists : InWork(n)' \/ Kept(RowsOf(n), MustPrecede, read')
        /\ job.step \in {"find", "clear", "cover"} => Kept(job.plan, MustPrecede, read')
        /\ job.step \in {"add", "append"} => Kept(RowsOf(job.list) \o job.plan, MustPrecede, read')
    BY <1>6, <2>1, <2>2
  <2> QED BY <1>1, <2>1, <2>3 DEF ListsAreInOrder, InWork, RowsOf
<1> QED BY <1>3, <1>5, <1>7 DEF ReadingInv

\* A chapter comes out.
LEMMA PublishKeepsOrder ==
    ASSUME ReadingInv, NEW s \in SeriesSet, Publish(s)
    PROVE  ReadingInv'
<1>1. /\ UNCHANGED <<read, readingLists, label, job, clean>> /\ out[s] < Len(Reading[s])
      /\ out' = [out EXCEPT ![s] = @ + 1]
      /\ out \in [SeriesSet -> Nat] /\ \A t \in SeriesSet : OutOf(t)
  BY DEF Publish, ReadingInv, ReadingTypes
<1>2. \A t \in SeriesSet : out'[t] = IF t = s THEN out[t] + 1 ELSE out[t]
  BY <1>1
<1>3. \A t \in SeriesSet : OutOf(t)' /\ Published(t) \subseteq Published(t)'
  <2> SUFFICES ASSUME NEW t \in SeriesSet PROVE OutOf(t)' /\ Published(t) \subseteq Published(t)'
    OBVIOUS
  <2>1. Len(Reading[t]) \in Nat /\ out[t] \in 0..Len(Reading[t])
    BY <1>1, ReadingIsListed DEF OutOf
  <2>2. out'[t] \in 0..Len(Reading[t]) /\ out[t] <= out'[t]
    BY <1>1, <1>2, <2>1
  <2>3. 1..out[t] \subseteq 1..out'[t]
    BY <2>1, <2>2
  <2> QED BY <2>2, <2>3 DEF OutOf, Published
<1>4. AllOut \subseteq AllOut'
  BY <1>3 DEF AllOut
<1>5. ReadingTypes'
  <2>1. out' \in [SeriesSet -> Nat]
    BY <1>1
  <2> QED BY <1>1, <1>3, <2>1 DEF ReadingInv, ReadingTypes
<1>6. ListsAreOut'
  BY <1>1, <1>4 DEF ReadingInv, ListsAreOut, RowsOf
<1>7. JobIsPlaced' /\ ListsAreInOrder'
  BY <1>1 DEF ReadingInv, JobIsPlaced, ListsAreInOrder, InWork, RowsOf
<1> QED BY <1>5, <1>6, <1>7 DEF ReadingInv

\* The owner gives the set another name.
LEMMA RenameKeepsOrder == ReadingInv /\ Rename => ReadingInv'
<1> SUFFICES ASSUME ReadingInv, Rename PROVE ReadingInv'
  OBVIOUS
<1>1. UNCHANGED <<out, read, readingLists, job, clean>> /\ label < Len(Labels) /\ label' = label + 1
  BY DEF Rename
<1>2. label' \in DOMAIN Labels
  <2>1. Len(Labels) \in Nat /\ DOMAIN Labels = 1..Len(Labels) /\ label \in DOMAIN Labels
    BY ReadingAssumption, LenProperties DEF ReadingInv, ReadingTypes
  <2> QED BY <1>1, <2>1
<1>3. AllOut' = AllOut
  BY <1>1 DEF AllOut, Published
<1>4. ReadingTypes'
  BY <1>1, <1>2 DEF ReadingInv, ReadingTypes, OutOf
<1>5. ListsAreOut' /\ JobIsPlaced' /\ ListsAreInOrder'
  BY <1>1, <1>3 DEF ReadingInv, ListsAreOut, JobIsPlaced, ListsAreInOrder, InWork, RowsOf
<1> QED BY <1>4, <1>5 DEF ReadingInv

\* Nothing changes.
LEMMA ReadingRests == ReadingInv /\ UNCHANGED readingVars => ReadingInv'
<1> SUFFICES ASSUME ReadingInv, UNCHANGED readingVars PROVE ReadingInv'
  OBVIOUS
<1>1. UNCHANGED <<out, read, readingLists, label, job, clean>>
  BY DEF readingVars
<1>2. AllOut' = AllOut
  BY <1>1 DEF AllOut, Published
<1> QED BY <1>1, <1>2 DEF ReadingInv, ReadingTypes, OutOf, ListsAreOut, JobIsPlaced, ListsAreInOrder, InWork, RowsOf

LEMMA ReadingKeepsOn == ReadingInv /\ [ReadingNext]_readingVars => ReadingInv'
<1> SUFFICES ASSUME ReadingInv, ReadingNext PROVE ReadingInv'
  BY ReadingRests
<1>1. CASE Launch
  BY <1>1, LaunchKeepsOrder
<1>2. CASE FindOrCreate
  BY <1>2, FindOrCreateKeepsOrder
<1>3. CASE ClearRow
  BY <1>3, ClearRowKeepsOrder
<1>4. CASE PutCover
  BY <1>4, PutCoverKeepsOrder
<1>5. CASE AddRow
  BY <1>5, AddRowKeepsOrder
<1>6. CASE Tick
  BY <1>6, TickKeepsOrder
<1>7. CASE Build
  BY <1>7, BuildKeepsOrder
<1>8. CASE AppendRow
  BY <1>8, AppendRowKeepsOrder
<1>9. CASE Trim
  BY <1>9, TrimKeepsOrder
<1>10. CASE \E s \in SeriesSet : Publish(s) \/ (\E c \in Range(Reading[s]) : ReadChapter(s, c))
  <2>1. PICK s \in SeriesSet : Publish(s) \/ (\E c \in Range(Reading[s]) : ReadChapter(s, c))
    BY <1>10
  <2> QED BY <2>1, PublishKeepsOrder, ReadChapterKeepsOrder
<1>11. CASE Rename
  BY <1>11, RenameKeepsOrder
<1> QED BY <1>1, <1>2, <1>3, <1>4, <1>5, <1>6, <1>7, <1>8, <1>9, <1>10, <1>11 DEF ReadingNext

\* Between jobs every list is in order, and what is in order skips nothing.
LEMMA OrderSkipsNothing == ReadingInv => ListNeverSkips
<1> SUFFICES ASSUME ReadingInv, AtRest, clean,
                    NEW n \in DOMAIN readingLists, NEW s \in SeriesSet, NEW k \in DOMAIN Reading[s],
                    Reading[s][k] \in Range(RowsOf(n)),
                    NEW d \in Range(SubSeq(Reading[s], 1, k - 1)),
                    d \in Range(RowsOf(n)) \/ ~IsRead(d),
                    NEW e \in Range(OrderedAll(s)), AtOrAfterFloor(s, e), d = e.id
             PROVE  \E i, j \in DOMAIN RowsOf(n) : i < j /\ RowsOf(n)[i] = d /\ RowsOf(n)[j] = Reading[s][k]
  BY DEF ListNeverSkips
<1>1. /\ OutOf(s) /\ out[s] \in Nat /\ Len(Reading[s]) \in Nat /\ DOMAIN Reading[s] = 1..Len(Reading[s])
      /\ out[s] <= Len(Reading[s])
  BY ReadingIsListed DEF ReadingInv, ReadingTypes, OutOf
<1>2. k \in 1..out[s]
  <2>1. Reading[s][k] \in AllOut
    BY DEF ReadingInv, ListsAreOut
  <2>2. PICK t \in SeriesSet : \E m \in 1..out[t] : Reading[s][k] = Reading[t][m]
    BY <2>1 DEF AllOut, Published
  <2>3. PICK m \in 1..out[t] : Reading[s][k] = Reading[t][m]
    BY <2>2
  <2>4. m \in DOMAIN Reading[t]
    BY ReadingIsListed DEF ReadingInv, ReadingTypes, OutOf
  <2>5. Reading[s][k] \in Range(Reading[s]) /\ Reading[t][m] \in Range(Reading[t])
    BY <2>4 DEF Range
  <2>6. s = t
    BY <2>3, <2>5, ReadingAssumption
  <2> QED BY <2>3, <2>4, <2>6, ReadingIsListed
<1>3. PICK p \in 1..k - 1 : d = Reading[s][p]
  <2>1. Reading[s] \in Seq(Range(Reading[s])) /\ k - 1 \in Nat /\ k - 1 <= Len(Reading[s])
    BY <1>1, ReadingIsListed
  <2> DEFINE before == SubSeq(Reading[s], 1, k - 1)
  <2>2. DOMAIN before = 1..k - 1 /\ \A i \in 1..k - 1 : before[i] = Reading[s][i]
    BY <2>1, SubSeqProperties
  <2>3. \E i \in DOMAIN before : before[i] = d
    BY DEF Range
  <2> HIDE DEF before
  <2> QED BY <2>2, <2>3
<1>4. p \in DOMAIN Reading[s] /\ p \in 1..out[s]
  <2>1. p \in 1..k - 1 /\ out[s] \in Nat /\ out[s] <= Len(Reading[s]) /\ Len(Reading[s]) \in Nat
    BY <1>1
  <2>2. p \in 1..out[s]
    BY ONLY <1>2, <2>1
  <2>3. p \in 1..Len(Reading[s])
    BY ONLY <2>1, <2>2
  <2> QED BY <1>1, <2>2, <2>3
<1>5. e = CopyAt(s, p)
  <2>1. OrderedAll(s) = [i \in 1..out[s] |-> CopyAt(s, i)]
    BY <1>1, OrderedAllIs
  <2>2. PICK q \in 1..out[s] : e = CopyAt(s, q)
    BY <2>1 DEF Range
  <2>3. q \in DOMAIN Reading[s]
    BY <1>1
  <2>4. q = p
    BY <1>3, <1>4, <2>2, <2>3, CopiesAreThere, ReadingIsListed
  <2> QED BY <2>2, <2>4
<1>6. IsToRead(s, CopyAt(s, p))
  BY <1>1, <1>2, <1>5, FloorIsSettled
<1>7. d \in Stories /\ Reading[s][k] \in Stories
  BY <1>3, <1>4, ReadingIsListed DEF Range
<1>8. <<d, Reading[s][k]>> \in MustPrecede
  BY <1>3, <1>6, <1>7 DEF MustPrecede
<1>9. Kept(RowsOf(n), MustPrecede, read)
  BY NoJobIsPlaced DEF ReadingInv, ListsAreInOrder, InWork, AtRest
<1>10. PICK j \in DOMAIN RowsOf(n) : RowsOf(n)[j] = Reading[s][k]
  BY DEF Range
<1>11. d \in Range(RowsOf(n)) \cup (Stories \ read)
  BY <1>7 DEF IsRead
<1>12. \E i \in DOMAIN RowsOf(n) : i < j /\ RowsOf(n)[i] = d
  BY <1>8, <1>9, <1>10, <1>11 DEF Kept, Backed
<1> QED BY <1>10, <1>12

\* For any queue of series, however their chapters are numbered and bound in volumes, whatever
\* comes out, is read, is renamed or is refused meanwhile: between jobs, and while no request
\* was refused, reading down the set's list skips nothing (kavita.ts materialize, topupList).
THEOREM ListsStayInOrder == ReadingSpec => []ListNeverSkips
<1>1. ReadingInit => ReadingInv
  BY ReadingStarts
<1>2. ReadingInv /\ [ReadingNext]_readingVars => ReadingInv'
  BY ReadingKeepsOn
<1>3. ReadingInv => ListNeverSkips
  BY OrderSkipsNothing
<1> QED BY <1>1, <1>2, <1>3, PTL DEF ReadingSpec
=============================================================================
