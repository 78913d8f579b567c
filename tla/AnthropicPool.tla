---------------------------- MODULE AnthropicPool ----------------------------
(***************************************************************************)
(* The pool of Anthropic OAuth accounts (loom-server-llm-anthropic,        *)
(* pool.rs), with the round-robin strategy, the only one configured, and   *)
(* the credential file it shares with its clients (loom-cli-credentials,   *)
(* store.rs).                                                              *)
(*                                                                         *)
(* The pool keeps two vectors that must stay parallel, accounts behind an  *)
(* RwLock and runtimes behind a Mutex, and changes them in two critical    *)
(* sections.  A request picks an index, lets go of both locks, calls the   *)
(* account now at that index while it holds the read lock, lets go again   *)
(* and marks the runtime now at that index.  tokio's RwLock is fair: a     *)
(* reader waits behind a queued writer.  Nothing keeps two admin requests  *)
(* apart, and nothing locks the credential file: every save and delete     *)
(* reads the whole file, edits its copy and writes all of it back.         *)
(*                                                                         *)
(* Indices count from 1, next_index from 0 as in the code.  The clock is   *)
(* left out: any set of cooling accounts may have finished cooling.  Of    *)
(* the file only the account ids are kept, not the tokens.                 *)
(***************************************************************************)
EXTENDS Naturals, Sequences, FiniteSets

CONSTANTS
  Account,    \* account ids
  Stored,     \* the accounts in the credential file at the start
  Request,    \* concurrent completions
  Admin,      \* concurrent add and remove requests
  Refresher,  \* the background refresh task
  None,       \* no account; no copy of the file
  MaxAdds,    \* bound on requests to add an account
  MaxFaults   \* bound on abandoned admin requests and restarts of the server

ASSUME PoolAssumption ==
  /\ Stored \subseteq Account /\ IsFiniteSet(Account) /\ None \notin Account
  /\ Request \cap Admin = {} /\ Refresher \notin Request \cup Admin
  /\ MaxAdds \in Nat /\ MaxFaults \in Nat

VARIABLES
  accounts,   \* accounts: the ids of the entries, in order
  runtimes,   \* state.runtimes, with (history) the account each was made for
  next_index, \* state.next_index
  store,      \* the accounts in the credential file
  copy,       \* for each writer, its edited copy of the file, or None
  req,        \* requests: step, index, account called; (history) stale
  adm,        \* admin requests: step, account and index
  refresher,  \* the background refresh task, as a request
  crossed,    \* history: an admin request ran, or was left, amid another's steps
  astray,     \* history: accounts for which file and pool may have parted
  adds,       \* requests to add an account so far
  faults      \* abandoned admin requests and restarts so far

pool   == <<accounts, runtimes, next_index>>
disk   == <<store, copy>>
bounds == <<adds, faults>>
vars   == <<pool, disk, req, adm, refresher, crossed, astray, bounds>>

Writer   == Request \cup Admin \cup {Refresher}
Statuses == {"Available", "CoolingDown", "Disabled"}
Runtime(a) == [status |-> "Available", of |-> a]
Step(pc, a, i) == [pc |-> pc, account |-> a, index |-> i]
Task(pc, a, i) == [pc |-> pc, account |-> a, index |-> i, stale |-> FALSE]
IdleAdmin == Step("idle", None, 0)
Idle == Task("idle", None, 0)

RemoveAt(s, i) == SubSeq(s, 1, i - 1) \o SubSeq(s, i + 1, Len(s))
PositionOf(a) == CHOOSE i \in 1..Len(accounts) :
                   accounts[i] = a /\ \A j \in 1..(i - 1) : accounts[j] # a
InPool == {accounts[i] : i \in 1..Len(accounts)}

Over(r)  == req[r].pc \in {"idle", "select_panicked", "mark_panicked"}
Ended(m) == adm[m].pc \in {"idle", "panicked"}
Quiet    == \A m \in Admin : Ended(m)

\* An admin request that holds a position or has changed one vector only.
Midway(m) == adm[m].pc \in {"rm_found", "rm_wait", "rm_runtime", "add_runtime"}
Crosses(m) == \E n \in Admin \ {m} : Midway(n)

\* Mutant: drop(accounts) is missing, and the guard lives through the mark.
Reading_kept(r) == req[r].pc \in {"calling", "cool", "disable"}

\* The read guard is held during the call and dropped before the mark.
Reading(r) == req[r].pc = "calling"

\* The RwLock: calls and refreshes hold it for reading, writers queue.
CanRead  == \A m \in Admin : adm[m].pc \notin {"add_wait", "rm_wait"}

\* Mutant: a call clones what it needs and does not keep the read guard.
CanWrite_unguarded == refresher.pc # "refreshing"

CanWrite == (\A r \in Request : ~Reading(r)) /\ refresher.pc # "refreshing"

Tasks(pcs) == [pc : pcs, account : Account \cup {None}, index : Nat, stale : BOOLEAN]

\* Every variable has its type; next_index, a usize, does not go below 0.
TypeOK ==
  /\ accounts \in Seq(Account)
  /\ runtimes \in Seq([status : Statuses, of : Account])
  /\ next_index \in Nat
  /\ store \subseteq Account
  /\ copy \in [Writer -> {None} \cup SUBSET Account]
  /\ req \in [Request -> Tasks({"idle", "selected", "calling", "cool", "disable",
                                "select_panicked", "mark_panicked"})]
  /\ adm \in [Admin -> [pc : {"idle", "add_save", "add_saved", "add_wait",
                              "add_runtime", "rm_found", "rm_wait", "rm_runtime",
                              "rm_store", "panicked"},
                        account : Account \cup {None}, index : Nat]]
  /\ refresher \in Tasks({"idle", "refreshing", "failed", "disable"})
  /\ crossed \in BOOLEAN /\ astray \subseteq Account
  /\ adds \in 0..MaxAdds /\ faults \in 0..MaxFaults

\* load_from_file pushes an entry and a runtime for every stored account, in
\* the order of a HashMap.
Orders(S) == {f \in [1..Cardinality(S) -> S] :
                \A i, j \in 1..Cardinality(S) : f[i] = f[j] => i = j}

\* An empty pool that has loaded the credential file.
Init ==
  /\ accounts \in Orders(Stored)
  /\ runtimes = [i \in 1..Cardinality(Stored) |-> Runtime(accounts[i])]
  /\ next_index = 0
  /\ store = Stored /\ copy = [w \in Writer |-> None]
  /\ req = [r \in Request |-> Idle] /\ adm = [m \in Admin |-> IdleAdmin]
  /\ refresher = Idle
  /\ crossed = FALSE /\ astray = {}
  /\ adds = 0 /\ faults = 0

------------------------------------------------------------------------------
(* complete and complete_streaming                                          *)

\* The first loop of select_account_index, for the cooldowns E that are over.
Expired(E) == [i \in 1..Len(runtimes) |->
                 IF i \in E THEN [runtimes[i] EXCEPT !.status = "Available"]
                 ELSE runtimes[i]]

\* The round-robin loop looks at place(0), place(1), ...; it stops at the
\* first available runtime, or panics at the first index past the runtimes.
select_account_index(r, E) ==
  LET n        == Len(accounts)
      place(i) == ((next_index + i) % n) + 1
      stops    == {i \in 0..(n - 1) :
                     \/ place(i) > Len(runtimes)
                     \/ runtimes'[place(i)].status = "Available"}
      first    == CHOOSE i \in stops : \A j \in stops : i <= j
  IN /\ Over(r) /\ CanRead
     /\ runtimes' = Expired(E)
     /\ IF stops = {}
        THEN req' = [req EXCEPT ![r] = Idle] /\ UNCHANGED next_index
        ELSE IF place(first) > Len(runtimes)
        THEN /\ req' = [req EXCEPT ![r] = Task("select_panicked", None, 0)]
             /\ UNCHANGED next_index
        ELSE /\ next_index' = place(first) % n
             /\ req' = [req EXCEPT ![r] = Task("selected", None, place(first))]
     /\ UNCHANGED <<accounts, disk, adm, refresher, crossed, astray, bounds>>

\* accounts.read() again; the index may be out of bounds by now.
Call(r) ==
  /\ req[r].pc = "selected" /\ CanRead
  /\ req' = [req EXCEPT ![r] =
               IF req[r].index > Len(accounts) THEN Idle
               ELSE Task("calling", accounts[req[r].index], req[r].index)]
  /\ UNCHANGED <<pool, disk, adm, refresher, crossed, astray, bounds>>

\* The client's call succeeds or fails for another reason, reports an
\* exhausted quota, or rejects the credentials.
CallReturns(r, pc) ==
  /\ req[r].pc = "calling" /\ copy[r] = None
  /\ req' = [req EXCEPT ![r] = IF pc = "idle" THEN Idle
                               ELSE Task(pc, req[r].account, req[r].index)]
  /\ UNCHANGED <<pool, disk, adm, refresher, crossed, astray, bounds>>

\* Mutant: the account next in turn is marked.
Mark_next(r) ==
  /\ req[r].pc \in {"cool", "disable"} /\ CanRead
  /\ runtimes' = [runtimes EXCEPT ![next_index + 1].status =
                    IF req[r].pc = "cool" THEN "CoolingDown" ELSE "Disabled"]
  /\ req' = [req EXCEPT ![r] = Idle]
  /\ UNCHANGED <<accounts, next_index, disk, adm, refresher, crossed, astray, bounds>>

\* mark_cooling and mark_disabled: state.runtimes[index] panics out of bounds.
Mark(r) ==
  LET i == req[r].index
  IN /\ req[r].pc \in {"cool", "disable"} /\ CanRead
     /\ IF i > Len(runtimes)
        THEN /\ req' = [req EXCEPT ![r] = Task("mark_panicked", None, 0)]
             /\ UNCHANGED runtimes
        ELSE /\ runtimes' = [runtimes EXCEPT ![i].status =
                  IF req[r].pc = "cool" THEN "CoolingDown" ELSE "Disabled"]
             /\ req' = [req EXCEPT ![r] = Idle]
     /\ UNCHANGED <<accounts, next_index, disk, adm, refresher, crossed, astray,
                    bounds>>

\* The client hangs up and the handler is dropped where it waits.
\* (A file operation handed to the blocking pool by then is over, or is not done.)
Hangup(r) ==
  /\ ~Over(r)
  /\ req' = [req EXCEPT ![r] = Idle]
  /\ copy' = [copy EXCEPT ![r] = None]
  /\ UNCHANGED <<pool, store, adm, refresher, crossed, astray, bounds>>

------------------------------------------------------------------------------
(* FileCredentialStore: save and delete, by an admin request, or by the     *)
(* client of an account that refreshes its token during a call or a check   *)

AccountOf(w) == IF w \in Request THEN req[w].account
                ELSE IF w \in Admin THEN adm[w].account ELSE refresher.account

\* Two calls on one entry do not save at once: get_access_token holds the
\* write lock of the entry's credentials.
Saving(i) == \/ \E r \in Request : req[r].index = i /\ copy[r] # None
             \/ refresher.index = i /\ copy[Refresher] # None
MayWriteFile(w) ==
  \/ w \in Request /\ req[w].pc = "calling" /\ ~Saving(req[w].index)
  \/ w \in Admin /\ adm[w].pc \in {"add_save", "rm_store"}
  \/ w = Refresher /\ refresher.pc = "refreshing" /\ ~Saving(refresher.index)

\* Mutant: delete writes back what it read.
Edited_kept(w, S) ==
  IF w \in Admin /\ adm[w].pc = "rm_store" THEN S ELSE S \cup {AccountOf(w)}

\* delete removes the account, save inserts it.
Edited(w, S) == IF w \in Admin /\ adm[w].pc = "rm_store" THEN S \ {AccountOf(w)}
                ELSE S \cup {AccountOf(w)}

ReadFile(w) ==
  /\ copy[w] = None /\ MayWriteFile(w)
  /\ copy' = [copy EXCEPT ![w] = Edited(w, store)]
  /\ UNCHANGED <<pool, store, req, adm, refresher, crossed, astray, bounds>>

\* write_store writes and renames a temporary file whose name all writers
\* share.  If two do so at once, one publishes the other's copy and the other
\* fails: as if it had written last and then been abandoned.
WriteFile(w) ==
  /\ copy[w] # None
  /\ store' = copy[w]
  /\ copy' = [copy EXCEPT ![w] = None]
  /\ astray' = astray \cup (Edited(w, store) \ copy[w])
                      \cup (copy[w] \ Edited(w, store))
  /\ adm' = IF w \notin Admin THEN adm
            ELSE [adm EXCEPT ![w] = IF adm[w].pc = "add_save"
                                    THEN Step("add_saved", adm[w].account, 0)
                                    ELSE IdleAdmin]
  /\ UNCHANGED <<pool, req, refresher, crossed, bounds>>

------------------------------------------------------------------------------
(* add_account and remove_account                                           *)

\* Any id may be added, also one that is in the pool or being removed.
AddStart(m, a) ==
  /\ Ended(m) /\ adds < MaxAdds /\ adds' = adds + 1
  /\ adm' = [adm EXCEPT ![m] = Step("add_save", a, 0)]
  /\ astray' = IF a \in InPool \/ \E n \in Admin : adm[n].account = a
               THEN astray \cup {a} ELSE astray
  /\ UNCHANGED <<pool, disk, req, refresher, crossed, faults>>

\* An admin request ends early: the file cannot be read or written,
\* AnthropicClient::new_with_store fails, or the client hangs up and the
\* handler is dropped where it waits (for the mutex, only if it is contended).
Abandon(m) ==
  /\ ~Ended(m) /\ faults < MaxFaults /\ faults' = faults + 1
  /\ astray' = IF adm[m].pc \in {"add_saved", "add_wait", "rm_runtime", "rm_store"}
               THEN astray \cup {adm[m].account} ELSE astray
  /\ crossed' = (crossed \/ adm[m].pc \in {"add_runtime", "rm_runtime"})
  /\ adm' = [adm EXCEPT ![m] = IdleAdmin]
  /\ copy' = [copy EXCEPT ![m] = None]
  /\ UNCHANGED <<pool, store, req, refresher, adds>>

\* accounts.write(): from here on new readers wait.
QueueWrite(m) ==
  /\ adm[m].pc \in {"add_saved", "rm_found"}
  /\ adm' = [adm EXCEPT ![m].pc = IF @ = "add_saved" THEN "add_wait" ELSE "rm_wait"]
  /\ UNCHANGED <<pool, disk, req, refresher, crossed, astray, bounds>>

AddEntry(m) ==
  /\ adm[m].pc = "add_wait" /\ CanWrite
  /\ accounts' = Append(accounts, adm[m].account)
  /\ adm' = [adm EXCEPT ![m].pc = "add_runtime"]
  /\ crossed' = (crossed \/ Crosses(m))
  /\ UNCHANGED <<runtimes, next_index, disk, req, refresher, astray, bounds>>

AddRuntime(m) ==
  /\ adm[m].pc = "add_runtime"
  /\ runtimes' = Append(runtimes, Runtime(adm[m].account))
  /\ adm' = [adm EXCEPT ![m] = IdleAdmin]
  /\ UNCHANGED <<accounts, next_index, disk, req, refresher, crossed, astray, bounds>>

\* The position is looked up under a read lock that is then released.
RemoveFind(m, a) ==
  /\ Ended(m) /\ CanRead /\ a \in InPool
  /\ adm' = [adm EXCEPT ![m] = Step("rm_found", a, PositionOf(a))]
  /\ crossed' = (crossed \/ Crosses(m))
  /\ UNCHANGED <<pool, disk, req, refresher, astray, bounds>>

\* Whoever still has to mark an index now has a stale one.
Outdated(task) == [task EXCEPT !.stale = @ \/ task.pc \in {"cool", "disable"}]

\* Vec::remove panics out of bounds.
RemoveEntry(m) ==
  LET i == adm[m].index
  IN /\ adm[m].pc = "rm_wait" /\ CanWrite
     /\ IF i > Len(accounts)
        THEN /\ adm' = [adm EXCEPT ![m] = Step("panicked", None, 0)]
             /\ UNCHANGED <<accounts, req, refresher>>
        ELSE /\ accounts' = RemoveAt(accounts, i)
             /\ adm' = [adm EXCEPT ![m].pc = "rm_runtime"]
             /\ req' = [r \in Request |-> Outdated(req[r])]
             /\ refresher' = Outdated(refresher)
     /\ UNCHANGED <<runtimes, next_index, disk, crossed, astray, bounds>>

\* Mutant: the last runtime is popped.
RemoveRuntime_last(m) ==
  /\ adm[m].pc = "rm_runtime"
  /\ runtimes' = RemoveAt(runtimes, Len(runtimes))
  /\ adm' = [adm EXCEPT ![m].pc = "rm_store"]
  /\ UNCHANGED <<accounts, next_index, disk, req, refresher, crossed, astray, bounds>>

\* Mutant: next_index is moved down with the removed entry.
RemoveRuntime_decrement(m) ==
  /\ adm[m].pc = "rm_runtime"
  /\ runtimes' = RemoveAt(runtimes, adm[m].index)
  /\ next_index' = next_index - 1
  /\ adm' = [adm EXCEPT ![m].pc = "rm_store"]
  /\ UNCHANGED <<accounts, disk, req, refresher, crossed, astray, bounds>>

RemoveRuntime(m) ==
  LET i == adm[m].index
  IN /\ adm[m].pc = "rm_runtime"
     /\ runtimes' = IF i <= Len(runtimes) THEN RemoveAt(runtimes, i) ELSE runtimes
     /\ next_index' = IF next_index >= Len(runtimes') /\ runtimes' # <<>>
                      THEN 0 ELSE next_index
     /\ adm' = [adm EXCEPT ![m].pc = "rm_store"]
     /\ UNCHANGED <<accounts, disk, req, refresher, crossed, astray, bounds>>

------------------------------------------------------------------------------
(* spawn_refresh_task, one account whose token is about to expire           *)

RefreshStart(a) ==
  /\ refresher.pc = "idle" /\ CanRead /\ a \in InPool
  /\ refresher' = Task("refreshing", a, PositionOf(a))
  /\ UNCHANGED <<pool, disk, req, adm, crossed, astray, bounds>>

\* get_access_token returns; if it fails nothing is saved.
RefreshEnds(ok) ==
  /\ refresher.pc = "refreshing" /\ copy[Refresher] = None
  /\ refresher' = IF ok THEN Idle ELSE Task("failed", refresher.account, 0)
  /\ UNCHANGED <<pool, disk, req, adm, crossed, astray, bounds>>

RefreshFind ==
  /\ refresher.pc = "failed" /\ CanRead
  /\ refresher' = IF refresher.account \notin InPool THEN Idle
                  ELSE Task("disable", refresher.account,
                            PositionOf(refresher.account))
  /\ UNCHANGED <<pool, disk, req, adm, crossed, astray, bounds>>

RefreshDisable ==
  /\ refresher.pc = "disable"
  /\ runtimes' = IF refresher.index > Len(runtimes) THEN runtimes
                 ELSE [runtimes EXCEPT ![refresher.index].status = "Disabled"]
  /\ refresher' = Idle
  /\ UNCHANGED <<accounts, next_index, disk, req, adm, crossed, astray, bounds>>

\* The server stops at any point, also between the steps of an add or a
\* remove, and starts again from the credential file; an account whose client
\* cannot be made is left out.
Restart ==
  /\ faults < MaxFaults /\ faults' = faults + 1
  /\ \E S \in SUBSET store :
       /\ accounts' \in Orders(S)
       /\ runtimes' = [i \in 1..Cardinality(S) |-> Runtime(accounts'[i])]
       /\ astray' = store \ S
  /\ next_index' = 0
  /\ req' = [r \in Request |-> Idle] /\ adm' = [m \in Admin |-> IdleAdmin]
  /\ refresher' = Idle
  /\ copy' = [w \in Writer |-> None]
  /\ crossed' = FALSE
  /\ UNCHANGED <<store, adds>>

Cooling == {i \in 1..Len(runtimes) : runtimes[i].status = "CoolingDown"}
Select(r) == \E E \in SUBSET Cooling : select_account_index(r, E)
Returns(r) == \E pc \in {"idle", "cool", "disable"} : CallReturns(r, pc)
FileStep(w) == ReadFile(w) \/ WriteFile(w)
Administered(m) == \/ QueueWrite(m) \/ AddEntry(m) \/ AddRuntime(m)
                   \/ RemoveEntry(m) \/ RemoveRuntime(m)

Next ==
  \/ \E r \in Request : Select(r) \/ Call(r) \/ Returns(r) \/ Mark(r) \/ Hangup(r)
  \/ \E m \in Admin : \/ Administered(m) \/ Abandon(m)
                      \/ \E a \in Account : AddStart(m, a) \/ RemoveFind(m, a)
  \/ \E w \in Writer : FileStep(w)
  \/ \E a \in Account : RefreshStart(a)
  \/ \E ok \in BOOLEAN : RefreshEnds(ok)
  \/ RefreshFind \/ RefreshDisable
  \/ Restart

Spec == Init /\ [][Next]_vars

\* A free lock is taken and an admin request's file operations end.  Nothing
\* is assumed of the calls to the provider: they have no timeout.
Fairness == /\ \A r \in Request : WF_vars(Call(r) \/ Mark(r))
            /\ \A m \in Admin : WF_vars(Administered(m) \/ FileStep(m))
            /\ WF_vars(RefreshFind \/ RefreshDisable)

FairSpec == Spec /\ Fairness

------------------------------------------------------------------------------
(* Properties.                                                              *)

\* While no admin request is under way the two vectors describe the same
\* accounts in the same order (all of pool.rs indexes one by the other),
\* whatever calls, refreshes, hang-ups and saves run beside them, unless since
\* the start one admin request entered its critical steps amid another's or
\* was dropped between its two critical sections.
VectorsParallel ==
  Quiet /\ ~crossed => /\ Len(accounts) = Len(runtimes)
                       /\ \A i \in 1..Len(accounts) : runtimes[i].of = accounts[i]

\* While an account is called or refreshed it stays in the pool at the index
\* the caller has: add_account and remove_account wait for the read guards,
\* also when they run beside each other.
CallsUseMembers ==
  /\ \A r \in Request : req[r].pc = "calling" =>
       req[r].index \in 1..Len(accounts) /\ accounts[req[r].index] = req[r].account
  /\ refresher.pc = "refreshing" =>
       refresher.index \in 1..Len(accounts)
       /\ accounts[refresher.index] = refresher.account

\* mark_cooling, mark_disabled and the refresh task put the status on the
\* runtime of the account that failed.  The windows in which they hit another
\* are the ones named here: an entry was removed since the failure was seen
\* (stale), or its runtime has yet to be removed, or admin requests crossed.
Shifting == crossed \/ \E m \in Admin : adm[m].pc = "rm_runtime"
Hits(task) == /\ task.index \in 1..Len(runtimes)
              /\ runtimes[task.index].of = task.account
              /\ \A i \in 1..Len(runtimes) : i # task.index => runtimes'[i] = runtimes[i]
MarkLands ==
  runtimes' # runtimes /\ faults' = faults /\ ~Shifting =>
    /\ \A r \in Request :
         req[r].pc \in {"cool", "disable"} /\ req'[r] # req[r] /\ ~req[r].stale
           => Hits(req[r])
    /\ refresher.pc = "disable" /\ refresher' # refresher /\ ~refresher.stale
         => Hits(refresher)
OnlyCulpritsMarked == [][MarkLands]_vars

\* While no admin request is under way an account is in the pool if and only
\* if it is in the credential file, so that a restart changes nothing.  The
\* ways to lose this are the ones that put an account in `astray`: an admin
\* request that failed half-way, a writer that overwrote another's edit of
\* the file, an id added while it was in use; or admin requests crossed.
PoolMatchesFile ==
  Quiet /\ ~crossed => \A a \in Account \ astray : a \in InPool <=> a \in store

\* If every call to the provider ends, requests and admin requests all return,
\* although a queued writer stops every new reader: no task asks for a lock
\* while it holds a guard the writer waits for.
EverythingReturns ==
  (\A r \in Request : []<>(req[r].pc # "calling")) /\ []<>(refresher.pc # "refreshing") =>
    /\ \A r \in Request : ~Over(r) ~> Over(r)
    /\ \A m \in Admin : ~Ended(m) ~> Ended(m)

\* Comment: "Remove an account from the pool."  Only the named one.
DocRemoveOnlyNamed ==
  [][\A m \in Admin :
       adm[m].pc = "rm_wait" /\ adm'[m].pc = "rm_runtime"
         => accounts[adm[m].index] = adm[m].account]_vars

\* Comment: "Returns None if all accounts are exhausted."  The selection
\* returns an index or None, also while an account is being added.
DocSelectReturns == \A r \in Request : req[r].pc # "select_panicked"
==============================================================================
