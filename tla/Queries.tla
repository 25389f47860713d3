------------------------------- MODULE Queries -------------------------------
(***************************************************************************)
(* The queries of the core canister that list something, and a client who  *)
(* reads a list page by page while other clients' requests go through.     *)
(*                                                                         *)
(* Each page is a call of its own: the canister keeps no cursor, and finds *)
(* the place to go on from in the list as it is then.  The reader passes   *)
(* the last item it got as prev and stops at an empty page.                *)
(*                                                                         *)
(* An operator just before the one it resembles is a faulty variant, which *)
(* the properties rule out.                                                *)
(***************************************************************************)
EXTENDS Requests, SequencesExt

CONSTANTS
  Take          \* the page size the reader asks for, within max_take_value

ASSUME QueriesAssumption == Take \in Nat \ {0}

(* What a reader lists.  A workload's reads are of these. *)
Listing == [list : {"tokens"}]
             \cup [list : {"tokens_of", "collection_approvals"}, account : Account]
             \cup [list : {"token_approvals"}, id : TokenId]

ASSUME WorkloadsAssumption == \A w \in Workloads : w.reads \subseteq Listing

VARIABLES
  token_created_at,        \* token_created_at[id][s]: created_at of the approval of s
  collection_created_at,   \* collection_created_at[a][s]: the same for the collection's
  walk,                    \* the reader: what it lists, where it is, what it got
  throughout               \* the items that were there, untouched, ever since the walk began

createdVars == <<token_created_at, collection_created_at>>
readerVars == <<walk, throughout>>
queryVars == <<requestVars, token_created_at, collection_created_at, walk, throughout>>

-----------------------------------------------------------------------------
(* created_at of an approval is the time of the call that gave it.         *)

(* The approvals of map m', of which the present step gave the one of      *)
(* spender given (None: it gave none).                                     *)
Stamps(m, stamps, given) ==
  [s \in DOMAIN MapOf(m) |-> IF s = given THEN now ELSE stamps[s]]

StampApprovals(r) ==
  LET executed(op) == r.op = op /\ transactions' # transactions
      onToken(id) == IF executed("37approve") /\ r.id = id THEN r.spender ELSE None
      onCollection(a) == IF executed("37approve_coll") /\ r.from = a THEN r.spender ELSE None
  IN
  /\ token_created_at' =
       [id \in TokenId |-> Stamps(token_approvals'[id], token_created_at[id], onToken(id))]
  /\ collection_created_at' =
       [a \in Account |->
          Stamps(collection_approvals'[a], collection_created_at[a], onCollection(a))]

-----------------------------------------------------------------------------
(* Lists of tokens.                                                        *)

(* The first ids of rest in ascending order, take of them if there are so  *)
(* many.                                                                   *)
Ascending(rest, take) ==
  LET place(id) == Cardinality({i \in rest : i <= id})
      size == Cardinality(rest)
  IN [k \in 1..(IF take < size THEN take ELSE size) |-> CHOOSE id \in rest : place(id) = k]

(* The first ids after prev.  prev is 0 at the start, and no token has     *)
(* that id.                                                                *)
PageFromPrev(ids, prev, take) == Ascending({id \in ids : id >= prev}, take)
Page(ids, prev, take) == Ascending({id \in ids : id > prev}, take)

icrc7_tokens(prev, take) == Page(LiveTokens, prev, take)

tokens_ids_of_account(account) == {id \in LiveTokens : Owns(account, id)}

icrc7_tokens_of(account, prev, take) == Page(tokens_ids_of_account(account), prev, take)

-----------------------------------------------------------------------------
(* Lists of approvals, expired ones included: the latest first.  Those of  *)
(* one time come in the order of a hash map's iteration, which is not the  *)
(* same from call to call.                                                 *)
OldestFirst(stamps) ==
  {q \in SetToSeqs(DOMAIN stamps) :
     \A i, j \in DOMAIN q : i < j => stamps[q[i]] <= stamps[q[j]]}
LatestFirst(stamps) ==
  {q \in SetToSeqs(DOMAIN stamps) :
     \A i, j \in DOMAIN q : i < j => stamps[q[i]] >= stamps[q[j]]}

(* From the item after the approval of spender prev; from the start when   *)
(* that one is no longer there.                                            *)
PagesAfter(orders, prev, take) ==
  {LET before == {i \in DOMAIN q : q[i] = prev}
       start == IF before = {} THEN 0 ELSE CHOOSE i \in before : TRUE
   IN SubSeq(q, start + 1, IF start + take < Len(q) THEN start + take ELSE Len(q))
     : q \in orders}

icrc37_get_token_approvals(id, prev, take) ==
  PagesAfter(LatestFirst(token_created_at[id]), prev, take)

icrc37_get_collection_approvals(account, prev, take) ==
  PagesAfter(LatestFirst(collection_created_at[account]), prev, take)

-----------------------------------------------------------------------------
(* The reader.                                                             *)

(* The items of a list, each with what its place depends on. *)
Items(l, tokens, onTokens, onCollections) ==
  CASE l.list = "tokens" -> [id \in {i \in TokenId : tokens[i] # None} |-> id]
    [] l.list = "tokens_of" -> [id \in {i \in TokenId : tokens[i] = l.account} |-> id]
    [] l.list = "token_approvals" -> onTokens[l.id]
    [] l.list = "collection_approvals" -> onCollections[l.account]

(* The items that share their place with no other. *)
Untied(items) == {i \in DOMAIN items : \A j \in DOMAIN items : items[i] = items[j] => i = j}

(* The items that were there, in a place of their own, and still are. *)
Untouched(before, after) ==
  {i \in Untied(before) \cap Untied(after) : before[i] = after[i]}

ItemsNow(l) == Items(l, tokens_list, token_created_at, collection_created_at)
ItemsNext(l) == Items(l, tokens_list', token_created_at', collection_created_at')

Pages(l, prev) ==
  CASE l.list = "tokens" -> {icrc7_tokens(prev, Take)}
    [] l.list = "tokens_of" -> {icrc7_tokens_of(l.account, prev, Take)}
    [] l.list = "token_approvals" -> icrc37_get_token_approvals(l.id, prev, Take)
    [] l.list = "collection_approvals" -> icrc37_get_collection_approvals(l.account, prev, Take)

Start(l) == IF l.list \in {"tokens", "tokens_of"} THEN 0 ELSE None

Begin ==
  /\ walk.status = "idle"
  /\ walk' = [walk EXCEPT !.status = "reading"]
  /\ throughout' = Untied(ItemsNow(walk.listing))
  /\ UNCHANGED <<requestVars, createdVars>>

Read ==
  /\ walk.status = "reading"
  /\ \E page \in Pages(walk.listing, walk.prev) :
       LET got == {page[i] : i \in DOMAIN page} IN
       walk' = IF page = <<>>
                 THEN [walk EXCEPT !.status = "done", !.prev = None]
                 ELSE [walk EXCEPT !.prev = Last(page),
                                   !.listed = @ \cup got,
                                   !.repeated = @ \/ got \cap walk.listed # {}]
  /\ UNCHANGED <<requestVars, createdVars, throughout>>

-----------------------------------------------------------------------------
QueriesInit ==
  /\ token_created_at = [id \in TokenId |-> NoApprovals]
  /\ collection_created_at = [a \in Account |-> NoApprovals]
  /\ throughout = {}
  /\ \E w \in Workloads :
       /\ StartWith(w)
       /\ \E l \in w.reads :
            walk = [listing |-> l, status |-> "idle", prev |-> Start(l), listed |-> {},
                    repeated |-> FALSE]

(* The reader keeps track of what others leave alone. *)
Notice ==
  /\ throughout' = IF walk.status = "reading"
                     THEN throughout \cap Untouched(ItemsNow(walk.listing), ItemsNext(walk.listing))
                     ELSE throughout
  /\ UNCHANGED walk

QueriesNext ==
  \/ TimePasses /\ UNCHANGED <<createdVars, readerVars>>
  \/ \E new \in workload.limits : UpdateLimits(new) /\ UNCHANGED <<createdVars, readerVars>>
  \/ \E r \in workload.requests : Handle(r) /\ StampApprovals(r) /\ Notice
  \/ Begin
  \/ Read

QueriesSpec == QueriesInit /\ [][QueriesNext]_queryVars

-----------------------------------------------------------------------------
(* Properties.                                                             *)

(* A reader who has come to the end of a list has got every item that was  *)
(* there all the time, whatever came, went and moved meanwhile.  Of        *)
(* approvals those that share their created_at with another are excepted:  *)
(* a page may go on in another order than the one before ended in.         *)
WalkMissesNothing == walk.status = "done" => throughout \subseteq walk.listed

(* Nobody is told of a token twice, even if it left the account and came   *)
(* back between two pages.                                                 *)
TokensListedOnce == walk.listing.list \in {"tokens", "tokens_of"} => ~walk.repeated
=============================================================================
