---------------------------- MODULE ServerCommon ----------------------------
(***************************************************************************)
(* What the handlers of namespace/, service/, config/ and auth/ share.  A  *)
(* handler is an operator from a server and a request to a reply: the      *)
(* database it leaves and the code it answers.  A server srv has           *)
(*   db      the database behind the store interface, and                  *)
(*   cache   the mirrors its caches keep of some tables, by table.         *)
(* The requests carry no operator token, for which AfterResourceOperation  *)
(* (auth/defaultauth/server.go) returns at once; AuthHandlers models what  *)
(* it does for the others.  NoRow is the nil of the optional fields of a   *)
(* request; a UUID the handler draws is the field uuid of the request.     *)
(***************************************************************************)
EXTENDS StoreTables, SequencesExt

CONSTANTS NoMeta, NoCheck, SystemNamespace, Substr, RangeSize, InterfaceSize,
          ButLast, Prefix, MaxBatchSize,
          IllegalNames,   \* the names the regular expression refuses
          LongValues      \* the values longer than their column

storage == INSTANCE Storage

Success == "ExecuteSuccess"
StoreLayerException == "StoreLayerException"
ExistedResource == "ExistedResource"
NotFoundResource == "NotFoundResource"
NoNeedUpdate == "NoNeedUpdate"

Reply(db, code) == [db |-> db, code |-> code]

\* The steps of a handler: go on with the database of the reply, or return it.
Then(reply, next(_)) == IF reply.code # Success THEN reply ELSE next(reply.db)

\* A transaction: nothing but the code is left of a reply that failed.
RolledBack(db, reply) == IF reply.code # Success THEN Reply(db, reply.code) ELSE reply

\* The entries of the map; every other code of the store is absent.
storeCodeAPICodeMap ==
  (EmptyParams :> "InvalidParameter") @@ ("OutOfRange" :> "InvalidParameter")
    @@ (Conflict :> "DataConflict") @@ (Duplicate :> ExistedResource)
    @@ (NotFoundService :> "NotFoundService")
    @@ [c \in {"NotFoundNamespace", "NotFoundMasterConfig", "NotFoundTagConfigOrService",
               "ExistReleasedConfig"} |-> c]

StoreCode2APICode(err) ==
  CASE err = OK -> Success
    [] err \in DOMAIN storeCodeAPICodeMap -> storeCodeAPICodeMap[err]
    [] OTHER -> StoreLayerException

\* The reply to a write of the store: wrapperServiceStoreResponse and its kin.
storeError2Response(result) == Reply(result.db, StoreCode2APICode(result.err))

\* The reply of the handlers that answer every error of the store alike.
StoreReply(result) ==
  Reply(result.db, IF result.err = OK THEN Success ELSE StoreLayerException)

\* A lookup that ended in an error rather than in a row or nil.
Failed(row) == row # NoRow /\ "id" \in DOMAIN row /\ row.id = Multiple

checkResourceName(name) == name \notin {NoRow, ""} \cup IllegalNames

CheckDbStrFieldLen(value) == value \notin LongValues

\* The code of the first check that fails, of a sequence of pairs
\* <<passes, code>>; Success when all pass.
FirstFailure(checks) ==
  LET bad == {i \in DOMAIN checks : ~checks[i][1]}
  IN  IF bad = {} THEN Success ELSE checks[CHOOSE i \in bad : \A j \in bad : i <= j][2]

checkBatch(reqs) ==
  FirstFailure(<< <<reqs # << >>, "EmptyRequest">>,
                  <<Len(reqs) <= MaxBatchSize, "BatchSizeOverLimit">> >>)

\* Run the handler on the requests in turn, each on the database the previous
\* ones left, and keep the codes.
Each(handler(_, _), srv, reqs) ==
  LET step(acc, req) ==
        LET reply == handler([srv EXCEPT !.db = acc.db], req)
        IN  [db |-> reply.db, codes |-> Append(acc.codes, reply.code)]
  IN  FoldLeft(step, [db |-> srv.db, codes |-> << >>], reqs)

CalcCode(code) ==
  CASE code \in {Success, NoNeedUpdate} -> 200
    [] code \in {StoreLayerException, "ExecuteException"} -> 500
    [] OTHER -> 400

FormatBatchWriteResponse(batch) ==
  LET codes == Range(batch.codes)
      worst == {CalcCode(c) : c \in codes}
  IN  Reply(batch.db,
        CASE Cardinality(codes) = 1 -> batch.codes[1]
          [] 500 \in worst -> "ExecuteException"
          [] 400 \in worst -> "BadRequest"
          [] OTHER -> Success)

\* A batch of writes: checked, run in turn, and answered with one code.
Batch(handler(_, _), srv, reqs) ==
  LET check == checkBatch(reqs)
  IN  IF check # Success THEN Reply(srv.db, check)
      ELSE FormatBatchWriteResponse(Each(handler, srv, reqs))
=============================================================================
