---------------------------- MODULE MCListPages ----------------------------
(***************************************************************************)
(* An instance of ListPages for TLC: every list, two rows, pages of one.   *)
(***************************************************************************)
EXTENDS ListPages

Raw(sort, limit, filters) == [sort |-> sort, limit |-> limit, filters |-> filters]
Plain == [f \in {} |-> "ok"]
mcQueries == {
  Raw(NoSort, 1, Plain), Raw(<<"updatedAt", "asc">>, 1, Plain),
  Raw(<<"name", "desc">>, 1, [f \in {"q"} |-> "ok"]),
  Raw(NoSort, 1, [f \in {"active"} |-> "malformed"]),
  Raw(NoSort, 0, Plain) }
=============================================================================
