---------------------------- MODULE MCPagination ----------------------------
EXTENDS Pagination

\* Rows are numbers; two of them have the same name.
Values == [id |-> [r \in Row |-> r], name |-> [r \in Row |-> (r + 1) \div 2]]

PublicFields == [created_at |-> "id", name |-> "name"]

NewestFirst == <<<<"created_at", "desc">>>>

ById == <<<<"id", "asc">>>>

\* Without a sort, by name with a tie-breaker, by name only, by a field that
\* is not in the spec.
SomeRequests ==
    { <<>>,
      <<<<"name", "desc">>, <<"created_at", "asc">>>>,
      <<<<"name", "asc">>>>,
      <<<<"password", "asc">>>> }
=============================================================================
