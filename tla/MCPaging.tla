------------------------------- MODULE MCPaging -------------------------------
(***************************************************************************)
(* One expression with both escapes that a continuation keeps: "/k\/l\=m=k", *)
(* a key with a slash and an equals sign, and a value.  "\@" and "\\" are    *)
(* left out: SplitResumeSuffix resolves them once more than ParseExpression  *)
(* expects, and from the third page on nothing is found.                     *)
(***************************************************************************)
EXTENDS Paging

k == -10
l == -11
m == -12

MCRequests == {<<Slash, k, Backslash, Slash, l, Backslash, Equals, m, Equals, k>>}

ASSUME RequestsArePlain == \A r \in MCRequests : Plain(r)

\* "/k\@l"
AtRequests == {<<Slash, k, Backslash, At, l>>}
=============================================================================
