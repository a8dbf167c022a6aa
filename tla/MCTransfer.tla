----------------------------- MODULE MCTransfer -----------------------------
(***************************************************************************)
(* The drive's MCP tools with names that sort before "/": as strings the   *)
(* paths a, a-b and a/c are in this order.                                 *)
(***************************************************************************)
EXTENDS DriveMcp

mcMain == "main"
mcChild == "child"
mcDict == "dict"
mcFiles == {"f", "g"}
mcEntryNames == {"a", "a-b", "c"}
mcPaths == <<<<"a">>, <<"a-b">>, <<"a", "c">>, <<"c">>>>
mcTrees == {<<>> :> "dict" @@ <<"a">> :> "f" @@ <<"a-b">> :> "g" @@ <<"c">> :> "f"}
Entry(from, to) == [from |-> from, to |-> to]
mcSpecs ==
  {<<Entry(<<"a">>, <<"a", "c">>), Entry(<<"c">>, <<"a">>)>>,
   <<Entry(<<"a">>, <<"a", "c">>), Entry(<<"c">>, <<"a">>), Entry(<<"a-b">>, <<"a-b">>)>>}
=============================================================================
