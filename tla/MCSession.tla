------------------------------ MODULE MCSession ------------------------------
(* A skill learned from the first request answers both; the other's matches  *)
(* neither, not even its own request (see AskAgainIsWarm of Learning).       *)
EXTENDS Session
CONSTANTS table, dinner
MCCovers == {<<table, table>>, <<table, dinner>>}
=============================================================================
