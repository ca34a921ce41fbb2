---------------------------- MODULE MCConsoleRuns -----------------------------
(* A request that nothing in the repository matches, one that the captured     *)
(* skill and then the skill of the first match, and one for the bundled agent. *)
EXTENDS ConsoleRuns
CONSTANTS table, dinner, lunch, bundled, captured
MCCovers ==
    {<<bundled, lunch>>, <<captured, dinner>>} \cup {table, dinner} \X {table, dinner}
=============================================================================
