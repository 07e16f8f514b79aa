---------------------------- MODULE MCToolCalls ----------------------------
(* TLC instances of ToolCalls. *)
EXTENDS ToolCalls

(* A write on the loop, one in a thread, and a call that blocks the loop. *)
mcTool == {"servicex_submit_query", "servicex_delete_dataset",
           "servicex_list_code_generators"}

(* Refusals and exceptions of doubtful effect all read alike. *)
mcMessages == {{"not found"}}
=============================================================================
