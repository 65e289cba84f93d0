-------------------------- MODULE MCConversations --------------------------
(* The chat of one contact, small enough for TLC: a refund asks the owner  *)
(* first, restricted requests are denied, everything else is allowed.      *)
EXTENDS Conversations

MCRepresentatives == {"founder", "partner"}
MCActionGate ==
  [r \in MCRepresentatives |->
     [a \in Actions |-> CASE a = "issue_refund" -> "ask_first"
                          [] a = "access_private_files" -> "deny"
                          [] OTHER -> "allow"]]
MCFreeReplyLimit == [r \in MCRepresentatives |-> IF r = "founder" THEN 1 ELSE 2]
Text(kind) == [kind |-> kind, to |-> Nothing]
MCMessages ==
  {Text("faq"), Text("pricing"), Text("refund"), Text("cancel"),
   [kind |-> "paid", to |-> "founder"], [kind |-> "start", to |-> "partner"]}
=============================================================================
