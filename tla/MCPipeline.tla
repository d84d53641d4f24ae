----------------------------- MODULE MCPipeline -----------------------------
(* A small instance of Pipeline: conversations with and without system     *)
(* messages, questions and blank texts, and classifier answers of each of  *)
(* the shapes that are read differently.                                   *)
EXTENDS Pipeline

CONSTANTS s6, s7

Says(role, text) == [role |-> role, text |-> text]

MCConversations ==
    {<<Says("user", "raw")>>,
     <<Says("user", "blank")>>,
     <<Says("system", "clean")>>,
     <<Says("system", "raw"), Says("user", "clean")>>,
     <<Says("user", "raw"), Says("assistant", "raw"), Says("user", "blank")>>}

MCPrompts ==
    {<<Says("system", "raw")>>,
     <<Says("system", "clean"), Says("user", "raw")>>,
     <<Says("assistant", "raw"), Says("system", "blank")>>}

On == {FALSE, TRUE}
\* Injection and content scans matter only where the guard is on.
MCFlags ==
    [pii : On, memory : On, guard : {TRUE}, injection : On, content : On]
    \cup [pii : On, memory : On, guard : {FALSE},
          injection : {FALSE}, content : {FALSE}]

Unlabelled(head, categories) ==
    [user |-> "none", response |-> "none", head |-> head, categories |-> categories]
Labels2(user, response, categories) ==
    [user |-> user, response |-> response, head |-> "odd", categories |-> categories]

MCAnswers ==
    {Unlabelled("safe", {}), Unlabelled("unsafe", {}), Unlabelled("unsafe", {s6}),
     Unlabelled("unsafe", {s6, s7}), Unlabelled("odd", {}),
     Labels2("safe", "unsafe", {s7}), Labels2("unsafe", "safe", {s6}),
     Labels2("odd", "none", {})}
=============================================================================
