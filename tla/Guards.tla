------------------------------- MODULE Guards -------------------------------
(***************************************************************************)
(* What GuardService (app/infrastructure/guards.py) makes of a             *)
(* classifier's answer, and the scans a list of messages asks for.         *)
(*                                                                         *)
(* An answer is read as far as the code reads it: its lines "User Safety"  *)
(* and "Response Safety" (Nemotron), the word it begins with (Prompt       *)
(* Guard, Llama Guard) and the categories it names.                        *)
(***************************************************************************)
EXTENDS SequencesExt, Integers

CONSTANTS
    Categories,     \* content categories
    Ignored,        \* guards.content_ignore
    Answers         \* the answers looked at

Words  == {"safe", "unsafe", "odd"}
Labels == Words \cup {"none"}

ASSUME GuardAssumption ==
    /\ Ignored \subseteq Categories
    /\ Answers \subseteq [user : Labels, response : Labels,
                          head : Words, categories : SUBSET Categories]

Roles    == {"system", "user", "assistant"}
Texts    == {"blank", "clean", "raw"}
Verdicts == {"passed", "blocked", "misconfigured"}

\* injection_enabled and content_enabled.
InjectionOn(flags) == flags.guard /\ flags.injection
ContentOn(flags)   == flags.guard /\ flags.content

\* _ensure_scanners: `known`, guards.content_ignore names categories only.
Scannable(flags, known) ==
    flags.guard => (flags.injection \/ flags.content) /\ (flags.content => known)

Labelled(a) == a.user # "none" \/ a.response # "none"

\* parse_nemotron_verdict: the label of the role, or else the other one.
SafetyLabel(a, role) ==
    CASE role = "assistant" /\ a.response # "none" -> a.response
      [] role = "assistant" /\ a.response = "none" -> a.user
      [] role = "user" /\ a.user # "none"          -> a.user
      [] role = "user" /\ a.user = "none"          -> a.response

\* A verdict nobody can read is an error of the settings.
Read(word) ==
    CASE word = "safe"   -> "passed"
      [] word = "unsafe" -> "blocked"
      [] OTHER           -> "misconfigured"

\* scan_injection, with a content-safety model (nemotron) or another one.
InjectionVerdict(a, nemotron) ==
    IF nemotron \/ Labelled(a) THEN Read(SafetyLabel(a, "user")) ELSE Read(a.head)

\* Mutant: a block without categories has none left.
ContentUnlessIgnored(a, role) ==
    LET word == IF Labelled(a) THEN SafetyLabel(a, role) ELSE a.head
    IN IF word = "unsafe" /\ a.categories \subseteq Ignored
       THEN "passed" ELSE Read(word)

\* scan_content: a block for ignored categories only is none.
ContentVerdict(a, role) ==
    LET word == IF Labelled(a) THEN SafetyLabel(a, role) ELSE a.head
    IN IF word = "unsafe" /\ a.categories # {} /\ a.categories \subseteq Ignored
       THEN "passed" ELSE Read(word)

Scan(scanner, part) == [scanner |-> scanner, part |-> part]

(* assert_inbound: the chunks of all user and system text, the latest user *)
(* text, and the system text, each if there is any.                        *)
Inbound(ms, flags, chunks) ==
    {Scan("injection", chunk) : chunk \in
        {c \in chunks : InjectionOn(flags) /\ \E m \in ToSet(ms) :
            m.role \in {"user", "system"} /\ m.text # "blank"}}
    \cup {Scan("content", role) : role \in
        {role \in {"user", "system"} : ContentOn(flags) /\ \E m \in ToSet(ms) :
            m.role = role /\ m.text # "blank"}}

\* assert_outbound
Outbound(text, flags) ==
    IF ContentOn(flags) /\ text # "blank"
    THEN {Scan("content", "assistant")} ELSE {}

VerdictOf(scan, a, nemotron) ==
    IF scan.scanner = "injection" THEN InjectionVerdict(a, nemotron)
    ELSE ContentVerdict(a, IF scan.part = "assistant" THEN "assistant" ELSE "user")

(* What an answer says of the text asked about, for the properties: no     *)
(* doubt is left, or only about categories nobody minds.                   *)
Harmless(scan, a) ==
    LET asked == IF scan.part = "assistant" THEN a.response ELSE a.user
        other == IF scan.part = "assistant" THEN a.user ELSE a.response
        said  == IF asked # "none" THEN asked ELSE IF other # "none" THEN other ELSE a.head
    IN \/ said = "safe"
       \/ /\ scan.scanner = "content" /\ said = "unsafe"
          /\ a.categories \cap Ignored # {} /\ a.categories \ Ignored = {}
=============================================================================
