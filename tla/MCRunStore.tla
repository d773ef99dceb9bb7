----------------------------- MODULE MCRunStore -----------------------------
(* Small instances of RunStore for TLC. *)
EXTENDS RunStore, TLC

\* Two runs whose answers are a1 and a2.
TwoOutputs == [r \in Runs |-> CASE r = "r1" -> "a1" [] r = "r2" -> "a2"]
OneOutput  == [r \in Runs |-> "a1"]

Write(id, role, parent, format) ==
    [id |-> id, role |-> role, parent |-> parent, format |-> format]

Ask(input, cont) == [input |-> input, cont |-> cont]

\* First turn, follow-up on either answer, a request that names no
\* predecessor, and a request without a user message.
BranchPayloads ==
    {Ask("u1", None), Ask("u2", "a1"), Ask("u2", None), Ask(None, None)}

\* What the browser sends while these turns run: the prompts, the answer under
\* its prompt, and the second prompt as an edit of the first.
BranchPuts ==
    {Write("u1", "user", None, "aui/v0"), Write("a1", "assistant", "u1", "aui/v0"),
     Write("u2", "user", "a1", "aui/v0"), Write("u2", "user", None, "aui/v0")}

\* Two roots that two clients hang below each other.
CrossedPuts ==
    {Write("u1", "user", None, "aui/v0"), Write("u2", "user", None, "aui/v0"),
     Write("u1", "user", "u2", "aui/v0"), Write("u2", "user", "u1", "aui/v0")}

CrossedPayloads == {Ask("u1", None)}

\* The smallest closed set is what is visited link by link, also in a tree that
\* has become cyclic.
ASSUME PathIsTheWalk ==
    \A parent \in [MsgIds -> MsgRef], head \in MsgRef :
        LET up == Upwards(parent, head) IN
        Path(parent, head) = {up[k] : k \in DOMAIN up} \ {None}
=============================================================================
