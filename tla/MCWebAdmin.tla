----------------------------- MODULE MCWebAdmin -----------------------------
EXTENDS WebAdmin, TLC

MCSymmetry == Permutations(Tabs)

\* No guard reads the last answer, and the CA decides nothing but an answer.
MCView == <<registryVars, admin_password, tokens, forms, page, collected, found>>
=============================================================================
