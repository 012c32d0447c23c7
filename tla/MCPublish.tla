----------------------------- MODULE MCPublish -----------------------------
EXTENDS PublishRefines, TLC

\* Callbacks of different workers are interchangeable.
HandlerSymmetry == Permutations(Handlers)
=============================================================================
