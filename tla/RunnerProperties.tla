-------------------------- MODULE RunnerProperties --------------------------
(* What the controlled runners have to guarantee for any path of snapshots. *)
EXTENDS ControlledRunner

WholeLadder(s) == {Submitted(s.gen, LadderOf(s), slot) : slot \in Placed(LadderOf(s))}

-----------------------------------------------------------------------------
\* The orders a runner believes to work are those an account has that follows
\* its plans, and the counters of submissions and cancellations differ by
\* their number: nothing is forgotten when working orders are replaced by the
\* submitted ones (research/s1_runner.py:362, adaptive_runner.py:445).  The s2
\* runner is not meant: it starts with its initial ladder counted as working,
\* submitted or not (s2_runner.py:276-281).
BooksBalance ==
    runner # "s2" =>
        /\ working = book
        /\ counts.submit - counts.cancel = Cardinality(book)

\* A runner works the whole ladder of its state or nothing: a refused
\* candidate leaves no order and no generation behind (README.md:84).
DeployedWhole == working = {} \/ working = WholeLadder(state)

\* When a state is committed, an account that follows the plans has its whole
\* ladder, whatever was cancelled and continued on the way
\* (application/passive_policy.py:192).
CommitsReachBook ==
    [][state' # state => WholeLadder(state') \subseteq book']_vars

=============================================================================
