-------------------------- MODULE MCGithubIngestion --------------------------
(***************************************************************************)
(* GithubIngestion for TLC.                                                *)
(***************************************************************************)
EXTENDS GithubIngestion, TLC

CrawlSymmetry == Permutations(Crawl)

\* /o/r.git/tree, /o/p.github.io (which is read as /o/phub.io), and /o/.
MCUrl == {<< <<"o">>, <<"r", ".git">>, <<"tree">> >>,
          << <<"o">>, <<"p", ".git", "hub.io">> >>,
          << <<>>, <<"o">>, <<>> >>}

MCHosted == {<< <<"o">>, <<"r">> >>, << <<"o">>, <<"p", ".git", "hub.io">> >>}

Blob(at, path, depth, code) ==
  [at |-> at, path |-> path, depth |-> depth, type |-> "blob", code |-> code]

Dir(at, path, depth) ==
  [at |-> at, path |-> path, depth |-> depth, type |-> "tree", code |-> FALSE]

\* A push moves a source file away and adds a shallow one before the others.
MCTree ==
  0 :> {Blob(1, "README.md", 0, FALSE), Blob(2, "a.py", 0, TRUE),
        Blob(3, "b.py", 0, TRUE), Dir(4, "src", 0),
        Blob(5, "src/x/deep.py", 2, TRUE), Blob(6, "z.py", 0, TRUE)}
  @@
  1 :> {Blob(1, "0.py", 0, TRUE), Blob(2, "README.md", 0, FALSE),
        Blob(3, "a.py", 0, TRUE), Dir(4, "src", 0),
        Blob(5, "src/x/deep.py", 2, TRUE)}
=============================================================================
