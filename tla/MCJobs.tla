------------------------------- MODULE MCJobs -------------------------------
(***************************************************************************)
(* Two jobs for JobLifecycle.                                              *)
(***************************************************************************)
EXTENDS JobLifecycle

\* Every kind comes first and second.
Mixed == {<<"docker", "scripted">>, <<"scripted", "docker">>,
          <<"direct", "direct">>}
=============================================================================
