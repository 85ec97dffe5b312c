---------------------------- MODULE MCCagefileBuild ----------------------------
(***************************************************************************)
(* Instances of module CagefileBuild for TLC.                              *)
(***************************************************************************)
EXTENDS CagefileBuild

\* A line of words, broken after it or not.
L(text) == Line(text, FALSE)
C(text) == Line(text, TRUE)

From == L(<<"FROM", " ", "base">>)

MCCagefiles == [
    \* a reference to an argument declared later, an environment that grows, two users
    env |-> << L(<<"#", "env">>), From,
               L(<<"RUN", " ", "${V}">>), L(<<>>), L(<<"ENV", " ", "A", "=", "$V">>),
               L(<<"ARG", " ", "V", "=", "1">>), L(<<"USER", " ", "cage">>),
               L(<<"ENV", " ", "B", "=", "x", "=", "y">>),
               C(<<"RUN", " ", "a">>), C(<<"$V">>), L(<<"b">>),
               L(<<"ENV", " ", "A", "=", "2">>), L(<<"RUN", " ", "c">>) >>,
    \* a default, directories and copies, a line that never ends
    copy |-> << From, L(<<"ARG", " ", "D", "=", "/srv/app">>), L(<<"COPY", " ", "src", " ", "${D}">>), L(<<"USER", " ", "cage">>),
                L(<<"WORKDIR", " ", "/home/cage/w">>), L(<<"COPY", " ", "f", " ", "in">>),
                L(<<"#", "all">>), C(<<"RUN", " ", "make">>) >>,
    \* what cannot be done: a directory only root may make
    root |-> << From, L(<<"RUN", " ", "a">>), L(<<"WORKDIR", " ", "/srv">>), L(<<"RUN", " ", "b">>) >>,
    \* what cannot be parsed
    bad  |-> << From, C(<<"RUN", " ", "a">>), L(<<"#", "note">>), L(<<"b">>) >>,
    \* a comment in the middle of a command
    note |-> << From, C(<<"RUN", " ", "a">>), C(<<"#", "note">>), L(<<"b">>) >>,
    \* a file copied into the working directory, and a command there
    into |-> << From, L(<<"WORKDIR", " ", "/home/cage/w">>), L(<<"COPY", " ", "f", " ", ".">>) >>,
    past |-> << From, L(<<"ENV", " ", "A", "=", "1">>), L(<<"WORKDIR", " ", "/home/cage/w">>),
                L(<<"COPY", " ", "f", " ", ".">>), L(<<"RUN", " ", "make">>) >>,
    \* a file copied to a directory
    dir  |-> << From, L(<<"COPY", " ", "f", " ", "/srv/app", "/">>) >>,
    \* a variable that mentions another
    path |-> << From, L(<<"ENV", " ", "A", "=", "1">>), L(<<"ENV", " ", "B", "=", "$A", "/bin">>),
                L(<<"RUN", " ", "b">>) >> ]

Call(file, args, keep) == [file |-> file, args |-> args, arch |-> "amd64", keep |-> keep]
MCBuilds == { Call("env", [V |-> <<"9">>], FALSE), Call("copy", <<>>, TRUE),
              Call("root", <<>>, TRUE), Call("bad", <<>>, FALSE) }
\* One build of one of them.
Only(file, keep) == {Call(file, <<>>, keep)}
MCWorkdir == Only("root", FALSE)
MCNote == Only("note", FALSE)
MCInto == Only("into", FALSE)
MCPast == Only("past", FALSE)
MCDir == Only("dir", FALSE)
MCPath == Only("path", FALSE)
MCCopy == Only("copy", FALSE)
MCKept == Only("root", TRUE)
MCContext == [src |-> "dir", f |-> "file"]
MCPaths == {"/", "/srv", "/srv/app", "/home/cage", "/home/cage/w", "/home/cage/w/in"}
MCParent == [p \in MCPaths |->
    CASE p = "/srv/app" -> "/srv"
      [] p = "/home/cage/w" -> "/home/cage"
      [] p = "/home/cage/w/in" -> "/home/cage/w"
      [] OTHER -> "/"]
MCCagePaths == {"/home/cage"}
MCUsers == {"root", "cage"}

\* What theorem CommandsResolved supposes.
ASSUME MCUnnested == Unnested
=============================================================================
