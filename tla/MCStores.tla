------------------------------ MODULE MCStores ------------------------------
(* Model checking of what is kept and swept: the file store (writes, a     *)
(* removal and a rename over the same two paths; key 1 may be sent again), *)
(* the files of a return, attachments, the cloud browser's profile and the *)
(* runtime waker.  They share no state that these modules keep: a          *)
(* behaviour follows one and leaves the others at rest.                    *)
EXTENDS FileStore, ReturnFiles, Attachments, CloudBrowser, RuntimeWaker

Ask(kind, p, q, key, iv) == [kind |-> kind, path |-> p, to |-> q, key |-> key, iv |-> iv]
CONSTANTS a, b
Mixed == {Ask("write", a, a, 1, "any"), Ask("rename", a, b, 2, "any"), Ask("remove", a, a, 3, "any")}
MCScenes == {{"crash", "others"}, {"depose", "others"}, {"crash", "freeze"}, {"slow", "others"}}
Installs == {<<"absent", "absent">>, <<"own", "absent">>, <<"own", "cloud">>}

VARIABLE follows   \* the component this behaviour follows

StoresInit ==
    /\ follows \in {"files", "return", "uploads", "browser", "waker"}
    /\ Init /\ FilesInit /\ AttInit
    /\ CloudInit /\ WakerInit
    /\ <<dir[Own(a)], dir[Own(b)]>> \in Installs
    /\ mode = "cloud" => dir[Own(a)] = Absent
    /\ follows # "return" => mode = "cloud"
    /\ follows # "files" => scene = {"crash", "others"}

StoresNext ==
    /\ UNCHANGED follows
    /\ \/ follows = "files" /\ Next
          /\ UNCHANGED <<fileVars, attVars, cloudVars, wakerVars>>
       \/ follows = "return" /\ FilesNext
          /\ UNCHANGED <<vars, attVars, cloudVars, wakerVars>>
       \/ follows = "uploads" /\ AttNext
          /\ UNCHANGED <<vars, fileVars, cloudVars, wakerVars>>
       \/ follows = "browser" /\ CloudNext
          /\ UNCHANGED <<vars, fileVars, attVars, wakerVars>>
       \/ follows = "waker" /\ WakerNext
          /\ UNCHANGED <<vars, fileVars, attVars, cloudVars>>

StoresSpec == StoresInit /\ [][StoresNext]_<<follows, vars, fileVars, attVars, cloudVars,
                                             wakerVars>>
=============================================================================
