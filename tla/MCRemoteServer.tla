--------------------------- MODULE MCRemoteServer ---------------------------
(***************************************************************************)
(* Instances of the remote server for TLC.  One task holds the client, the *)
(* other owned channels of it, as the borrow rules of the code have it.    *)
(***************************************************************************)
EXTENDS RemoteServer

CONSTANTS holder, owner, driver, proxied

Op(name, c, timed) == [op |-> name, chan |-> c, timed |-> timed]

HolderOps == {Op("call", 0, FALSE), Op("post", 0, FALSE), Op("open", 0, FALSE),
              Op("driver", 0, TRUE), Op("code", 0, FALSE), Op("read", 0, FALSE),
              Op("caps", 0, TRUE), Op("handshake", 0, TRUE), Op("disconnect", 0, FALSE)}

OwnerOps == {Op("read", -1, TRUE), Op("call", 1, FALSE),
             Op("plan", -1, TRUE), Op("handle", -1, FALSE), Op("unhandle", -1, FALSE)}

MCTasks == {holder, owner}
MCOps == [t \in MCTasks |-> IF t = holder THEN HolderOps ELSE OwnerOps]
MCIdentifiers == {driver, proxied}
MCRegistered == {driver}
MCProxied == {proxied}

(* A test plan that runs while the holder waits in its select.             *)
PlanOps == [t \in MCTasks |-> {Op("plan", -1, FALSE)}]
=============================================================================
