-------------------------------- MODULE MCRepos --------------------------------
(***************************************************************************)
(* Repositories as model values, and the repository lists that discovery    *)
(* may return in each instance.                                            *)
(***************************************************************************)
CONSTANTS api, web, ops

Repos1 == {api}
Repos2 == {api, web}
Repos3 == {api, web, ops}

(* One list, always the same: the target's repositories do not change. *)
Fixed1 == {<<api>>}
Fixed2 == {<<api, web>>}
Fixed3 == {<<api, web, ops>>}

(* Repositories appear and disappear between discoveries. *)
Changing2 == {<<web>>, <<api, web>>}
===============================================================================
