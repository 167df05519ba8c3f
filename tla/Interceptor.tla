---------------------------- MODULE Interceptor ----------------------------
(***************************************************************************)
(* cmd/interceptor/main.go: a reverse proxy that lets clients of the       *)
(* native group work on the CRD objects.  It has no state; a request and a *)
(* response are rewritten on their way.                                    *)
(*                                                                         *)
(* A request is the group in its URL path and its body; a body is          *)
(* undecodable, or an object with the group of its apiVersion, its content *)
(* and whether it has a line longer than bufio.Scanner's buffer (a client  *)
(* that sends compact JSON sends one line).  A value of the content may    *)
(* mention a group with its version; it is then that group.                *)
(***************************************************************************)

Native == "admissionregistration.k8s.io"
Custom == "admissionregistration.x-k8s.io"

SwapGroup(group, old, new) == IF group = old THEN new ELSE group

(* bytes.ReplaceAll on a body: not the apiVersion alone, but every value    *)
(* that mentions the group.                                                 *)
ReplaceInBody(object, old, new) ==
    [object EXCEPT !.group = SwapGroup(@, old, new),
                   !.content = [p \in DOMAIN @ |-> SwapGroup(@[p], old, new)]]

(* Defect: only the URL is rewritten. *)
RewritePathOnly(req) ==
    IF req.path # Native THEN req ELSE [req EXCEPT !.path = Custom]

(* Rewrite: a long line ends the scan, and what was copied so far is the    *)
(* body. Line ends are dropped, which JSON does not notice.                 *)
Rewrite(req) ==
    IF req.path # Native THEN req
    ELSE [req EXCEPT !.path = Custom,
                     !.decodes = @ /\ ~req.object.long,
                     !.object = ReplaceInBody(@, Native, Custom)]

(* Defect: the response is passed on as it is. *)
PassResponse(path, object) == object

(* ModifyResponse, for the request that was sent to the server. *)
ModifyResponse(path, object) ==
    IF path # Custom THEN object
    ELSE ReplaceInBody(object, Custom, Native)
=============================================================================
