----------------------------- MODULE Licensing -----------------------------
(***************************************************************************)
(* FxGripLicensing on one effect, and the provider it observes.  The host  *)
(* thread edits parameters and then has extParameterChanged run; provider  *)
(* threads report statuses at any time; render threads read the status.    *)
(* Only the cached status is under a lock.                                 *)
(*                                                                         *)
(* The plug-in declares neither a product nor the active state, so both    *)
(* are parameters.  A status stands for what statusCoveringReleaseDate:    *)
(* makes of it.                                                            *)
(***************************************************************************)
EXTENDS Naturals, Sequences

CONSTANTS Products,
          NoProduct,  \* the empty product, and none
          Reporters,  \* the provider's threads
          Edits       \* the parameters that are edited

Named == Products \cup {NoProduct}

ASSUME LicensingAssumption ==
  NoProduct \notin Products /\ Edits \subseteq {"toggle", "active", "productID"}

VARIABLES
  truth,     \* the provider's answer for each product
  handlers,  \* the products the provider has a handler for
  productID, \* parameter: the product
  active,    \* parameter: Licensing Active
  toggle,    \* parameter: the licensing toggle, TRUE when licensed
  buttons,   \* the flagHidden of the license buttons: set as for licensed?
  added,     \* extAddedToDocument: has run
  changed,   \* parameters edited, extParameterChanged: not yet called
  host,      \* what is left of the handler on the host thread
  verdict,   \* the status that handler has read
  observed,  \* _observedProductID
  cached,    \* _cachedStatus, and the product it is of
  report     \* per provider thread, the report it is applying

vars == <<truth, handlers, productID, active, toggle, buttons, added, changed,
          host, verdict, observed, cached, report>>
parameterVars == <<productID, active, added, changed>>

Status == {"licensed", "unlicensed"}
Nil == [status |-> "none", of |-> NoProduct]
Idle == [left |-> <<>>]
Reporting == [left : Seq({"cache", "toggle", "buttons"}) \ {<<>>}, status : Status, of : Named]
IsLicensed(s) == s = "licensed"

TypeOK ==
  /\ truth \in [Named -> Status]
  /\ handlers \subseteq Products
  /\ productID \in Named /\ active \in BOOLEAN
  /\ toggle \in BOOLEAN /\ buttons \in BOOLEAN /\ added \in BOOLEAN
  /\ changed \subseteq Edits
  /\ host \in Seq({"clear", "stop", "start", "read", "toggle", "buttons"})
  /\ verdict \in Status
  /\ observed \in Named
  /\ cached \in {Nil} \cup [status : Status, of : Named]
  /\ report \in [Reporters -> {Idle} \cup Reporting]

Init ==
  /\ truth \in [Named -> Status] /\ truth[NoProduct] = "unlicensed"
  /\ handlers = {}
  /\ productID \in Named /\ active \in BOOLEAN
  /\ toggle = FALSE /\ buttons = FALSE
  /\ added = FALSE /\ changed = {}
  /\ host = <<>> /\ verdict = "unlicensed"
  /\ observed = NoProduct /\ cached = Nil
  /\ report = [r \in Reporters |-> Idle]

----------------------------------------------------------------------------
(* The user, or undo, edits a parameter; the host tells the plug-in later. *)
Edit(p) ==
  /\ added /\ p \in Edits /\ changed' = changed \cup {p}
  /\ UNCHANGED <<truth, handlers, buttons, added, host, verdict, observed, cached, report>>
EditToggle == Edit("toggle") /\ toggle' = ~toggle /\ UNCHANGED <<productID, active>>
EditActive == Edit("active") /\ active' = ~active /\ UNCHANGED <<productID, toggle>>
EditProduct(p) ==
  /\ p # productID /\ productID' = p
  /\ Edit("productID") /\ UNCHANGED <<toggle, active>>

(* extAddedToDocument: observes, and syncs the toggle and the buttons; it  *)
(* returns early while inactive.                                           *)
AddedToDocument ==
  /\ ~added /\ added' = TRUE
  /\ host' = IF active THEN <<"stop", "start", "read", "toggle", "buttons">> ELSE <<>>
  /\ UNCHANGED <<truth, handlers, productID, active, toggle, buttons, changed,
                 verdict, observed, cached, report>>

(* A wrong product change: the old observation is not restarted.           *)
HandlerWithoutRestart(p) ==
  CASE p = "toggle" -> <<"read", "toggle">>
    [] p = "active" -> IF active THEN <<"stop", "start">> ELSE <<"stop">>
    [] p = "productID" -> <<"clear">>

(* What extParameterChanged: does for a parameter.  (With the active state *)
(* a parameter, the early return has taken the case in which it is off.)   *)
HandlerOf(p) ==
  CASE p = "toggle" -> <<"read", "toggle">>
    [] p = "active" -> IF active THEN <<"stop", "start">> ELSE <<"stop">>
    [] p = "productID" -> <<"clear", "stop", "start">>

(* extParameterChanged: returns early while inactive, whatever changed.    *)
ParameterChanged(p) ==
  /\ host = <<>> /\ p \in changed /\ changed' = changed \ {p}
  /\ host' = IF active THEN HandlerOf(p) ELSE <<>>
  /\ UNCHANGED <<truth, handlers, productID, active, toggle, buttons, added,
                 verdict, observed, cached, report>>

(* A wrong read: nothing is fetched when nothing is cached.                *)
CachedAsItIs == cached

(* The lazy read of licenseStatus: one critical section, provider call     *)
(* included.                                                               *)
CachedNow == IF cached = Nil THEN [status |-> truth[productID], of |-> productID] ELSE cached

(* The calls a handler on the host thread makes, one at a time.            *)
HostCall(name) == host # <<>> /\ Head(host) = name /\ host' = Tail(host)

(* A wrong stop: it names the current product.                             *)
StopObservingCurrent ==
  /\ HostCall("stop")
  /\ handlers' = handlers \ {productID} /\ observed' = NoProduct
  /\ UNCHANGED <<truth, parameterVars, toggle, buttons, verdict, cached, report>>

StopObserving ==
  /\ HostCall("stop")
  /\ handlers' = handlers \ {observed} /\ observed' = NoProduct
  /\ UNCHANGED <<truth, parameterVars, toggle, buttons, verdict, cached, report>>

(* startObservingProduct:, after its stop; of an empty product nothing is  *)
(* observed.                                                               *)
StartObservingProduct ==
  /\ HostCall("start")
  /\ handlers' = handlers \cup ({productID} \ {NoProduct})
  /\ observed' = productID
  /\ UNCHANGED <<truth, parameterVars, toggle, buttons, verdict, cached, report>>

ClearCachedStatus ==
  /\ HostCall("clear")
  /\ cached' = Nil
  /\ UNCHANGED <<truth, handlers, parameterVars, toggle, buttons, verdict, observed, report>>

ReadStatus ==
  /\ HostCall("read")
  /\ cached' = CachedNow /\ verdict' = CachedNow.status
  /\ UNCHANGED <<truth, handlers, parameterVars, toggle, buttons, observed, report>>

WriteToggle ==
  /\ HostCall("toggle")
  /\ toggle' = IsLicensed(verdict)
  /\ UNCHANGED <<truth, handlers, parameterVars, buttons, verdict, observed, cached, report>>

ApplyButtons ==
  /\ HostCall("buttons")
  /\ buttons' = IsLicensed(verdict)
  /\ UNCHANGED <<truth, handlers, parameterVars, toggle, verdict, observed, cached, report>>

(* A render thread asks for the status.                                    *)
RenderReads ==
  /\ added /\ cached' = CachedNow
  /\ UNCHANGED <<truth, handlers, parameterVars, toggle, buttons, host, verdict,
                 observed, report>>

----------------------------------------------------------------------------
Reports(r, p) ==
  /\ report[r] = Idle
  /\ report' = [report EXCEPT ![r] = [left |-> <<"cache", "toggle", "buttons">>,
                                      status |-> truth'[p], of |-> p]]
  /\ UNCHANGED <<handlers, parameterVars, toggle, buttons, host, verdict, observed, cached>>

(* The store changes a product's status; deliverStatus: fetches the        *)
(* handler, if there is one, and goes on without the provider's lock.      *)
StatusChanges(r, p) ==
  /\ truth' = [truth EXCEPT ![p] = IF IsLicensed(@) THEN "unlicensed" ELSE "licensed"]
  /\ IF p \in handlers
       THEN Reports(r, p)
       ELSE UNCHANGED <<handlers, parameterVars, toggle, buttons, host, verdict,
                        observed, cached, report>>

(* deactivateLicense: the completion reports the same way, observed or     *)
(* not, whether the deactivation came through or failed.                   *)
DeactivateLicense(r) ==
  /\ added /\ active
  /\ truth' \in {truth, [truth EXCEPT ![productID] = "unlicensed"]}
  /\ Reports(r, productID)

(* providerDidReportStatus:, on the reporting thread: under the lock the   *)
(* cached status, then outside it the toggle, then the buttons.            *)
ReportStep(r) ==
  LET now == report[r] IN
  /\ now.left # <<>>
  /\ report' = [report EXCEPT ![r] = IF Len(now.left) = 1 THEN Idle
                                     ELSE [now EXCEPT !.left = Tail(@)]]
  /\ cached' = IF Head(now.left) = "cache" THEN [status |-> now.status, of |-> now.of]
               ELSE cached
  /\ toggle' = IF Head(now.left) = "toggle" THEN IsLicensed(now.status) ELSE toggle
  /\ buttons' = IF Head(now.left) = "buttons" THEN IsLicensed(now.status) ELSE buttons
  /\ UNCHANGED <<truth, handlers, parameterVars, host, verdict, observed>>

HostStep ==
  \/ AddedToDocument \/ EditToggle \/ EditActive
  \/ \E p \in Named : EditProduct(p)
  \/ \E p \in changed : ParameterChanged(p)
  \/ StopObserving \/ StartObservingProduct \/ ClearCachedStatus
  \/ ReadStatus \/ WriteToggle \/ ApplyButtons

ReporterStep(r) ==
  (\E p \in Products : StatusChanges(r, p)) \/ DeactivateLicense(r) \/ ReportStep(r)

Next == HostStep \/ RenderReads \/ \E r \in Reporters : ReporterStep(r)

Spec == Init /\ [][Next]_vars

----------------------------------------------------------------------------
HostQuiet == added /\ changed = {} /\ host = <<>>

(* The provider never holds a handler for a product the extension has left *)
(* behind: products and the active state may change between a start and    *)
(* its stop in any order.                                                  *)
NoLeakedObservation == handlers = {observed} \ {NoProduct}

(* However edits of the product and of the active state are interleaved    *)
(* with their notifications, once all are handled an active extension      *)
(* observes the product the parameter names, or nothing if it is empty.    *)
ObservesCurrentProduct == HostQuiet /\ active => observed = productID

(* The comment on a product change: the verdict is dropped "so             *)
(* licenseStatus recomputes for the new ID instead of reporting the old    *)
(* product's status".                                                      *)
VerdictOfCurrentProduct ==
  HostQuiet /\ active /\ cached # Nil => cached.of = productID
=============================================================================
