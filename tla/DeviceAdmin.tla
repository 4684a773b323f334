---------------------------- MODULE DeviceAdmin ----------------------------
(***************************************************************************)
(* The writers that change authority under the device handlers: license    *)
(* administration and order fulfilment on the entitlements, the customer   *)
(* kill switch, and a disabled device. Each is a compare-and-set on the    *)
(* row it read, hence one step; what they share with devices is the        *)
(* triggers of the baseline schema, which bump the revision the handlers   *)
(* compare and refuse a change that would strand an occupied slot.         *)
(***************************************************************************)
EXTENDS DeviceTables

OnlyAuthority == UNCHANGED <<now, attempts, challenges, operations, leases, denials, denyCache,
                             requests, consents, retires, replies>>

\* Slip: a write that does not count.
Uncounted(e) == e

Counted(e) == [e EXCEPT !.rev = @ + 1]

\* Writing row e over license l: every mutator bumps revocation_seq, also when
\* it changes nothing else, so tr_bound_entitlement_revision always counts. The
\* revision column holds at most MaxRevision, so a write past it aborts.
WriteEntitlement(l, e) ==
  /\ e.rev < MaxRevision
  /\ entitlements' = [entitlements EXCEPT ![l] = Counted(e)]
  /\ UNCHANGED <<customers, devices, bindings>>
  /\ OnlyAuthority

\* transitionEntitlement: disable, re-enable or revoke; revocation is terminal.
TransitionEntitlement(l, status) ==
  /\ entitlements[l].status \notin {"revoked", status}
  /\ WriteEntitlement(l, [entitlements[l] EXCEPT !.status = status])

\* patchEntitlement: the validity window and the owner. tr_bound_owner_change
\* refuses a new owner while a slot is occupied.
UpdateEntitlement(l, from, until, owner) ==
  /\ entitlements[l].status # "revoked"
  /\ from < until
  /\ owner # entitlements[l].owner => Occupied(l) = {}
  /\ WriteEntitlement(l, [entitlements[l] EXCEPT !.from = from, !.until = until, !.owner = owner])

\* tr_bound_capacity_decrease
RoomFor(l, max) == max # entitlements[l].max => Cardinality(Occupied(l)) <= max

\* setEntitlementCapacity: the device limit and the lease length.
SetEntitlementCapacity(l, max, lease) ==
  /\ entitlements[l].status # "revoked"
  /\ RoomFor(l, max)
  /\ WriteEntitlement(l, [entitlements[l] EXCEPT !.max = max, !.lease = lease])

\* handleCustomerTransition with tr_bound_customer_revision.
TransitionCustomer(c) ==
  /\ customers[c].rev < MaxRevision
  /\ customers' = [customers EXCEPT ![c] =
       [status |-> IF @.status = "active" THEN "disabled" ELSE "active", rev |-> @.rev + 1]]
  /\ UNCHANGED <<entitlements, devices, bindings>>
  /\ OnlyAuthority

\* tr_bound_device_disable: a device's status changes; disabling it retires its
\* active bindings without an operation row.
TransitionDevice(k) ==
  LET disabling == devices[k].status = "active" IN
  /\ devices[k].status # "none"
  /\ devices[k].rev < MaxRevision
  /\ devices' = [devices EXCEPT ![k].status = IF disabling THEN "disabled" ELSE "active", ![k].rev = @ + 1]
  /\ LET hit == {b \in Bindings : disabling /\ bindings[b].key = k /\ bindings[b].state = "active"} IN
     /\ \A b \in hit : bindings[b].rev < MaxRevision /\ bindings[b].gen < MaxRevision
     /\ bindings' = [b \in Bindings |-> IF b \in hit THEN Retired(bindings[b]) ELSE bindings[b]]
  /\ UNCHANGED <<customers, entitlements>>
  /\ OnlyAuthority

AdminNext ==
  \/ \E l \in Licenses, status \in {"active", "disabled", "revoked"} : TransitionEntitlement(l, status)
  \/ \E l \in Licenses, from \in Starts, until \in Ends, owner \in Customers :
       UpdateEntitlement(l, from, until, owner)
  \/ \E l \in Licenses, max \in Limits, lease \in LeaseTerms : SetEntitlementCapacity(l, max, lease)
  \/ \E c \in Customers : TransitionCustomer(c)
  \/ \E k \in Keys : TransitionDevice(k)
=============================================================================
