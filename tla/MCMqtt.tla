------------------------------- MODULE MCMqtt -------------------------------
(***************************************************************************)
(* The parts of the MQTT side of a node that share no state, checked       *)
(* together: a behaviour is one of a session's life and its Wills, of the  *)
(* delivery of messages to a session, or of the routing caches; the other  *)
(* parts stay in an initial state, where no action that fairness is        *)
(* assumed of is enabled.                                                  *)
(***************************************************************************)
EXTENDS SessionLifecycle, SessionDelivery, RoutingTable

VARIABLE part

MqttInit ==
    /\ part \in {"life", "delivery", "routing"}
    /\ LifeInit /\ DeliveryInit /\ RouteInit
    /\ part # "delivery" => mode = "backpressure"

MqttNext ==
    /\ UNCHANGED part
    /\ \/ part = "life" /\ LifeNext /\ UNCHANGED <<deliveryVars, routeVars>>
       \/ part = "delivery" /\ DeliveryNext /\ UNCHANGED <<lifeVars, routeVars>>
       \/ part = "routing" /\ RouteNext /\ UNCHANGED <<lifeVars, deliveryVars>>

MqttSpec ==
    /\ MqttInit /\ [][MqttNext]_<<part, lifeVars, deliveryVars, routeVars>>
    /\ LifeFairness /\ RouteFairness
    /\ \A w \in Watches : WF_routeVars(part = "routing" /\ LoadRead(w))
=============================================================================
