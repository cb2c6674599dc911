----------------------- MODULE MCNotificationConsumer -----------------------
\* Two messages are enough for one to be requeued and overtaken by the other;
\* two statements make a handler that can stop half way.
EXTENDS NotificationConsumer
=============================================================================
