SPECIFICATION TicketSpec
CONSTANTS
    Core = {c1, c2, c3, c4}
    TICKETS = 4
PROPERTIES ImplementsFifo NextGets
