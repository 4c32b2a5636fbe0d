SPECIFICATION Spec
CONSTANTS
    Handling = {r1, r2}
    Customers = {c1}
    Manual = {1}
    SilverAt = 2
    MaxPoints = 2
    Carts = {k1}
    Lines = {l1, l2}
    Orders = {o1, o2}
    Price = 2
    Rate = 2
    Bills = {b1}
    Dishes = {m1, m2}
    DishPrice = 1
    Charge = 1
    Required = 2
    MaxStamps = 4
    External = {x1}
    Imports = {i1, i2}
    Users = {u1, u2}
    Parcels = {d1}
    Shifts = {s1}
    Worker <- WorkerOf
    Entries = {e1, e2}
    Mixes <- StampsAlone
    None = None
INVARIANT CompletedIsRedeemable
CHECK_DEADLOCK FALSE
